--------------------------- MODULE SessionProofs ----------------------------
(***************************************************************************)
(* Whom a page shows, whom its requests and its feed speak for, and what a *)
(* flush leaves queued: the three invariants and the action property of    *)
(* Session, for any tabs, users, first link and budgets.                   *)
(*                                                                         *)
(* Most of it is a fact about one page, PageOK, that each operation on a   *)
(* page keeps.  What relates pages is the queue (Drained) and who is       *)
(* linked to the device (Linked).                                          *)
(***************************************************************************)
EXTENDS Session, TLAPS

-----------------------------------------------------------------------------
(* The inductive invariant.                                                *)

Tokens  == [user : Identities, key : Nat]
Whys == {"boot", "login", "send", "flush", "timer"}
Calling == [why : Whys, user : Identities,
            state : {"asked", "granted", "refused"}, token : Tokens]
Entries == [n : Nat, by : Identities]
Feeds   == [state : {"none", "connecting", "open", "closed", "timed"}, token : Tokens,
            user : Identities]
Posts   == [token : Tokens, sure : BOOLEAN]
Stages  == {"off", "booting", "on"}
Flights == {"none", "waiting", "loaded", "post", "asking", "retry"}
Pages   == [on : Stages, user : Identities, token : Tokens, db : Identities,
            calls : SUBSET Calling, status : {"anonymous", "authenticated"},
            feed : Feeds, moved : BOOLEAN,
            send : {"none", "post", "asking", "retry"}, by : Identities, sendAs : Posts,
            flush : Flights, todo : SUBSET Entries, lock : Identities, flushAs : Posts,
            parked : SUBSET Entries]

\* A token is somebody's, under some key.
Real(token) == token.user \in Users /\ token.key # 0
CallOK(c) ==
  /\ c.why = "login" => c.user \in Users
  /\ c.state = "granted" => Real(c.token) /\ (c.why = "login" => c.token.user = c.user)
  /\ c.state # "granted" => c.token = None
CallsOK(p) ==
  /\ \A c \in p.calls : CallOK(c)
  /\ \A c, d \in p.calls : c.why = d.why => c = d
  /\ p.on = "booting" <=> \E c \in p.calls : c.why = "boot"
  /\ p.send = "asking" <=> \E c \in p.calls : c.why = "send"
  /\ p.flush = "asking" <=> \E c \in p.calls : c.why = "flush"
\* A page that is off or booting does nothing else.
Still(p) ==
  p.on # "on" => /\ p.send = "none" /\ p.flush = "none" /\ p.feed.state = "none"
                 /\ \A c \in p.calls : c.why = "boot"
Flushing(p) == p.flush \in {"loaded", "post", "asking", "retry"}
FeedOK(p) ==
  p.token # None => /\ p.feed.state \in {"connecting", "open"} => p.feed.token = p.token
                    /\ p.feed.state = "open" => p.feed.user = p.token.user
\* A page nobody else logged in on since its boot is still its database's.
Unmoved(p) ==
  p.on = "on" /\ ~p.moved => p.user = p.db /\ (p.send # "none" => p.by = p.user)
\* A request made by a page that was sure speaks for the one whose write it is.
PostOK(as, for) ==
  /\ as.token = None \/ Real(as.token)
  /\ as.sure => as.token.user \in {for, Nobody}
PostsOK(p) == PostOK(p.sendAs, p.by) /\ PostOK(p.flushAs, p.db)
\* It holds the lock with something to send, and shows somebody if it says so.
Busy(p) == (p.todo # {} <=> Flushing(p)) /\ (p.status = "authenticated" => p.user # Nobody)
PageOK(p) ==
  /\ p \in Pages /\ (p.token = None \/ Real(p.token))
  /\ CallsOK(p) /\ Still(p) /\ FeedOK(p) /\ Unmoved(p) /\ PostsOK(p) /\ Busy(p)

Types ==
  /\ key \in Nat \ {0} /\ linked \in Identities /\ untold \subseteq Tabs /\ left \subseteq Identities
  /\ queue \in [Identities -> SUBSET Entries] /\ stale \in [Identities -> SUBSET Entries]
  /\ budget \in [Bounded -> Nat]
  /\ DOMAIN tab = Tabs /\ \A t \in Tabs : PageOK(tab[t])

\* What is queued since the last load, and not in conflict, is in the hands of
\* one who flushes.
Drained ==
  \A u \in Identities \ left : \A e \in queue[u] \ stale[u] :
    \E t \in Tabs : tab[t].db = u /\ e \in tab[t].todo

\* A page that was told shows who is linked, and its tokens are for that user.
Agrees(p, who) ==
  /\ p.user = who /\ p.token.user \in {who, Nobody}
  /\ \A c \in p.calls : c.why \in Remints /\ c.state = "granted" => c.token.user = who
ToldOf(p, who) ==
  /\ p.on = "on" => Agrees(p, who)
  /\ \A c \in p.calls : c.why = "boot" /\ c.state = "refused" => who = Nobody
Linked == \A t \in Tabs \ untold : ToldOf(tab[t], linked)

IInv == Types /\ Drained /\ Linked

-----------------------------------------------------------------------------
(* Names for the calls that Asking and Answered make, for the page that    *)
(* RemintFails leaves or FlushStart starts on, and for what an operation   *)
(* on a page leaves alone.                                                 *)
Asked(why, u) == [why |-> why, user |-> u, state |-> "asked", token |-> None]
Answer(c, for) ==
  IF for = Nobody THEN [c EXCEPT !.state = "refused"]
  ELSE [c EXCEPT !.state = "granted", !.token = [user |-> for, key |-> key]]
Failed(t, m, why) == IF why = "timer" THEN Reconnected(m) ELSE Denied(t, m, why)
Started(p, todo) == [p EXCEPT !.todo = todo, !.flush = IF todo = {} THEN "none" ELSE "loaded"]

Who(q, p) ==
  /\ q.on = p.on /\ q.user = p.user /\ q.token = p.token /\ q.db = p.db /\ q.moved = p.moved
  /\ q.status = p.status
Typed(q, p) == q.send = p.send /\ q.by = p.by /\ q.sendAs = p.sendAs
Flushes(q, p) ==
  /\ q.flush = p.flush /\ q.todo = p.todo /\ q.lock = p.lock /\ q.flushAs = p.flushAs
  /\ q.parked = p.parked

\* A request that a page makes.
Fair(as, p) ==
  /\ as \in Posts /\ (as.token = None \/ Real(as.token))
  /\ as.sure => ~p.moved /\ as.token.user \in {p.user, Nobody}

-----------------------------------------------------------------------------
(* Small facts.                                                            *)

LEMMA SmallFacts ==
  /\ None \in Tokens /\ None.user = Nobody /\ None.key = 0 /\ ~Real(None)
  /\ Users \subseteq Identities /\ Nobody \in Identities /\ Nobody \notin Users
  /\ NoPost \in Posts /\ NoPost.token = None /\ ~NoPost.sure
BY SessionAssumption DEF None, Tokens, Real, Identities, NoPost, Posts

\* A fresh page.
LEMMA FreshPage ==
  ASSUME NEW on \in Stages, NEW u \in Identities, NEW token \in Tokens
  PROVE  LET q == Page(on, u, token) IN
         /\ q \in Pages /\ q.on = on /\ q.user = u /\ q.token = token /\ q.db = u
         /\ q.calls = {} /\ q.feed.state = "none" /\ ~q.moved /\ q.send = "none"
         /\ q.flush = "none" /\ q.todo = {} /\ q.sendAs = NoPost /\ q.flushAs = NoPost
         /\ q.status = "authenticated" => q.user # Nobody
BY SmallFacts DEF Page, Pages, Tokens, Feeds, Flights

\* A page that asks: its calls, and nothing else, change.
LEMMA AskingFields ==
  ASSUME NEW p \in Pages, NEW why \in Whys, NEW u \in Identities
  PROVE  LET q == Asking(p, why, u) IN
         /\ q \in Pages
         /\ q.calls = p.calls \union {Asked(why, u)}
         /\ q.feed = p.feed /\ Who(q, p) /\ Typed(q, p) /\ Flushes(q, p)
<1> DEFINE q == Asking(p, why, u)
<1> DEFINE call == Asked(why, u)
<1>1. call \in Calling
  BY SmallFacts DEF Calling, Asked
<1> HIDE DEF call
<1>2. q = [p EXCEPT !.calls = p.calls \union {call}]
  BY DEF Asking, Asked, call
<1>3. p.calls \union {call} \in SUBSET Calling
  BY <1>1 DEF Pages
<1>4. QED
  BY <1>2, <1>3 DEF Pages, call, Who, Typed, Flushes

LEMMA DoneFields ==
  ASSUME NEW p \in Pages, NEW c
  PROVE  LET q == Done(p, c) IN
         /\ q \in Pages /\ q.calls = p.calls \ {c}
         /\ q.feed = p.feed /\ Who(q, p) /\ Typed(q, p) /\ Flushes(q, p)
BY DEF Done, Pages, Who, Typed, Flushes

LEMMA ReconnectedFields ==
  ASSUME NEW p \in Pages
  PROVE  LET q == Reconnected(p) IN
         /\ q \in Pages /\ q.feed.state = "connecting" /\ q.feed.token = p.token
         /\ q.calls = p.calls /\ Who(q, p) /\ Typed(q, p) /\ Flushes(q, p)
<1> DEFINE q == Reconnected(p)
<1> DEFINE feed == [state |-> "connecting", token |-> p.token, user |-> Nobody]
<1>1. feed \in Feeds
  BY SmallFacts DEF Feeds, Pages
<1>2. feed.state = "connecting" /\ feed.token = p.token
  OBVIOUS
<1>3. q = [p EXCEPT !.feed = feed]
  BY DEF Reconnected
<1> HIDE DEF feed
<1>4. QED
  BY <1>1, <1>2, <1>3 DEF Pages, Who, Typed, Flushes

\* A page that asks for a resync.
LEMMA ResyncingFields ==
  ASSUME NEW p \in Pages
  PROVE  LET q == Resyncing(p) IN
         /\ q \in Pages /\ q.calls = p.calls /\ q.feed = p.feed /\ Who(q, p) /\ Typed(q, p)
         /\ q.flush = (IF p.flush = "none" THEN "waiting" ELSE p.flush)
         /\ q.todo = p.todo /\ q.flushAs = p.flushAs
<1> DEFINE q == Resyncing(p)
<1>1. CASE p.flush = "none"
  <2>1. q = [p EXCEPT !.flush = "waiting", !.lock = p.user]
    BY <1>1 DEF Resyncing
  <2>2. "waiting" \in Flights
    BY DEF Flights
  <2> HIDE DEF q
  <2>3. q \in Pages
    BY <2>1, <2>2 DEF Pages
  <2>4. /\ q.flush = "waiting" /\ q.lock = p.user
        /\ q.calls = p.calls /\ q.feed = p.feed /\ q.todo = p.todo /\ q.flushAs = p.flushAs
    BY <2>1 DEF Pages
  <2>5. Who(q, p)
    BY <2>1 DEF Pages, Who
  <2>6. Typed(q, p)
    BY <2>1 DEF Pages, Typed
  <2>7. QED
    BY <1>1, <2>3, <2>4, <2>5, <2>6 DEF q
<1>2. CASE p.flush # "none"
  <2>1. q = p
    BY <1>2 DEF Resyncing
  <2> HIDE DEF q
  <2>2. QED
    BY <1>2, <2>1 DEF Who, Typed, q
<1>3. QED
  BY <1>1, <1>2

\* A request is fair if the page's token speaks for whom it shows.
LEMMA PostedFair ==
  ASSUME NEW t \in Tabs, NEW p \in Pages, p.token = None \/ Real(p.token),
         t \notin untold => p.token.user \in {p.user, Nobody}
  PROVE  Fair(Posted(t, p), p)
BY DEF Fair, Posted, Posts, Pages

\* A page that posts the next of some entries, or ends its flush.
LEMMA GoingFields ==
  ASSUME NEW t \in Tabs, NEW p \in Pages, NEW todo \in SUBSET Entries, Fair(Posted(t, p), p)
  PROVE  LET q == Going(t, p, todo) IN
         /\ q \in Pages /\ q.todo = todo /\ q.flush = IF todo = {} THEN "none" ELSE "post"
         /\ q.flushAs \in {NoPost, Posted(t, p)}
         /\ q.calls = p.calls /\ q.feed = p.feed /\ Who(q, p) /\ Typed(q, p)
<1> DEFINE q == Going(t, p, todo)
           as == IF todo = {} THEN NoPost ELSE Posted(t, p)
           flush == IF todo = {} THEN "none" ELSE "post"
<1>1. q = [p EXCEPT !.todo = todo, !.flush = flush, !.flushAs = as]
  BY DEF Going
<1>2. as \in Posts /\ as \in {NoPost, Posted(t, p)}
  BY SmallFacts DEF Fair
<1>3. flush \in Flights /\ flush = IF todo = {} THEN "none" ELSE "post"
  BY DEF Flights
<1> HIDE DEF as, flush, q
<1>4. q \in Pages
  BY <1>1, <1>2, <1>3 DEF Pages
<1>5. /\ q.todo = todo /\ q.flush = flush /\ q.flushAs = as
      /\ q.calls = p.calls /\ q.feed = p.feed
  BY <1>1 DEF Pages
<1>6. Who(q, p)
  BY <1>1 DEF Pages, Who
<1>7. Typed(q, p)
  BY <1>1 DEF Pages, Typed
<1>8. QED
  BY <1>2, <1>3, <1>4, <1>5, <1>6, <1>7 DEF q

LEMMA AnsweredFields ==
  ASSUME NEW p \in Pages, NEW c \in p.calls, NEW for \in Identities, key \in Nat
  PROVE  LET q == Answered(p, c, for) IN LET a == Answer(c, for) IN
         /\ q \in Pages /\ q.calls = (p.calls \ {c}) \union {a} /\ a.why = c.why /\ a.user = c.user
         /\ a.state = IF for = Nobody THEN "refused" ELSE "granted"
         /\ for = Nobody => a.token = c.token
         /\ for # Nobody => a.token.user = for /\ a.token.key = key
         /\ q.feed = p.feed /\ Who(q, p) /\ Typed(q, p) /\ Flushes(q, p)
<1> DEFINE a == Answer(c, for)
<1> DEFINE q == Answered(p, c, for)
<1>1. c \in Calling
  BY DEF Pages
<1>2. /\ a \in Calling /\ a.why = c.why /\ a.user = c.user
      /\ a.state = IF for = Nobody THEN "refused" ELSE "granted"
      /\ for = Nobody => a.token = c.token
      /\ for # Nobody => a.token.user = for /\ a.token.key = key
  <2>1. CASE for = Nobody
    BY <1>1, <2>1 DEF Calling, Answer
  <2>2. CASE for # Nobody
    <3>1. [user |-> for, key |-> key] \in Tokens
      BY DEF Tokens
    <3>2. QED
      BY <1>1, <2>2, <3>1 DEF Calling, Answer
  <2>3. QED
    BY <2>1, <2>2
<1> DEFINE calls == (p.calls \ {c}) \union {a}
<1>3. q = [p EXCEPT !.calls = calls]
  BY DEF Answered, Answer, Done, Pages
<1>4. calls \in SUBSET Calling
  BY <1>2 DEF Pages
<1>5. calls = (p.calls \ {c}) \union {a}
  OBVIOUS
<1> HIDE DEF calls
<1>6. /\ q \in Pages /\ q.calls = calls
      /\ q.feed = p.feed /\ Who(q, p) /\ Typed(q, p) /\ Flushes(q, p)
  BY <1>3, <1>4 DEF Pages, Who, Typed, Flushes
<1>7. QED
  BY <1>2, <1>5, <1>6

-----------------------------------------------------------------------------
(* Each operation on a page keeps PageOK.                                  *)

\* A page that keeps who it is, its calls and what it sends and flushes, keeps
\* the rest.
LEMMA SamePage ==
  ASSUME NEW p, PageOK(p), NEW q \in Pages, Who(q, p), Typed(q, p), q.calls = p.calls,
         q.flush = p.flush, q.todo = p.todo, q.flushAs = p.flushAs, FeedOK(q),
         p.on # "on" => q.feed.state = "none"
  PROVE  PageOK(q)
<1>1. CallsOK(q)
  BY DEF PageOK, CallsOK, Who, Typed
<1>2. Still(q) /\ Unmoved(q)
  BY DEF PageOK, Still, Unmoved, Who, Typed
<1>3. PostsOK(q) /\ Busy(q)
  BY DEF PageOK, PostsOK, Busy, Flushing, Who, Typed
<1>4. QED
  BY <1>1, <1>2, <1>3 DEF PageOK, Who

\* A page that has just been opened.
LEMMA BootPage ==
  LET q == Asking(Page("booting", Nobody, None), "boot", Nobody) IN
         PageOK(q) /\ q.on = "booting" /\ q.todo = {} /\ \A c \in q.calls : c.state = "asked"
<1> DEFINE q == Asking(Page("booting", Nobody, None), "boot", Nobody)
           p == Page("booting", Nobody, None)
           call == Asked("boot", Nobody)
<1>1. None \in Tokens /\ Nobody \in Identities
  BY SmallFacts
<1>2. /\ p \in Pages /\ p.on = "booting" /\ p.user = Nobody /\ p.token = None /\ p.calls = {}
      /\ p.feed.state = "none" /\ p.send = "none" /\ p.flush = "none" /\ p.todo = {}
      /\ p.sendAs = NoPost /\ p.flushAs = NoPost /\ (p.status = "authenticated" => p.user # Nobody)
  <2>1. "booting" \in Stages
    BY DEF Stages
  <2>2. QED
    BY <1>1, <2>1, FreshPage
<1>3. q = Asking(p, "boot", Nobody) /\ "boot" \in Whys /\ Nobody \in Identities
  BY SmallFacts DEF Whys
<1> HIDE DEF p
<1>4. /\ q \in Pages /\ q.calls = p.calls \union {call}
      /\ q.feed = p.feed /\ Who(q, p) /\ Typed(q, p) /\ Flushes(q, p)
  BY <1>2, <1>3, AskingFields
<1>5. q.calls = {call}
  BY <1>2, <1>4
<1>6. call.why = "boot" /\ call.state = "asked" /\ call.token = None
  BY DEF Asked
<1> HIDE DEF call, q
<1>7. CallsOK(q) /\ Still(q)
  BY <1>2, <1>4, <1>5, <1>6 DEF CallsOK, CallOK, Still, Who, Typed, Flushes
<1>8. FeedOK(q) /\ Unmoved(q) /\ PostsOK(q) /\ Busy(q)
  BY <1>2, <1>4, SmallFacts DEF FeedOK, Unmoved, PostsOK, PostOK, Busy, Flushing, Who, Typed, Flushes
<1>9. QED
  BY <1>2, <1>4, <1>5, <1>6, <1>7, <1>8 DEF PageOK, Who, Flushes, q

\* A page that asks, and marks what waits for the answer.
LEMMA AskingPage ==
  ASSUME NEW p, PageOK(p), NEW m \in Pages, NEW why \in {"login", "send", "flush", "timer"},
         NEW u \in Identities, why = "login" => u \in Users, p.on = "on", \A c \in p.calls : c.why # why,
         Who(m, p), m.calls = p.calls, m.by = p.by, m.sendAs = p.sendAs,
         m.todo = p.todo, m.flushAs = p.flushAs,
         m.feed = p.feed \/ m.feed.state = "timed",
         m.send = IF why = "send" THEN "asking" ELSE p.send,
         m.flush = IF why = "flush" THEN "asking" ELSE p.flush,
         why = "send" => p.send # "none", why = "flush" => Flushing(p)
  PROVE  LET q == Asking(m, why, u) IN
         /\ PageOK(q) /\ q.on = p.on /\ q.user = p.user /\ q.token = p.token /\ q.db = p.db
         /\ q.todo = p.todo /\ \A c \in q.calls : c \in p.calls \/ c.state = "asked"
<1> DEFINE q == Asking(m, why, u)
<1> DEFINE call == Asked(why, u)
<1>0. why \in Whys
  BY DEF Whys
<1>1. /\ q \in Pages /\ q.calls = m.calls \union {call}
      /\ q.feed = m.feed /\ Who(q, m) /\ Typed(q, m) /\ Flushes(q, m)
  BY <1>0, AskingFields
<1>2. call.why = why /\ call.state = "asked" /\ call.token = None /\ call.user = u
  BY DEF Asked
<1> HIDE DEF call, q
<1>3. CallOK(call)
  BY <1>2 DEF CallOK
<1>4. Who(q, p) /\ q.send = m.send /\ q.flush = m.flush /\ q.by = p.by /\ q.sendAs = p.sendAs
      /\ q.todo = p.todo /\ q.flushAs = p.flushAs
  BY <1>1 DEF Who, Typed, Flushes
<1>5. CallsOK(q)
  BY <1>1, <1>2, <1>3, <1>4 DEF PageOK, CallsOK, Who
<1>6. Still(q) /\ Unmoved(q) /\ FeedOK(q)
  BY <1>1, <1>4 DEF PageOK, Still, Unmoved, FeedOK, Who
<1>7. PostsOK(q) /\ Busy(q)
  BY <1>1, <1>4 DEF PageOK, PostsOK, Busy, Flushing, Who
<1>8. PageOK(q)
  BY <1>1, <1>4, <1>5, <1>6, <1>7 DEF PageOK, Who
<1>9. QED
  BY <1>1, <1>2, <1>4, <1>8 DEF Who, q

\* A page whose call was served.
LEMMA AnsweredPage ==
  ASSUME NEW p, PageOK(p), NEW c \in p.calls, NEW for \in Identities, key \in Nat \ {0},
         c.state = "asked", c.why = "login" => for \in {c.user, Nobody}
  PROVE  LET q == Answered(p, c, for) IN
         /\ PageOK(q)
         /\ \A d \in q.calls : d \in p.calls \/ /\ d.why = c.why
                                                /\ d.state = "granted" => d.token.user = for
                                                /\ d.state = "refused" => for = Nobody
         /\ q.on = p.on /\ q.user = p.user /\ q.token = p.token /\ q.db = p.db /\ q.todo = p.todo
<1> DEFINE q == Answered(p, c, for)
<1> DEFINE a == Answer(c, for)
<1>0. p \in Pages /\ key \in Nat
  BY DEF PageOK
<1>1. /\ q \in Pages /\ q.calls = (p.calls \ {c}) \union {a} /\ a.why = c.why /\ a.user = c.user
      /\ a.state = IF for = Nobody THEN "refused" ELSE "granted"
      /\ for = Nobody => a.token = c.token
      /\ for # Nobody => a.token.user = for /\ a.token.key = key
      /\ q.feed = p.feed /\ Who(q, p) /\ Typed(q, p) /\ Flushes(q, p)
  BY <1>0, AnsweredFields
<1> HIDE DEF a, q
<1>2. CallOK(c) /\ CallsOK(p)
  BY DEF PageOK, CallsOK
<1>3. CallOK(a)
  BY <1>1, <1>2, SmallFacts DEF CallOK, Real, Identities
<1>4. CallsOK(q)
  BY <1>1, <1>2, <1>3 DEF CallsOK, Who, Typed, Flushes
<1>5. Still(q) /\ Unmoved(q) /\ FeedOK(q)
  BY <1>1 DEF PageOK, Still, Unmoved, FeedOK, Who, Typed, Flushes
<1>6. PostsOK(q) /\ Busy(q)
  BY <1>1 DEF PageOK, PostsOK, Busy, Flushing, Who, Typed, Flushes
<1>7. PageOK(q)
  BY <1>1, <1>4, <1>5, <1>6 DEF PageOK, Who
<1>8. QED
  BY <1>1, <1>7 DEF Who, Flushes, q

\* A page that has booted.
LEMMA BootedPage ==
  ASSUME NEW token \in Tokens, token = None \/ Real(token)
  PROVE  LET q == Reconnected(Page("on", token.user, token)) IN
         /\ PageOK(q) /\ q.on = "on" /\ q.user = token.user /\ q.token = token /\ q.calls = {}
         /\ q.todo = {}
<1> DEFINE q == Reconnected(Page("on", token.user, token))
<1> DEFINE p == Page("on", token.user, token)
<1>1. /\ p \in Pages /\ p.on = "on" /\ p.user = token.user /\ p.token = token /\ p.db = token.user
      /\ p.calls = {} /\ ~p.moved /\ p.send = "none" /\ p.flush = "none" /\ p.todo = {}
      /\ p.sendAs = NoPost /\ p.flushAs = NoPost /\ (p.status = "authenticated" => p.user # Nobody)
  <2>1. "on" \in Stages
    BY DEF Stages
  <2>2. token.user \in Identities
    BY DEF Tokens
  <2>3. QED
    BY <2>1, <2>2, FreshPage
<1>2. q = Reconnected(p)
  OBVIOUS
<1> HIDE DEF p
<1>3. /\ q \in Pages /\ q.feed.state = "connecting" /\ q.feed.token = p.token
      /\ q.calls = p.calls /\ Who(q, p) /\ Typed(q, p) /\ Flushes(q, p)
  BY <1>1, <1>2, ReconnectedFields
<1> HIDE DEF q
<1>4. CallsOK(q) /\ Still(q) /\ FeedOK(q) /\ Unmoved(q)
  BY <1>1, <1>3 DEF CallsOK, Still, FeedOK, Unmoved, Who, Typed, Flushes
<1>5. PostsOK(q) /\ Busy(q)
  BY <1>1, <1>3, SmallFacts DEF PostsOK, PostOK, Busy, Flushing, Who, Typed, Flushes
<1>6. QED
  BY <1>1, <1>3, <1>4, <1>5 DEF PageOK, Who, Flushes, q

\* A call of a page is well formed.
LEMMA CallOfPage ==
  ASSUME NEW p, PageOK(p), NEW c \in p.calls
  PROVE  /\ c \in Calling /\ CallOK(c) /\ c.token \in Tokens /\ (c.token = None \/ Real(c.token))
         /\ c.user \in Identities /\ p \in Pages /\ c.why \in Whys
         /\ c.why # "boot" => p.on = "on"
BY SmallFacts DEF PageOK, CallsOK, CallOK, Still, Pages, Calling

\* A page whose login was granted.
LEMMA LoggedPage ==
  ASSUME NEW p, PageOK(p), NEW c \in p.calls, c.why = "login", c.state = "granted"
  PROVE  LET m == [Done(p, c) EXCEPT !.user = c.user, !.token = c.token, !.status = "authenticated",
                                     !.moved = @ \/ c.user # p.user]
             q == Reconnected(m)
         IN  /\ PageOK(q) /\ q.on = p.on /\ q.user = c.user /\ q.token = c.token
             /\ q.calls = p.calls \ {c} /\ q.db = p.db /\ q.todo = p.todo
             /\ c.token.user = c.user
<1> DEFINE d == Done(p, c)
           m == [d EXCEPT !.user = c.user, !.token = c.token, !.status = "authenticated",
                          !.moved = @ \/ c.user # p.user]
           q == Reconnected(m)
<1>1. /\ c \in Calling /\ CallOK(c) /\ c.token \in Tokens /\ c.user \in Identities /\ p \in Pages
      /\ p.on = "on"
  BY CallOfPage
<1>2. Real(c.token) /\ c.token.user = c.user /\ c.user # Nobody
  BY <1>1, SmallFacts DEF CallOK
<1>3. /\ d \in Pages /\ d.calls = p.calls \ {c}
      /\ d.feed = p.feed /\ Who(d, p) /\ Typed(d, p) /\ Flushes(d, p)
  BY <1>1, DoneFields
<1> HIDE DEF d
<1>4. /\ m \in Pages /\ m.user = c.user /\ m.token = c.token /\ m.status = "authenticated"
      /\ m.moved <=> (d.moved \/ c.user # p.user)
      /\ m.on = d.on /\ m.db = d.db /\ m.feed = d.feed /\ m.calls = d.calls
      /\ Typed(m, d) /\ Flushes(m, d)
  BY <1>1, <1>3 DEF Pages, Typed, Flushes
<1> HIDE DEF m
<1>5. /\ q \in Pages /\ q.feed.state = "connecting" /\ q.feed.token = m.token
      /\ q.calls = m.calls /\ Who(q, m) /\ Typed(q, m) /\ Flushes(q, m)
  BY <1>4, ReconnectedFields
<1> HIDE DEF q
<1>6. Typed(q, p) /\ Flushes(q, p) /\ q.on = p.on /\ q.db = p.db /\ q.calls = p.calls \ {c}
      /\ q.user = c.user /\ q.token = c.token /\ q.moved = m.moved /\ d.moved = p.moved
  BY <1>3, <1>4, <1>5 DEF Who, Typed, Flushes
<1>7. CallsOK(q)
  BY <1>6 DEF PageOK, CallsOK, Typed, Flushes
<1>8. Still(q) /\ FeedOK(q)
  BY <1>1, <1>5, <1>6, <1>4 DEF Still, FeedOK
<1>9. Unmoved(q)
  BY <1>1, <1>4, <1>6 DEF PageOK, Unmoved, Typed
<1>10. PostsOK(q) /\ Busy(q)
  BY <1>2, <1>6 DEF PageOK, PostsOK, Busy, Flushing, Typed, Flushes
<1>11. PageOK(q)
  BY <1>2, <1>5, <1>6, <1>7, <1>8, <1>9, <1>10 DEF PageOK
<1>12. QED
  BY <1>2, <1>6, <1>11 DEF d, m, q, Flushes

\* A page whose login was refused or lost.
LEMMA LoginLostPage ==
  ASSUME NEW p, PageOK(p), NEW c \in p.calls, c.why = "login"
  PROVE  LET q == [Done(p, c) EXCEPT !.status = "anonymous"] IN
         /\ PageOK(q) /\ q.on = p.on /\ q.user = p.user /\ q.token = p.token /\ q.db = p.db
         /\ q.todo = p.todo /\ q.calls = p.calls \ {c}
<1> DEFINE d == Done(p, c)
           q == [d EXCEPT !.status = "anonymous"]
<1>1. p \in Pages
  BY DEF PageOK
<1>2. /\ d \in Pages /\ d.calls = p.calls \ {c}
      /\ d.feed = p.feed /\ Who(d, p) /\ Typed(d, p) /\ Flushes(d, p)
  BY <1>1, DoneFields
<1> HIDE DEF d
<1>3. /\ q \in Pages /\ q.calls = d.calls /\ q.feed = d.feed /\ q.status = "anonymous"
      /\ q.on = d.on /\ q.user = d.user /\ q.token = d.token /\ q.db = d.db /\ q.moved = d.moved
      /\ Typed(q, d) /\ Flushes(q, d)
  BY <1>2 DEF Pages, Typed, Flushes
<1> HIDE DEF q
<1>4. /\ q.calls = p.calls \ {c} /\ q.feed = p.feed
      /\ q.on = p.on /\ q.user = p.user /\ q.token = p.token /\ q.db = p.db /\ q.moved = p.moved
      /\ Typed(q, p) /\ Flushes(q, p)
  BY <1>2, <1>3 DEF Who, Typed, Flushes
<1>5. CallsOK(q)
  BY <1>4 DEF PageOK, CallsOK, Typed, Flushes
<1>6. Still(q) /\ FeedOK(q) /\ Unmoved(q)
  BY <1>4 DEF PageOK, Still, FeedOK, Unmoved, Typed, Flushes
<1>7. PostsOK(q) /\ Busy(q)
  BY <1>3, <1>4 DEF PageOK, PostsOK, Busy, Flushing, Typed, Flushes
<1>8. PageOK(q)
  BY <1>3, <1>4, <1>5, <1>6, <1>7 DEF PageOK
<1>9. QED
  BY <1>4, <1>8 DEF d, q, Flushes

\* A page that has a fresh token: its feed reconnects and what waited resumes,
\* with a request of its own.
LEMMA RemintedPage ==
  ASSUME NEW t \in Tabs, NEW p, PageOK(p), NEW c \in p.calls, c.why \in Remints, c.state = "granted",
         t \notin untold => c.token.user = p.user
  PROVE  LET q == Resumed(t, Reconnected([Done(p, c) EXCEPT !.token = c.token]), c.why) IN
         /\ PageOK(q) /\ q.on = p.on /\ q.user = p.user /\ q.token = c.token /\ q.db = p.db
         /\ q.calls = p.calls \ {c} /\ q.todo = p.todo
<1> DEFINE d == Done(p, c)
           m == [d EXCEPT !.token = c.token]
           r == Reconnected(m)
           as == Posted(t, r)
           q == Resumed(t, r, c.why)
<1>1. /\ c \in Calling /\ CallOK(c) /\ c.token \in Tokens /\ p \in Pages /\ p.on = "on"
  BY CallOfPage DEF Remints
<1>2. Real(c.token)
  BY <1>1 DEF CallOK
<1>3. /\ d \in Pages /\ d.calls = p.calls \ {c}
      /\ d.feed = p.feed /\ Who(d, p) /\ Typed(d, p) /\ Flushes(d, p)
  BY <1>1, DoneFields
<1> HIDE DEF d
<1>4. /\ m \in Pages /\ m.token = c.token /\ m.user = d.user /\ m.moved = d.moved
      /\ m.on = d.on /\ m.db = d.db /\ m.status = d.status /\ m.feed = d.feed /\ m.calls = d.calls
      /\ Typed(m, d) /\ Flushes(m, d)
  BY <1>1, <1>3 DEF Pages, Typed, Flushes
<1> HIDE DEF m
<1>5. /\ r \in Pages /\ r.feed.state = "connecting" /\ r.feed.token = m.token
      /\ r.calls = m.calls /\ Who(r, m) /\ Typed(r, m) /\ Flushes(r, m)
  BY <1>4, ReconnectedFields
<1> HIDE DEF r
<1>6. /\ r.token = c.token /\ r.user = p.user /\ r.moved = p.moved /\ r.on = p.on /\ r.db = p.db
      /\ r.status = p.status /\ r.calls = p.calls \ {c} /\ Typed(r, p) /\ Flushes(r, p)
      /\ r.feed.token = r.token
  BY <1>3, <1>4, <1>5 DEF Who, Typed, Flushes
<1>7. Fair(as, r)
  <2>1. t \notin untold => r.token.user \in {r.user, Nobody}
    BY <1>6
  <2>2. QED
    BY <1>2, <1>5, <1>6, <2>1, PostedFair
<1> HIDE DEF as
<1>8. /\ q \in Pages /\ q.feed = r.feed /\ q.calls = r.calls /\ Who(q, r)
      /\ q.by = r.by /\ q.todo = r.todo
      /\ q.send = IF c.why = "send" THEN "retry" ELSE r.send
      /\ q.sendAs = IF c.why = "send" THEN as ELSE r.sendAs
      /\ q.flush = IF c.why = "flush" THEN "retry" ELSE r.flush
      /\ q.flushAs = IF c.why = "flush" THEN as ELSE r.flushAs
  <2>1. CASE c.why = "send"
    <3>1. q = [r EXCEPT !.send = "retry", !.sendAs = as]
      BY <2>1 DEF Resumed, as
    <3>2. as \in Posts
      BY <1>7 DEF Fair
    <3> HIDE DEF q
    <3>3. QED
      BY <1>5, <2>1, <3>1, <3>2 DEF Pages, Who
  <2>2. CASE c.why = "flush"
    <3>1. q = [r EXCEPT !.flush = "retry", !.flushAs = as]
      BY <2>2 DEF Resumed, as
    <3>2. as \in Posts /\ "retry" \in Flights
      BY <1>7 DEF Fair, Flights
    <3> HIDE DEF q
    <3>3. QED
      BY <1>5, <2>2, <3>1, <3>2 DEF Pages, Who
  <2>3. CASE c.why = "timer"
    <3>1. q = r
      BY <2>3 DEF Resumed
    <3> HIDE DEF q
    <3>2. QED
      BY <1>5, <2>3, <3>1 DEF Who
  <2>4. QED
    BY <2>1, <2>2, <2>3 DEF Remints
<1> HIDE DEF q
<1>9. /\ q.user = p.user /\ q.token = c.token /\ q.on = p.on /\ q.db = p.db /\ q.moved = p.moved
      /\ q.status = p.status /\ q.calls = p.calls \ {c} /\ q.by = p.by /\ q.todo = p.todo
      /\ q.send = IF c.why = "send" THEN "retry" ELSE p.send
      /\ q.sendAs = IF c.why = "send" THEN as ELSE p.sendAs
      /\ q.flush = IF c.why = "flush" THEN "retry" ELSE p.flush
      /\ q.flushAs = IF c.why = "flush" THEN as ELSE p.flushAs
  BY <1>6, <1>8 DEF Who, Typed, Flushes
<1>10. CallsOK(q)
  BY <1>9 DEF PageOK, CallsOK, Remints
<1>11. (c.why = "flush" => p.flush = "asking") /\ (c.why = "send" => p.send = "asking")
  BY DEF PageOK, CallsOK
<1>12. Still(q) /\ FeedOK(q) /\ Unmoved(q)
  BY <1>1, <1>5, <1>6, <1>8, <1>9, <1>11 DEF PageOK, Still, FeedOK, Unmoved
<1>13. Busy(q)
  BY <1>9, <1>11 DEF PageOK, Busy, Flushing
<1>14. PostsOK(q)
  <2>1. as.token = None \/ Real(as.token)
    BY <1>7 DEF Fair
  <2>2. as.sure => ~p.moved /\ as.token.user \in {p.user, Nobody}
    BY <1>6, <1>7 DEF Fair
  <2>3. ~p.moved => p.user = p.db /\ (p.send # "none" => p.by = p.user)
    BY <1>1 DEF PageOK, Unmoved
  <2>4. c.why = "send" => p.send # "none"
    BY <1>11
  <2>5. PostOK(q.sendAs, q.by)
    <3>1. CASE c.why = "send"
      BY <1>9, <2>1, <2>2, <2>3, <2>4, <3>1 DEF PostOK
    <3>2. CASE c.why # "send"
      BY <1>9, <3>2 DEF PageOK, PostsOK
    <3>3. QED
      BY <3>1, <3>2
  <2>6. PostOK(q.flushAs, q.db)
    <3>1. CASE c.why = "flush"
      BY <1>9, <2>1, <2>2, <2>3, <3>1 DEF PostOK
    <3>2. CASE c.why # "flush"
      BY <1>9, <3>2 DEF PageOK, PostsOK
    <3>3. QED
      BY <3>1, <3>2
  <2>7. QED
    BY <2>5, <2>6 DEF PostsOK
<1>15. PageOK(q)
  BY <1>2, <1>8, <1>9, <1>10, <1>12, <1>13, <1>14 DEF PageOK
<1>16. QED
  BY <1>9, <1>15 DEF d, m, r, q

\* A page that posts the next of some entries, or ends its flush.
LEMMA GoingPage ==
  ASSUME NEW t \in Tabs, NEW p, PageOK(p), NEW m \in Pages, NEW todo \in SUBSET Entries,
         Who(m, p), Typed(m, p), m.calls = p.calls, m.feed = p.feed, m.todo = p.todo,
         p.on = "on", p.flush # "asking", Fair(Posted(t, m), m)
  PROVE  LET q == Going(t, m, todo) IN
         PageOK(q) /\ Who(q, p) /\ q.calls = p.calls /\ q.todo = todo
<1> DEFINE q == Going(t, m, todo)
           as == Posted(t, m)
<1>1. /\ q \in Pages /\ q.todo = todo /\ q.flush = IF todo = {} THEN "none" ELSE "post"
      /\ q.flushAs \in {NoPost, as}
      /\ q.calls = m.calls /\ q.feed = m.feed /\ Who(q, m) /\ Typed(q, m)
  BY GoingFields
<1>2. Fair(as, m)
  OBVIOUS
<1> HIDE DEF q, as
<1>3. Who(q, p) /\ Typed(q, p)
  BY <1>1 DEF Who, Typed
<1>4. CallsOK(q)
  BY <1>1, <1>3 DEF PageOK, CallsOK, Who, Typed
<1>5. Still(q) /\ FeedOK(q) /\ Unmoved(q) /\ Busy(q)
  BY <1>1, <1>3 DEF PageOK, Still, FeedOK, Unmoved, Busy, Flushing, Who, Typed
<1>6. PostOK(NoPost, q.db)
  BY SmallFacts DEF PostOK
<1>7. PostOK(as, q.db)
  BY <1>2, <1>3 DEF Fair, PostOK, PageOK, Unmoved, Who
<1>8. PostsOK(q)
  <2>1. PostOK(q.sendAs, q.by)
    BY <1>3 DEF PageOK, PostsOK, Typed
  <2>2. PostOK(q.flushAs, q.db)
    BY <1>1, <1>6, <1>7
  <2>3. QED
    BY <2>1, <2>2 DEF PostsOK
<1>9. PageOK(q)
  BY <1>1, <1>3, <1>4, <1>5, <1>8 DEF PageOK, Who
<1>10. QED
  BY <1>1, <1>3, <1>9 DEF q

\* A page that gets no token: its feed reconnects if its timer asked, and what
\* waited is over.
LEMMA FailedPage ==
  ASSUME NEW t \in Tabs, NEW p, PageOK(p), NEW c \in p.calls, c.why \in Remints,
         NEW m, m = Done(p, c) \/ m = [Done(p, c) EXCEPT !.token = None],
         t \notin untold => p.token.user \in {p.user, Nobody}
  PROVE  LET q == Failed(t, m, c.why) IN
         /\ PageOK(q) /\ q.on = p.on /\ q.user = p.user /\ q.db = p.db /\ q.calls = p.calls \ {c}
         /\ q.token \in {p.token, None}
         /\ c.why = "flush" => q.todo = p.todo \ {NextEntry(m)}
         /\ c.why # "flush" => q.todo = p.todo
         /\ m.db = p.db
<1> DEFINE d == Done(p, c)
           q == Failed(t, m, c.why)
<1>1. p \in Pages /\ None \in Tokens /\ None.user = Nobody
  BY SmallFacts DEF PageOK
<1>2. /\ d \in Pages /\ d.calls = p.calls \ {c}
      /\ d.feed = p.feed /\ Who(d, p) /\ Typed(d, p) /\ Flushes(d, p)
  BY <1>1, DoneFields
<1>3. m = d \/ m = [d EXCEPT !.token = None]
  OBVIOUS
<1> HIDE DEF d
<1>4. /\ m \in Pages /\ m.calls = p.calls \ {c} /\ m.token \in {p.token, None}
      /\ m.on = p.on /\ m.user = p.user /\ m.db = p.db /\ m.moved = p.moved /\ m.status = p.status
      /\ m.feed = p.feed /\ Typed(m, p) /\ Flushes(m, p)
  BY <1>1, <1>2, <1>3 DEF Pages, Who, Typed, Flushes
<1>5. /\ p.on = "on" /\ CallsOK(p)
      /\ (c.why = "flush" => p.flush = "asking") /\ (c.why = "send" => p.send = "asking")
  BY DEF PageOK, Still, CallsOK, Remints
<1>6. CASE c.why = "timer"
  <2>1. q = Reconnected(m)
    BY <1>6 DEF Failed
  <2>2. /\ Reconnected(m) \in Pages /\ Reconnected(m).feed.state = "connecting"
        /\ Reconnected(m).feed.token = m.token /\ Reconnected(m).calls = m.calls
        /\ Who(Reconnected(m), m) /\ Typed(Reconnected(m), m) /\ Flushes(Reconnected(m), m)
    BY <1>4, ReconnectedFields
  <2> HIDE DEF q
  <2>3. /\ q \in Pages /\ q.feed.state = "connecting" /\ q.feed.token = q.token
        /\ q.calls = p.calls \ {c} /\ q.token \in {p.token, None}
        /\ q.on = p.on /\ q.user = p.user /\ q.db = p.db /\ q.moved = p.moved /\ q.status = p.status
        /\ Typed(q, p) /\ Flushes(q, p)
    BY <1>4, <2>1, <2>2 DEF Who, Typed, Flushes
  <2>4. CallsOK(q)
    BY <1>5, <1>6, <2>3 DEF CallsOK, Typed, Flushes
  <2>5. Still(q) /\ FeedOK(q) /\ Unmoved(q)
    BY <1>5, <2>3 DEF PageOK, Still, FeedOK, Unmoved, Typed
  <2>6. PostsOK(q) /\ Busy(q)
    BY <2>3 DEF PageOK, PostsOK, Busy, Flushing, Typed, Flushes
  <2>7. PageOK(q)
    BY <2>3, <2>4, <2>5, <2>6 DEF PageOK
  <2>8. QED
    BY <1>4, <1>6, <2>3, <2>7 DEF Flushes, q
<1>7. CASE c.why = "send"
  <2>1. q = [m EXCEPT !.send = "none", !.sendAs = NoPost]
    BY <1>7 DEF Failed, Denied, Sent
  <2> HIDE DEF q
  <2>2. /\ q \in Pages /\ q.feed = p.feed /\ q.send = "none" /\ q.sendAs = NoPost /\ q.by = p.by
        /\ q.calls = p.calls \ {c} /\ q.token \in {p.token, None}
        /\ q.on = p.on /\ q.user = p.user /\ q.db = p.db /\ q.moved = p.moved /\ q.status = p.status
        /\ Flushes(q, p)
    BY <1>4, <2>1, SmallFacts DEF Pages, Typed, Flushes
  <2>3. CallsOK(q)
    BY <1>5, <1>7, <2>2 DEF CallsOK, Flushes
  <2>4. Still(q) /\ FeedOK(q) /\ Unmoved(q)
    BY <1>5, <2>2 DEF PageOK, Still, FeedOK, Unmoved
  <2>5. PostsOK(q) /\ Busy(q)
    BY <2>2, SmallFacts DEF PageOK, PostsOK, PostOK, Busy, Flushing, Flushes
  <2>6. PageOK(q)
    BY <2>2, <2>3, <2>4, <2>5 DEF PageOK
  <2>7. QED
    BY <1>4, <1>7, <2>2, <2>6 DEF Flushes, q
<1>8. CASE c.why = "flush"
  <2> DEFINE todo == m.todo \ {NextEntry(m)}
             as == Posted(t, m)
  <2>1. q = Going(t, m, todo)
    BY <1>8 DEF Failed, Denied, Advanced
  <2>2. Fair(as, m)
    <3>1. m.token = None \/ Real(m.token)
      BY <1>4 DEF PageOK
    <3>2. t \notin untold => m.token.user \in {m.user, Nobody}
      BY <1>1, <1>4
    <3>3. QED
      BY <1>4, <3>1, <3>2, PostedFair
  <2>3. todo \in SUBSET Entries
    BY <1>4 DEF Pages
  <2> HIDE DEF q, todo
  <2>4. /\ q \in Pages /\ q.todo = todo /\ q.flush = IF todo = {} THEN "none" ELSE "post"
        /\ q.flushAs \in {NoPost, Posted(t, m)}
        /\ q.calls = m.calls /\ q.feed = m.feed /\ Who(q, m) /\ Typed(q, m)
    BY <1>4, <2>1, <2>2, <2>3, GoingFields
  <2> HIDE DEF as
  <2>5. /\ q.calls = p.calls \ {c} /\ q.token \in {p.token, None} /\ q.feed = p.feed
        /\ q.on = p.on /\ q.user = p.user /\ q.db = p.db /\ q.moved = p.moved /\ q.status = p.status
        /\ Typed(q, p)
    BY <1>4, <2>4 DEF Who, Typed
  <2>6. CallsOK(q)
    BY <1>5, <1>8, <2>4, <2>5 DEF CallsOK, Typed
  <2>7. Still(q) /\ FeedOK(q) /\ Unmoved(q)
    BY <1>5, <2>5 DEF PageOK, Still, FeedOK, Unmoved, Typed
  <2>8. Busy(q)
    BY <2>4, <2>5 DEF PageOK, Busy, Flushing
  <2>9. PostsOK(q)
    <3>1. PostOK(NoPost, q.db)
      BY SmallFacts DEF PostOK
    <3>2. PostOK(Posted(t, m), q.db)
      BY <1>4, <1>5, <2>2, <2>5 DEF Fair, PostOK, PageOK, Unmoved, as
    <3>3. PostOK(q.sendAs, q.by)
      BY <2>5 DEF PageOK, PostsOK, Typed
    <3>4. QED
      BY <2>4, <3>1, <3>2, <3>3 DEF PostsOK
  <2>10. PageOK(q)
    BY <2>4, <2>5, <2>6, <2>7, <2>8, <2>9 DEF PageOK
  <2>11. todo = p.todo \ {NextEntry(m)}
    BY <1>4 DEF Flushes, todo
  <2>12. QED
    BY <1>4, <1>8, <2>4, <2>5, <2>10, <2>11 DEF q
<1>9. QED
  BY <1>6, <1>7, <1>8 DEF Remints

\* A page whose feed does not listen any more, or not yet.
LEMMA DeafPage ==
  ASSUME NEW p, PageOK(p), NEW s \in {"connecting", "closed"},
         p.feed.state = "open" \/ (p.feed.state = "connecting" /\ s = "closed")
  PROVE  LET q == [p EXCEPT !.feed.state = s] IN
         PageOK(q) /\ Who(q, p) /\ q.calls = p.calls /\ q.todo = p.todo
<1> DEFINE q == [p EXCEPT !.feed.state = s]
<1>1. p \in Pages /\ p.on = "on"
  BY DEF PageOK, Still
<1>2. /\ q \in Pages /\ q.feed.state = s /\ q.feed.token = p.feed.token
      /\ q.calls = p.calls /\ Who(q, p) /\ Typed(q, p) /\ Flushes(q, p)
  BY <1>1 DEF Pages, Feeds, Who, Typed, Flushes
<1> HIDE DEF q
<1>3. FeedOK(q)
  BY <1>2 DEF PageOK, FeedOK, Who
<1>4. q.flush = p.flush /\ q.todo = p.todo /\ q.flushAs = p.flushAs
  BY <1>2 DEF Flushes
<1>5. PageOK(q)
  BY <1>1, <1>2, <1>3, <1>4, SamePage
<1>6. QED
  BY <1>2, <1>4, <1>5 DEF q

\* A page that asks for a resync.
LEMMA ResyncedPage ==
  ASSUME NEW p, PageOK(p), p.on = "on"
  PROVE  LET q == Resyncing(p) IN
         PageOK(q) /\ Who(q, p) /\ q.calls = p.calls /\ q.todo = p.todo
<1> DEFINE q == Resyncing(p)
<1>1. /\ q \in Pages /\ q.calls = p.calls /\ q.feed = p.feed /\ Who(q, p) /\ Typed(q, p)
      /\ q.flush = (IF p.flush = "none" THEN "waiting" ELSE p.flush)
      /\ q.todo = p.todo /\ q.flushAs = p.flushAs
  BY ResyncingFields DEF PageOK
<1> HIDE DEF q
<1>2. CallsOK(q)
  BY <1>1 DEF PageOK, CallsOK, Who, Typed
<1>3. Still(q) /\ FeedOK(q) /\ Unmoved(q)
  BY <1>1 DEF PageOK, Still, FeedOK, Unmoved, Who, Typed
<1>4. PostsOK(q) /\ Busy(q)
  BY <1>1 DEF PageOK, PostsOK, Busy, Flushing, Who, Typed
<1>5. PageOK(q)
  BY <1>1, <1>2, <1>3, <1>4 DEF PageOK, Who
<1>6. QED
  BY <1>1, <1>5 DEF q

\* A page whose feed connects to a stream the server takes for somebody.
LEMMA OpenPage ==
  ASSUME NEW p, PageOK(p), p.feed.state = "connecting"
  PROVE  LET q == Resyncing([p EXCEPT !.feed = [@ EXCEPT !.state = "open",
                                                         !.user = p.feed.token.user]]) IN
         PageOK(q) /\ Who(q, p) /\ q.calls = p.calls /\ q.todo = p.todo
<1> DEFINE f == [p.feed EXCEPT !.state = "open", !.user = p.feed.token.user]
           m == [p EXCEPT !.feed = f]
<1>1. p \in Pages /\ p.on = "on"
  BY DEF PageOK, Still
<1>2. /\ f \in Feeds /\ f.state = "open" /\ f.token = p.feed.token /\ f.user = p.feed.token.user
  BY <1>1 DEF Pages, Feeds, Tokens
<1>3. m = [p EXCEPT !.feed = [@ EXCEPT !.state = "open", !.user = p.feed.token.user]]
  BY <1>1 DEF Pages
<1> HIDE DEF f
<1>4. /\ m \in Pages /\ m.feed = f
      /\ m.calls = p.calls /\ Who(m, p) /\ Typed(m, p) /\ Flushes(m, p)
  BY <1>1, <1>2 DEF Pages, Who, Typed, Flushes
<1> HIDE DEF m
<1>5. FeedOK(m)
  BY <1>2, <1>4 DEF PageOK, FeedOK, Who
<1>6. m.flush = p.flush /\ m.todo = p.todo /\ m.flushAs = p.flushAs
  BY <1>4 DEF Flushes
<1>7. PageOK(m) /\ m.on = "on"
  BY <1>1, <1>4, <1>5, <1>6, SamePage DEF Who
<1>8. LET q == Resyncing(m) IN PageOK(q) /\ Who(q, m) /\ q.calls = m.calls /\ q.todo = m.todo
  BY <1>7, ResyncedPage
<1>9. QED
  BY <1>3, <1>4, <1>6, <1>8 DEF Who

\* A page whose closed feed asks for a token.
LEMMA TimedPage ==
  ASSUME NEW p, PageOK(p), p.feed.state = "closed", \A c \in p.calls : c.why # "timer"
  PROVE  LET q == Asking([p EXCEPT !.feed.state = "timed"], "timer", Nobody) IN
         /\ PageOK(q) /\ q.on = p.on /\ q.user = p.user /\ q.token = p.token /\ q.db = p.db
         /\ q.todo = p.todo /\ \A c \in q.calls : c \in p.calls \/ c.state = "asked"
<1> DEFINE m == [p EXCEPT !.feed.state = "timed"]
<1>1. p \in Pages /\ p.on = "on"
  BY DEF PageOK, Still
<1>2. /\ m \in Pages /\ m.feed.state = "timed" /\ m.send = p.send /\ m.flush = p.flush
      /\ m.calls = p.calls /\ m.by = p.by /\ m.sendAs = p.sendAs /\ m.todo = p.todo
      /\ m.flushAs = p.flushAs /\ Who(m, p)
  BY <1>1 DEF Pages, Feeds, Who
<1> HIDE DEF m
<1> DEFINE q == Asking(m, "timer", Nobody)
<1>3. Nobody \in Identities
  BY SmallFacts
<1>4. /\ PageOK(q) /\ q.on = p.on /\ q.user = p.user /\ q.token = p.token /\ q.db = p.db
      /\ q.todo = p.todo /\ \A c \in q.calls : c \in p.calls \/ c.state = "asked"
  BY <1>1, <1>2, <1>3, AskingPage
<1>5. QED
  BY <1>4 DEF m

\* A page whose edit is over.
LEMMA SentPage ==
  ASSUME NEW p, PageOK(p), p.send # "asking"
  PROVE  LET q == Sent(p) IN
         PageOK(q) /\ Who(q, p) /\ q.calls = p.calls /\ q.todo = p.todo /\ q.parked = p.parked
<1> DEFINE q == Sent(p)
<1>1. p \in Pages
  BY DEF PageOK
<1>2. q = [p EXCEPT !.send = "none", !.sendAs = NoPost]
  BY DEF Sent
<1> HIDE DEF q
<1>3. /\ q \in Pages /\ q.feed = p.feed /\ q.send = "none" /\ q.sendAs = NoPost
      /\ q.calls = p.calls /\ Who(q, p) /\ Flushes(q, p)
  BY <1>1, <1>2, SmallFacts DEF Pages, Who, Flushes
<1>4. CallsOK(q)
  BY <1>3 DEF PageOK, CallsOK, Who, Flushes
<1>5. Still(q) /\ FeedOK(q) /\ Unmoved(q)
  BY <1>3 DEF PageOK, Still, FeedOK, Unmoved, Who, Flushes
<1>6. PostsOK(q) /\ Busy(q)
  BY <1>3, SmallFacts DEF PageOK, PostsOK, PostOK, Busy, Flushing, Who, Flushes
<1>7. PageOK(q)
  BY <1>3, <1>4, <1>5, <1>6 DEF PageOK, Who
<1>8. QED
  BY <1>3, <1>7 DEF Flushes, q

\* A page whose prompt shows other conflicts.
LEMMA ParkedPage ==
  ASSUME NEW p, PageOK(p), NEW parked \in SUBSET Entries
  PROVE  LET q == [p EXCEPT !.parked = parked] IN
         /\ PageOK(q) /\ Who(q, p) /\ Typed(q, p) /\ q.calls = p.calls /\ q.feed = p.feed
         /\ q.todo = p.todo /\ q.flush = p.flush
<1> DEFINE q == [p EXCEPT !.parked = parked]
<1>1. p \in Pages
  BY DEF PageOK
<1>2. /\ q \in Pages /\ q.feed = p.feed /\ q.flush = p.flush /\ q.todo = p.todo
      /\ q.flushAs = p.flushAs /\ q.calls = p.calls /\ Who(q, p) /\ Typed(q, p)
  BY <1>1 DEF Pages, Who, Typed
<1> HIDE DEF q
<1>3. FeedOK(q) /\ (p.on # "on" => q.feed.state = "none")
  BY <1>2 DEF PageOK, FeedOK, Still, Who
<1>4. PageOK(q)
  BY <1>2, <1>3, SamePage
<1>5. QED
  BY <1>2, <1>4 DEF q

\* A page whose edit starts.
LEMMA EditPage ==
  ASSUME NEW p, PageOK(p), p.on = "on", p.send = "none", NEW as, Fair(as, p)
  PROVE  LET q == [p EXCEPT !.send = "post", !.by = p.user, !.sendAs = as] IN
         PageOK(q) /\ Who(q, p) /\ q.calls = p.calls /\ q.todo = p.todo
<1> DEFINE q == [p EXCEPT !.send = "post", !.by = p.user, !.sendAs = as]
<1>1. p \in Pages /\ as \in Posts
  BY DEF PageOK, Fair
<1>2. /\ q \in Pages /\ q.feed = p.feed /\ q.send = "post" /\ q.by = p.user /\ q.sendAs = as
      /\ q.calls = p.calls /\ Who(q, p) /\ Flushes(q, p)
  BY <1>1 DEF Pages, Who, Flushes
<1> HIDE DEF q
<1>3. CallsOK(q)
  BY <1>2 DEF PageOK, CallsOK, Who, Flushes
<1>4. Still(q) /\ FeedOK(q) /\ Unmoved(q)
  BY <1>2 DEF PageOK, Still, FeedOK, Unmoved, Who, Flushes
<1>5. PostsOK(q) /\ Busy(q)
  BY <1>2 DEF PageOK, PostsOK, PostOK, Fair, Busy, Flushing, Who, Flushes
<1>6. PageOK(q)
  BY <1>2, <1>3, <1>4, <1>5 DEF PageOK, Who
<1>7. QED
  BY <1>2, <1>6 DEF Flushes, q

\* A page that asks for a token because its write got a 401.
LEMMA UnauthorizedPage ==
  ASSUME NEW p, PageOK(p), NEW why \in {"send", "flush"},
         why = "send" => p.send \in {"post", "retry"},
         why = "flush" => p.flush \in {"post", "retry"}
  PROVE  LET m == IF why = "send" THEN [p EXCEPT !.send = "asking"] ELSE [p EXCEPT !.flush = "asking"]
             q == Asking(m, why, Nobody)
         IN  /\ PageOK(q) /\ q.on = p.on /\ q.user = p.user /\ q.token = p.token /\ q.db = p.db
             /\ q.todo = p.todo /\ \A c \in q.calls : c \in p.calls \/ c.state = "asked"
<1> DEFINE m == IF why = "send" THEN [p EXCEPT !.send = "asking"] ELSE [p EXCEPT !.flush = "asking"]
<1>1. p \in Pages /\ p.on = "on"
  BY DEF PageOK, Still
<1>2. /\ m \in Pages /\ m.feed = p.feed /\ Who(m, p) /\ m.calls = p.calls
      /\ m.by = p.by /\ m.sendAs = p.sendAs /\ m.todo = p.todo /\ m.flushAs = p.flushAs
      /\ m.send = (IF why = "send" THEN "asking" ELSE p.send)
      /\ m.flush = (IF why = "flush" THEN "asking" ELSE p.flush)
  <2>1. CASE why = "send"
    BY <1>1, <2>1 DEF Pages, Who
  <2>2. CASE why = "flush"
    <3>1. "asking" \in Flights
      BY DEF Flights
    <3>2. QED
      BY <1>1, <2>2, <3>1 DEF Pages, Who
  <2>3. QED
    BY <2>1, <2>2
<1> HIDE DEF m
<1> DEFINE q == Asking(m, why, Nobody)
<1>3. Nobody \in Identities /\ why \in {"login", "send", "flush", "timer"} /\ why # "login"
  BY SmallFacts
<1>4. \A c \in p.calls : c.why # why
  BY DEF PageOK, CallsOK
<1>5. (why = "send" => p.send # "none") /\ (why = "flush" => Flushing(p))
  BY DEF Flushing
<1>6. /\ PageOK(q) /\ q.on = p.on /\ q.user = p.user /\ q.token = p.token /\ q.db = p.db
      /\ q.todo = p.todo /\ \A c \in q.calls : c \in p.calls \/ c.state = "asked"
  BY <1>1, <1>2, <1>3, <1>4, <1>5, AskingPage
<1>7. QED
  BY <1>6 DEF m

\* A page that starts a flush with the entries there are.
LEMMA StartedPage ==
  ASSUME NEW p, PageOK(p), p.flush = "waiting", NEW todo \in SUBSET Entries
  PROVE  LET q == Started(p, todo) IN
         PageOK(q) /\ Who(q, p) /\ q.calls = p.calls /\ q.todo = todo
<1> DEFINE flush == IF todo = {} THEN "none" ELSE "loaded"
           q == [p EXCEPT !.todo = todo, !.flush = flush]
<1>1. p \in Pages /\ p.on = "on"
  BY DEF PageOK, Still
<1>2. flush \in {"none", "loaded"} /\ flush \in Flights /\ (flush = "loaded" <=> todo # {})
  BY DEF Flights
<1>3. q = Started(p, todo)
  BY DEF Started
<1> HIDE DEF flush
<1>4. /\ q \in Pages /\ q.feed = p.feed /\ q.flush = flush /\ q.todo = todo
      /\ q.flushAs = p.flushAs /\ q.calls = p.calls /\ Who(q, p) /\ Typed(q, p)
  BY <1>1, <1>2 DEF Pages, Who, Typed
<1> HIDE DEF q
<1>5. CallsOK(q)
  BY <1>2, <1>4 DEF PageOK, CallsOK, Who, Typed
<1>6. Still(q) /\ FeedOK(q) /\ Unmoved(q)
  BY <1>1, <1>4 DEF PageOK, Still, FeedOK, Unmoved, Who, Typed
<1>7. PostsOK(q) /\ Busy(q)
  BY <1>2, <1>4 DEF PageOK, PostsOK, Busy, Flushing, Who, Typed
<1>8. PageOK(q)
  BY <1>4, <1>5, <1>6, <1>7 DEF PageOK, Who
<1>9. QED
  BY <1>3, <1>4, <1>8

\* A page whose flush is cut short.
LEMMA CutPage ==
  ASSUME NEW p, PageOK(p), p.flush \in {"loaded", "post", "retry"}
  PROVE  LET q == [p EXCEPT !.flush = "none", !.todo = {}, !.flushAs = NoPost] IN
         PageOK(q) /\ Who(q, p) /\ q.calls = p.calls
<1> DEFINE q == [p EXCEPT !.flush = "none", !.todo = {}, !.flushAs = NoPost]
<1>1. p \in Pages
  BY DEF PageOK
<1>2. "none" \in Flights
  BY DEF Flights
<1>3. /\ q \in Pages /\ q.feed = p.feed /\ q.flush = "none" /\ q.todo = {} /\ q.flushAs = NoPost
      /\ q.calls = p.calls /\ Who(q, p) /\ Typed(q, p)
  BY <1>1, <1>2, SmallFacts DEF Pages, Who, Typed
<1> HIDE DEF q
<1>4. CallsOK(q)
  BY <1>3 DEF PageOK, CallsOK, Who, Typed
<1>5. Still(q) /\ FeedOK(q) /\ Unmoved(q)
  BY <1>3 DEF PageOK, Still, FeedOK, Unmoved, Who, Typed
<1>6. PostsOK(q) /\ Busy(q)
  BY <1>3, SmallFacts DEF PageOK, PostsOK, PostOK, Busy, Flushing, Who, Typed
<1>7. PageOK(q)
  BY <1>3, <1>4, <1>5, <1>6 DEF PageOK, Who
<1>8. QED
  BY <1>3, <1>7 DEF q

\* A page that is closed.
LEMMA ClosedPage ==
  LET q == Page("off", Nobody, None) IN
  PageOK(q) /\ q.on = "off" /\ q.calls = {} /\ q.todo = {}
<1> DEFINE q == Page("off", Nobody, None)
<1>1. None \in Tokens /\ Nobody \in Identities /\ "off" \in Stages
  BY SmallFacts DEF Stages
<1>2. /\ q \in Pages /\ q.on = "off" /\ q.token = None /\ q.calls = {}
      /\ q.feed.state = "none" /\ q.send = "none" /\ q.flush = "none" /\ q.todo = {}
      /\ q.sendAs = NoPost /\ q.flushAs = NoPost /\ (q.status = "authenticated" => q.user # Nobody)
  BY <1>1, FreshPage
<1> HIDE DEF q
<1>3. CallsOK(q) /\ Still(q) /\ FeedOK(q) /\ Unmoved(q)
  BY <1>2 DEF CallsOK, Still, FeedOK, Unmoved
<1>4. PostsOK(q) /\ Busy(q)
  BY <1>2, SmallFacts DEF PostsOK, PostOK, Busy, Flushing
<1>5. QED
  BY <1>2, <1>3, <1>4 DEF PageOK, q

-----------------------------------------------------------------------------
(* What a step that changes one page has to show for each part of the      *)
(* invariant.                                                              *)

LEMMA PageAfter ==
  ASSUME Types, NEW t \in Tabs, NEW q, Put(t, q)
  PROVE  DOMAIN tab' = Tabs /\ tab'[t] = q /\ \A s \in Tabs \ {t} : tab'[s] = tab[s]
BY DEF Put, Types

LEMMA TypesStep ==
  ASSUME Types, NEW t \in Tabs, NEW q, Put(t, q), PageOK(q),
         key' \in Nat \ {0}, linked' \in Identities, untold' \subseteq Tabs,
         left' \subseteq Identities, queue' \in [Identities -> SUBSET Entries],
         stale' \in [Identities -> SUBSET Entries], budget' \in [Bounded -> Nat]
  PROVE  Types'
<1>1. DOMAIN tab' = Tabs /\ tab'[t] = q /\ \A s \in Tabs \ {t} : tab'[s] = tab[s]
  BY PageAfter
<1>2. ASSUME NEW s \in Tabs PROVE PageOK(tab'[s])
  <2>1. CASE s = t
    BY <1>1, <2>1
  <2>2. CASE s # t
    <3>1. tab'[s] = tab[s] /\ PageOK(tab[s])
      BY <1>1, <2>2 DEF Types
    <3>2. QED
      BY <3>1
  <2>3. QED
    BY <2>1, <2>2
<1>3. QED
  BY <1>1, <1>2 DEF Types

\* What may be sent after a step could be sent before it, and whoever had it
\* in hand still has.
Fewer(p, q) ==
  \A u \in Identities \ left' : \A e \in queue'[u] \ stale'[u] :
    /\ e \in queue[u] \ stale[u]
    /\ u = p.db /\ e \in p.todo => q.db = p.db /\ e \in q.todo

LEMMA DrainedStep ==
  ASSUME Types, Drained, NEW t \in Tabs, NEW q, Put(t, q), left \subseteq left', Fewer(tab[t], q)
  PROVE  Drained'
<1>1. tab'[t] = q /\ \A s \in Tabs \ {t} : tab'[s] = tab[s]
  BY PageAfter
<1>2. ASSUME NEW u \in Identities \ left', NEW e \in queue'[u] \ stale'[u]
      PROVE  \E s \in Tabs : tab'[s].db = u /\ e \in tab'[s].todo
  <2>1. /\ e \in queue[u] \ stale[u] /\ u \notin left
        /\ u = tab[t].db /\ e \in tab[t].todo => q.db = tab[t].db /\ e \in q.todo
    BY <1>2 DEF Fewer
  <2>2. PICK s \in Tabs : tab[s].db = u /\ e \in tab[s].todo
    BY <2>1 DEF Drained
  <2>3. CASE s = t
    <3>1. tab'[t].db = u /\ e \in tab'[t].todo
      BY <1>1, <2>1, <2>2, <2>3
    <3>2. QED
      BY <3>1
  <2>4. CASE s # t
    <3>1. tab'[s] = tab[s]
      BY <1>1, <2>4
    <3>2. QED
      BY <2>2, <3>1
  <2>5. QED
    BY <2>3, <2>4
<1>3. QED
  BY <1>2 DEF Drained

\* The other pages still agree with who is linked, or are not told.
LEMMA LinkedStep ==
  ASSUME Types, Linked, NEW t \in Tabs, NEW q, Put(t, q), linked' = linked,
         untold \ {t} \subseteq untold', t \notin untold' => ToldOf(q, linked)
  PROVE  Linked'
<1>1. tab'[t] = q /\ \A s \in Tabs \ {t} : tab'[s] = tab[s]
  BY PageAfter
<1>2. ASSUME NEW s \in Tabs \ untold' PROVE ToldOf(tab'[s], linked')
  <2>1. CASE s = t
    BY <1>1, <1>2, <2>1
  <2>2. CASE s # t
    <3>1. tab'[s] = tab[s] /\ linked' = linked /\ ToldOf(tab[s], linked)
      BY <1>1, <1>2, <2>2 DEF Linked
    <3>2. QED
      BY <3>1
  <2>3. QED
    BY <2>1, <2>2
<1>3. QED
  BY <1>2 DEF Linked

\* A page with more calls, not yet answered, or fewer, and the same user and
\* token, or none, still agrees.
Like(q, p) ==
  /\ q.on = p.on /\ q.user = p.user /\ q.token \in {p.token, None} /\ q.db = p.db
  /\ \A c \in q.calls : c \in p.calls \/ c.state = "asked"

LEMMA ToldMore ==
  ASSUME NEW p, NEW q, NEW who, ToldOf(p, who), Like(q, p)
  PROVE  ToldOf(q, who)
BY SmallFacts DEF ToldOf, Agrees, Remints, Like

LEMMA LikeWho ==
  ASSUME NEW p, NEW q, Who(q, p), q.calls = p.calls
  PROVE  Like(q, p)
BY DEF Like, Who

LEMMA Spending ==
  ASSUME Types, NEW what \in Bounded, Spend(what)
  PROVE  budget' \in [Bounded -> Nat] /\ budget[what] \in Nat
BY DEF Types, Spend

LEMMA PageOfTab ==
  ASSUME Types, NEW t \in Tabs
  PROVE  PageOK(tab[t]) /\ tab[t] \in Pages /\ tab[t].db \in Identities /\ tab[t].user \in Identities
BY DEF Types, PageOK, Pages

\* A page that posts, posts as whom it shows, unless it was not told.
LEMMA FairTab ==
  ASSUME IInv, NEW t \in Tabs, tab[t].on = "on"
  PROVE  /\ t \notin untold => tab[t].token.user \in {tab[t].user, Nobody}
         /\ Fair(Posted(t, tab[t]), tab[t])
<1>1. PageOK(tab[t])
  BY PageOfTab DEF IInv
<1>2. t \notin untold => tab[t].token.user \in {tab[t].user, Nobody}
  BY DEF IInv, Linked, ToldOf, Agrees
<1>3. QED
  BY <1>1, <1>2, PostedFair DEF PageOK

-----------------------------------------------------------------------------
(* Every action keeps the invariant.                                       *)

\* A step of a page that stays who it is.
LEMMA PageStep ==
  ASSUME IInv, NEW t \in Tabs, NEW q, Put(t, q), PageOK(q), Like(q, tab[t]),
         UNCHANGED <<key, linked, untold>>, budget' \in [Bounded -> Nat],
         queue' \in [Identities -> SUBSET Entries], stale' \in [Identities -> SUBSET Entries],
         left' \subseteq Identities, left \subseteq left', Fewer(tab[t], q)
  PROVE  IInv'
<1>1. Types /\ Drained /\ Linked
  BY DEF IInv
<1>2. Types'
  BY <1>1, TypesStep DEF Types
<1>3. Drained'
  BY <1>1, DrainedStep
<1>4. Linked'
  <2>1. ASSUME t \notin untold PROVE ToldOf(q, linked)
    BY <1>1, <2>1, ToldMore DEF Linked
  <2>2. QED
    BY <1>1, <2>1, LinkedStep
<1>5. QED
  BY <1>2, <1>3, <1>4 DEF IInv

\* One that leaves the queue and the flush alone.
LEMMA QuietStep ==
  ASSUME IInv, NEW t \in Tabs, NEW q, Put(t, q), PageOK(q), Like(q, tab[t]), q.todo = tab[t].todo,
         UNCHANGED <<key, linked, queue, stale, left, untold>>, budget' \in [Bounded -> Nat]
  PROVE  IInv'
<1>1. Fewer(tab[t], q)
  BY DEF Fewer, Like
<1>2. left' \subseteq Identities /\ left \subseteq left'
      /\ queue' \in [Identities -> SUBSET Entries] /\ stale' \in [Identities -> SUBSET Entries]
  BY DEF IInv, Types
<1>3. QED
  BY <1>1, <1>2, PageStep

\* One that leaves the budget alone, too.
LEMMA FreeStep ==
  ASSUME IInv, NEW t \in Tabs, NEW q, Put(t, q), PageOK(q), Like(q, tab[t]), q.todo = tab[t].todo,
         UNCHANGED <<key, linked, queue, stale, left, untold, budget>>
  PROVE  IInv'
<1>1. budget' \in [Bounded -> Nat]
  BY DEF IInv, Types
<1>2. QED
  BY <1>1, QuietStep

LEMMA BootStep == ASSUME IInv, NEW t \in Tabs, Boot(t) PROVE IInv'
<1> DEFINE q == Asking(Page("booting", Nobody, None), "boot", Nobody)
<1>1. Types /\ Drained /\ Linked
  BY DEF IInv
<1>2. PageOK(tab[t]) /\ tab[t].todo = {}
  BY <1>1, PageOfTab DEF Boot, PageOK, Still, Busy, Flushing
<1>3. PageOK(q) /\ q.on = "booting" /\ q.todo = {} /\ \A c \in q.calls : c.state = "asked"
  BY BootPage
<1>4. Put(t, q) /\ UNCHANGED <<key, linked, queue, stale, left, untold>> /\ Spend("boots")
  BY DEF Boot
<1> HIDE DEF q
<1>5. Types'
  <2>1. budget' \in [Bounded -> Nat]
    BY <1>1, <1>4, Spending DEF Bounded
  <2>2. QED
    BY <1>1, <1>3, <1>4, <2>1, TypesStep DEF Types
<1>6. Drained'
  <2>1. Fewer(tab[t], q)
    BY <1>2, <1>4 DEF Fewer
  <2>2. QED
    BY <1>1, <1>4, <2>1, DrainedStep
<1>7. Linked'
  <2>1. ToldOf(q, linked)
    BY <1>3 DEF ToldOf
  <2>2. QED
    BY <1>1, <1>4, <2>1, LinkedStep
<1>8. QED
  BY <1>5, <1>6, <1>7 DEF IInv

LEMMA LoginStep == ASSUME IInv, NEW t \in Tabs, NEW u \in Users, Login(t, u) PROVE IInv'
<1> DEFINE p == tab[t]
           q == Asking(p, "login", u)
<1>1. Types
  BY DEF IInv
<1>2. PageOK(p) /\ p \in Pages /\ p.on = "on" /\ \A c \in p.calls : c.why # "login"
  BY <1>1, PageOfTab DEF Login, On, Awaits
<1>3. Put(t, q) /\ UNCHANGED <<key, linked, queue, stale, left, untold>> /\ Spend("logins")
  BY DEF Login
<1> HIDE DEF p
<1>4. u \in Identities
  BY SmallFacts
<1>5. /\ PageOK(q) /\ q.on = p.on /\ q.user = p.user /\ q.token = p.token /\ q.db = p.db
      /\ q.todo = p.todo /\ \A c \in q.calls : c \in p.calls \/ c.state = "asked"
  BY <1>2, <1>4, AskingPage DEF Who
<1> HIDE DEF q
<1>6. Like(q, p)
  BY <1>5 DEF Like
<1>7. budget' \in [Bounded -> Nat]
  BY <1>1, <1>3, Spending DEF Bounded
<1>8. QED
  BY <1>3, <1>5, <1>6, <1>7, QuietStep DEF p

LEMMA ServeStep ==
  ASSUME IInv, NEW t \in Tabs, NEW c \in tab[t].calls, Serve(t, c) PROVE IInv'
<1> DEFINE p == tab[t]
<1>1. Types /\ Drained /\ Linked
  BY DEF IInv
<1>2. PageOK(p) /\ p \in Pages
  BY <1>1, PageOfTab
<1>3. /\ key' = key /\ queue' = queue /\ stale' = stale /\ left' = left /\ budget' = budget
      /\ c.state = "asked" /\ untold' = IF linked' = linked THEN untold ELSE Tabs
  BY DEF Serve, Free
<1>4. c \in p.calls /\ c.user \in Identities
  BY <1>2, CallOfPage
<1>5. PICK for \in (IF c.why = "login" THEN {c.user, Nobody} ELSE {linked}) :
        /\ linked' = IF c.why = "login" /\ for # Nobody THEN for ELSE linked
        /\ Put(t, Answered(p, c, for))
  BY DEF Serve
<1> DEFINE q == Answered(p, c, for)
<1>6. Put(t, q)
  BY <1>5
<1>7. /\ for \in Identities /\ key \in Nat \ {0} /\ linked' \in Identities
      /\ c.why = "login" => for \in {c.user, Nobody}
      /\ c.why # "login" => for = linked /\ linked' = linked
  BY <1>1, <1>4, <1>5, SmallFacts DEF Types
<1> HIDE DEF p
<1>8. /\ PageOK(q)
      /\ \A d \in q.calls : d \in p.calls \/ /\ d.why = c.why
                                             /\ d.state = "granted" => d.token.user = for
                                             /\ d.state = "refused" => for = Nobody
      /\ q.on = p.on /\ q.user = p.user /\ q.token = p.token /\ q.db = p.db /\ q.todo = p.todo
  BY <1>2, <1>3, <1>4, <1>7, AnsweredPage
<1> HIDE DEF q
<1>9. Types'
  <2>1. untold' \subseteq Tabs
    BY <1>1, <1>3 DEF Types
  <2>2. QED
    BY <1>1, <1>3, <1>6, <1>7, <1>8, <2>1, TypesStep DEF Types
<1>10. Drained'
  <2>1. Fewer(p, q)
    BY <1>3, <1>8 DEF Fewer
  <2>2. QED
    BY <1>1, <1>3, <1>6, <2>1, DrainedStep DEF p
<1>11. Linked'
  <2>1. CASE linked' # linked
    BY <1>3, <2>1 DEF Linked
  <2>2. CASE linked' = linked
    <3>1. ASSUME t \notin untold PROVE ToldOf(q, linked)
      <4>1. ToldOf(p, linked)
        BY <1>1, <3>1 DEF Linked, p
      <4>2. ASSUME q.on = "on" PROVE Agrees(q, linked)
        BY <1>7, <1>8, <4>1, <4>2 DEF ToldOf, Agrees, Remints
      <4>3. \A d \in q.calls : d.why = "boot" /\ d.state = "refused" => linked = Nobody
        BY <1>7, <1>8, <4>1 DEF ToldOf
      <4>4. QED
        BY <4>2, <4>3 DEF ToldOf
    <3>2. QED
      BY <1>1, <1>3, <1>6, <2>2, <3>1, LinkedStep
  <2>3. QED
    BY <2>1, <2>2
<1>12. QED
  BY <1>9, <1>10, <1>11 DEF IInv

\* A boot's answer arrives, or gets lost.
LEMMA BootedStep ==
  ASSUME IInv, NEW t \in Tabs, NEW c \in tab[t].calls, c.why = "boot",
         NEW token \in Tokens, token = None \/ Real(token),
         Put(t, Reconnected(Page("on", token.user, token))),
         UNCHANGED <<key, linked, queue, stale, left>>, budget' \in [Bounded -> Nat],
         untold' \in {untold, untold \union {t}, untold \ {t}},
         t \notin untold' => token.user = linked
  PROVE  IInv'
<1> DEFINE p == tab[t]
           q == Reconnected(Page("on", token.user, token))
<1>1. Types /\ Drained /\ Linked
  BY DEF IInv
<1>2. PageOK(p)
  BY <1>1, PageOfTab
<1>3. p.todo = {}
  BY <1>2 DEF PageOK, CallsOK, Still, Busy, Flushing
<1>4. Put(t, q)
  OBVIOUS
<1>5. /\ PageOK(q) /\ q.on = "on" /\ q.user = token.user /\ q.token = token /\ q.calls = {}
  BY BootedPage
<1> HIDE DEF q
<1>6. Types'
  <2>1. untold' \subseteq Tabs
    BY <1>1 DEF Types
  <2>2. QED
    BY <1>1, <1>4, <1>5, <2>1, TypesStep DEF Types
<1>7. Drained'
  <2>1. Fewer(p, q)
    BY <1>3 DEF Fewer
  <2>2. QED
    BY <1>1, <1>4, <2>1, DrainedStep
<1>8. Linked'
  <2>1. untold \ {t} \subseteq untold' /\ linked' = linked
    OBVIOUS
  <2>2. ASSUME t \notin untold' PROVE ToldOf(q, linked)
    BY <1>5, <2>1, <2>2 DEF ToldOf, Agrees
  <2>3. QED
    BY <1>1, <1>4, <2>1, <2>2, LinkedStep
<1>9. QED
  BY <1>6, <1>7, <1>8 DEF IInv

LEMMA BootDoneStep ==
  ASSUME IInv, NEW t \in Tabs, NEW c \in tab[t].calls, c.state # "asked", BootDone(t, c)
  PROVE  IInv'
<1>1. Types /\ PageOK(tab[t]) /\ Linked
  BY PageOfTab DEF IInv
<1>2. /\ c \in Calling /\ CallOK(c) /\ c.token \in Tokens /\ (c.token = None \/ Real(c.token))
  BY <1>1, CallOfPage
<1>3. /\ c.why = "boot" /\ Put(t, Reconnected(Page("on", c.token.user, c.token)))
      /\ UNCHANGED <<key, linked, queue, stale, left>> /\ budget' = budget
      /\ IF c.state = "granted" THEN Told(t, c) ELSE untold' = untold
  BY DEF BootDone, Free
<1>4. budget' \in [Bounded -> Nat]
  BY <1>1, <1>3 DEF Types
<1>5. untold' \in {untold, untold \union {t}, untold \ {t}}
  BY <1>3 DEF Told
<1>6. ASSUME t \notin untold' PROVE c.token.user = linked
  <2>1. CASE c.state = "granted"
    BY <1>3, <1>6, <2>1 DEF Told
  <2>2. CASE c.state = "refused"
    BY <1>1, <1>2, <1>3, <1>6, <2>2, SmallFacts DEF Linked, ToldOf, CallOK
  <2>3. QED
    BY <1>2, <2>1, <2>2 DEF Calling
<1>7. QED
  BY <1>2, <1>3, <1>4, <1>5, <1>6, BootedStep

LEMMA LoginDoneStep ==
  ASSUME IInv, NEW t \in Tabs, NEW c \in tab[t].calls, LoginDone(t, c)
  PROVE  IInv'
<1> DEFINE p == tab[t]
           m == [Done(p, c) EXCEPT !.user = c.user, !.token = c.token, !.status = "authenticated",
                                   !.moved = @ \/ c.user # p.user]
           q == Reconnected(m)
<1>1. Types /\ Drained /\ Linked
  BY DEF IInv
<1>2. PageOK(p)
  BY <1>1, PageOfTab
<1>3. /\ c.why = "login" /\ c.state = "granted" /\ Put(t, q) /\ Told(t, c)
      /\ UNCHANGED <<key, linked, queue, stale, left>> /\ budget' = budget
  BY DEF LoginDone, Free
<1>4. c \in p.calls
  OBVIOUS
<1> HIDE DEF p
<1>5. /\ PageOK(q) /\ q.on = p.on /\ q.user = c.user /\ q.token = c.token
      /\ q.calls = p.calls \ {c} /\ q.db = p.db /\ q.todo = p.todo
      /\ c.token.user = c.user
  BY <1>2, <1>3, <1>4, LoggedPage
<1> HIDE DEF m, q
<1>6. untold' \in {untold \union {t}, untold \ {t}}
  BY <1>3 DEF Told
<1>7. Types'
  <2>1. untold' \subseteq Tabs
    BY <1>1, <1>6 DEF Types
  <2>2. QED
    BY <1>1, <1>3, <1>5, <2>1, TypesStep DEF Types
<1>8. Drained'
  <2>1. Fewer(p, q)
    BY <1>3, <1>5 DEF Fewer
  <2>2. QED
    BY <1>1, <1>3, <2>1, DrainedStep DEF p
<1>9. Linked'
  <2>1. ASSUME t \notin untold' PROVE ToldOf(q, linked)
    <3>1. c.token.user = linked /\ \A d \in p.calls \ {c} : d.state = "asked"
      BY <1>3, <2>1 DEF Told, p
    <3>2. QED
      BY <1>5, <3>1 DEF ToldOf, Agrees
  <2>2. QED
    BY <1>1, <1>3, <1>6, <2>1, LinkedStep
<1>10. QED
  BY <1>7, <1>8, <1>9 DEF IInv

LEMMA LoginFailsStep ==
  ASSUME IInv, NEW t \in Tabs, NEW c \in tab[t].calls, LoginFails(t, c), budget' \in [Bounded -> Nat]
  PROVE  IInv'
<1> DEFINE p == tab[t]
           q == [Done(p, c) EXCEPT !.status = "anonymous"]
<1>1. PageOK(p)
  BY PageOfTab DEF IInv
<1>2. c.why = "login" /\ Put(t, q) /\ UNCHANGED <<key, linked, queue, stale, left, untold>>
  BY DEF LoginFails
<1>3. c \in p.calls
  OBVIOUS
<1> HIDE DEF p
<1>4. /\ PageOK(q) /\ q.on = p.on /\ q.user = p.user /\ q.token = p.token /\ q.db = p.db
      /\ q.todo = p.todo /\ q.calls = p.calls \ {c}
  BY <1>1, <1>2, <1>3, LoginLostPage
<1> HIDE DEF q
<1>5. Like(q, p)
  BY <1>4 DEF Like
<1>6. QED
  BY <1>2, <1>4, <1>5, QuietStep DEF p

LEMMA RemintDoneStep ==
  ASSUME IInv, NEW t \in Tabs, NEW c \in tab[t].calls, RemintDone(t, c)
  PROVE  IInv'
<1> DEFINE p == tab[t]
           q == Resumed(t, Reconnected([Done(p, c) EXCEPT !.token = c.token]), c.why)
<1>1. Types /\ Drained /\ Linked
  BY DEF IInv
<1>2. PageOK(p)
  BY <1>1, PageOfTab
<1>3. /\ c.why \in Remints /\ c.state = "granted" /\ Put(t, q)
      /\ UNCHANGED <<key, linked, queue, stale, left, untold>> /\ budget' = budget
  BY DEF RemintDone, Free
<1>4. c \in p.calls /\ p.on = "on"
  BY <1>2, <1>3, CallOfPage DEF Remints
<1>5. t \notin untold => ToldOf(p, linked) /\ p.user = linked /\ c.token.user = p.user
  BY <1>1, <1>3, <1>4 DEF Linked, ToldOf, Agrees
<1> HIDE DEF p
<1>6. /\ PageOK(q) /\ q.on = p.on /\ q.user = p.user /\ q.token = c.token /\ q.db = p.db
      /\ q.calls = p.calls \ {c} /\ q.todo = p.todo
  BY <1>2, <1>3, <1>4, <1>5, RemintedPage
<1> HIDE DEF q
<1>7. Types'
  BY <1>1, <1>3, <1>6, TypesStep DEF Types
<1>8. Drained'
  <2>1. Fewer(p, q)
    BY <1>3, <1>6 DEF Fewer
  <2>2. QED
    BY <1>1, <1>3, <2>1, DrainedStep DEF p
<1>9. Linked'
  <2>1. ASSUME t \notin untold PROVE ToldOf(q, linked)
    BY <1>5, <1>6, <2>1 DEF ToldOf, Agrees
  <2>2. QED
    BY <1>1, <1>3, <2>1, LinkedStep
<1>10. QED
  BY <1>7, <1>8, <1>9 DEF IInv

LEMMA RemintFailsStep ==
  ASSUME IInv, NEW t \in Tabs, NEW c \in tab[t].calls, NEW m,
         m = Done(tab[t], c) \/ m = [Done(tab[t], c) EXCEPT !.token = None],
         RemintFails(t, c, m), budget' \in [Bounded -> Nat]
  PROVE  IInv'
<1> DEFINE p == tab[t]
           q == Failed(t, m, c.why)
           e == NextEntry(m)
<1>1. Types
  BY DEF IInv
<1>2. PageOK(p) /\ p.db \in Identities
  BY <1>1, PageOfTab
<1>3. /\ c.why \in Remints /\ Put(t, q) /\ UNCHANGED <<key, linked, stale, left, untold>>
      /\ queue' = Buried(m, c.why)
  BY DEF RemintFails, Failed
<1>4. c \in p.calls /\ (m = Done(p, c) \/ m = [Done(p, c) EXCEPT !.token = None])
  OBVIOUS
<1>5. t \notin untold => p.token.user \in {p.user, Nobody}
  <2>1. p.on = "on"
    BY <1>2, <1>3, CallOfPage DEF Remints
  <2>2. QED
    BY <2>1, FairTab
<1> HIDE DEF p
<1>6. /\ PageOK(q) /\ q.on = p.on /\ q.user = p.user /\ q.db = p.db /\ q.calls = p.calls \ {c}
      /\ q.token \in {p.token, None}
      /\ c.why = "flush" => q.todo = p.todo \ {e}
      /\ c.why # "flush" => q.todo = p.todo
      /\ m.db = p.db
  BY <1>2, <1>3, <1>4, <1>5, FailedPage
<1> HIDE DEF q, e
<1>7. queue' = IF c.why = "flush" THEN [queue EXCEPT ![p.db] = @ \ {e}] ELSE queue
  BY <1>3, <1>6 DEF Buried, e
<1>8. queue' \in [Identities -> SUBSET Entries]
  BY <1>1, <1>2, <1>7 DEF Types
<1>9. Fewer(p, q)
  BY <1>1, <1>2, <1>3, <1>6, <1>7 DEF Fewer, Types
<1>10. Like(q, p)
  BY <1>6 DEF Like
<1>11. left' \subseteq Identities /\ left \subseteq left' /\ stale' \in [Identities -> SUBSET Entries]
  BY <1>1, <1>3 DEF Types
<1>12. QED
  BY <1>3, <1>6, <1>8, <1>9, <1>10, <1>11, PageStep DEF p

LEMMA CallLostStep ==
  ASSUME IInv, NEW t \in Tabs, NEW c \in tab[t].calls, CallLost(t, c)
  PROVE  IInv'
<1>1. Types
  BY DEF IInv
<1>2. budget' \in [Bounded -> Nat]
  <2>1. Spend("faults")
    BY DEF CallLost
  <2>2. QED
    BY <1>1, <2>1, Spending DEF Bounded
<1>3. CASE RemintFails(t, c, Done(tab[t], c))
  BY <1>2, <1>3, RemintFailsStep
<1>4. CASE LoginFails(t, c)
  BY <1>2, <1>4, LoginFailsStep
<1>5. CASE /\ c.why = "boot" /\ Put(t, Reconnected(Page("on", Nobody, None)))
           /\ untold' = untold \union {t} /\ UNCHANGED <<key, linked, queue, stale, left>>
  <2>1. None \in Tokens /\ None.user = Nobody
    BY SmallFacts
  <2>2. Put(t, Reconnected(Page("on", None.user, None)))
    BY <1>5, <2>1
  <2>3. t \in untold' /\ untold' \in {untold, untold \union {t}, untold \ {t}}
    BY <1>5
  <2>4. QED
    BY <1>2, <1>5, <2>1, <2>2, <2>3, BootedStep
<1>6. QED
  BY <1>3, <1>4, <1>5 DEF CallLost

LEMMA FeedConnectsStep == ASSUME IInv, NEW t \in Tabs, FeedConnects(t) PROVE IInv'
<1> DEFINE p == tab[t]
<1>1. PageOK(p)
  BY PageOfTab DEF IInv
<1>2. /\ p.feed.state = "connecting"
      /\ UNCHANGED <<key, linked, queue, stale, left, untold, budget>>
  BY DEF FeedConnects, Free
<1>3. CASE Put(t, [p EXCEPT !.feed.state = "closed"])
  <2> DEFINE q == [p EXCEPT !.feed.state = "closed"]
  <2>1. PageOK(q) /\ Who(q, p) /\ q.calls = p.calls /\ q.todo = p.todo
    BY <1>1, <1>2, DeafPage
  <2>2. Put(t, q)
    BY <1>3
  <2> HIDE DEF q
  <2>3. Like(q, p)
    BY <2>1, LikeWho
  <2>4. QED
    BY <1>2, <2>1, <2>2, <2>3, FreeStep
<1>4. CASE Put(t, Resyncing([p EXCEPT !.feed = [@ EXCEPT !.state = "open", !.user = p.feed.token.user]]))
  <2> DEFINE q == Resyncing([p EXCEPT !.feed = [@ EXCEPT !.state = "open", !.user = p.feed.token.user]])
  <2>1. PageOK(q) /\ Who(q, p) /\ q.calls = p.calls /\ q.todo = p.todo
    BY <1>1, <1>2, OpenPage
  <2>2. Put(t, q)
    BY <1>4
  <2> HIDE DEF q
  <2>3. Like(q, p)
    BY <2>1, LikeWho
  <2>4. QED
    BY <1>2, <2>1, <2>2, <2>3, FreeStep
<1>5. QED
  BY <1>3, <1>4 DEF FeedConnects

LEMMA TimerStep == ASSUME IInv, NEW t \in Tabs, Timer(t) PROVE IInv'
<1> DEFINE p == tab[t]
           q == Asking([p EXCEPT !.feed.state = "timed"], "timer", Nobody)
<1>1. PageOK(p)
  BY PageOfTab DEF IInv
<1>2. p.feed.state = "closed" /\ (\A c \in p.calls : c.why # "timer") /\ Put(t, q)
      /\ UNCHANGED <<key, linked, queue, stale, left, untold, budget>>
  BY DEF Timer, Awaits, Free
<1>3. /\ PageOK(q) /\ q.on = p.on /\ q.user = p.user /\ q.token = p.token /\ q.db = p.db
      /\ q.todo = p.todo /\ \A c \in q.calls : c \in p.calls \/ c.state = "asked"
  BY <1>1, <1>2, TimedPage
<1> HIDE DEF q
<1>4. Like(q, p)
  BY <1>3 DEF Like
<1>5. QED
  BY <1>2, <1>3, <1>4, FreeStep

LEMMA FeedDropsStep == ASSUME IInv, NEW t \in Tabs, FeedDrops(t) PROVE IInv'
<1> DEFINE p == tab[t]
           s == IF p.feed.state = "open" THEN "connecting" ELSE "closed"
           q == [p EXCEPT !.feed.state = s]
<1>1. Types /\ PageOK(p) /\ p \in Pages
  BY PageOfTab DEF IInv
<1>2. /\ p.feed.state \in {"open", "connecting"} /\ UNCHANGED <<key, linked, queue, stale, left, untold>>
      /\ Put(t, [p EXCEPT !.feed.state = IF @ = "open" THEN "connecting" ELSE "closed"])
      /\ Spend("faults")
  BY DEF FeedDrops
<1>3. Put(t, q)
  BY <1>1, <1>2 DEF Pages, Feeds
<1>4. /\ s \in {"connecting", "closed"}
      /\ p.feed.state = "open" \/ (p.feed.state = "connecting" /\ s = "closed")
  BY <1>2
<1> HIDE DEF s
<1>5. PageOK(q) /\ Who(q, p) /\ q.calls = p.calls /\ q.todo = p.todo
  BY <1>1, <1>4, DeafPage
<1> HIDE DEF q
<1>6. Like(q, p)
  BY <1>5, LikeWho
<1>7. budget' \in [Bounded -> Nat]
  BY <1>1, <1>2, Spending DEF Bounded
<1>8. QED
  BY <1>2, <1>3, <1>5, <1>6, <1>7, QuietStep

LEMMA RestartStep == ASSUME IInv, Restart PROVE IInv'
<1>1. Types /\ Drained /\ Linked
  BY DEF IInv
<1>2. /\ key' = key + 1 /\ UNCHANGED <<linked, queue, stale, left, untold>> /\ Spend("restarts")
      /\ tab' = [t \in Tabs |-> IF tab[t].feed.state = "open"
                                THEN [tab[t] EXCEPT !.feed.state = "connecting"] ELSE tab[t]]
  BY DEF Restart
<1>3. ASSUME NEW t \in Tabs
      PROVE  PageOK(tab'[t]) /\ Who(tab'[t], tab[t]) /\ tab'[t].calls = tab[t].calls
             /\ tab'[t].todo = tab[t].todo
  <2>1. PageOK(tab[t])
    BY <1>1, PageOfTab
  <2>2. CASE tab[t].feed.state = "open"
    <3> DEFINE q == [tab[t] EXCEPT !.feed.state = "connecting"]
    <3>1. tab'[t] = q
      BY <1>2, <2>2
    <3>2. PageOK(q) /\ Who(q, tab[t]) /\ q.calls = tab[t].calls /\ q.todo = tab[t].todo
      BY <2>1, <2>2, DeafPage
    <3>3. QED
      BY <3>1, <3>2
  <2>3. CASE tab[t].feed.state # "open"
    <3>1. tab'[t] = tab[t]
      BY <1>2, <2>3
    <3>2. QED
      BY <2>1, <3>1 DEF Who
  <2>4. QED
    BY <2>2, <2>3
<1>4. budget' \in [Bounded -> Nat]
  BY <1>1, <1>2, Spending DEF Bounded
<1>5. Types'
  <2>1. key' \in Nat \ {0}
    BY <1>1, <1>2 DEF Types
  <2>2. DOMAIN tab' = Tabs /\ \A t \in Tabs : PageOK(tab'[t])
    BY <1>2, <1>3
  <2>3. QED
    BY <1>1, <1>2, <1>4, <2>1, <2>2 DEF Types
<1>6. Drained'
  <2>1. \A t \in Tabs : tab'[t].db = tab[t].db /\ tab'[t].todo = tab[t].todo
    BY <1>3 DEF Who
  <2>2. QED
    BY <1>1, <1>2, <2>1 DEF Drained
<1>7. Linked'
  BY <1>1, <1>2, <1>3 DEF Linked, ToldOf, Agrees, Who
<1>8. QED
  BY <1>5, <1>6, <1>7 DEF IInv

LEMMA EditStep == ASSUME IInv, NEW t \in Tabs, Edit(t) PROVE IInv'
<1> DEFINE p == tab[t]
           as == Posted(t, p)
           q == [p EXCEPT !.send = "post", !.by = p.user, !.sendAs = as]
<1>1. Types /\ PageOK(p)
  BY PageOfTab DEF IInv
<1>2. /\ p.on = "on" /\ p.send = "none" /\ Put(t, q) /\ Spend("edits")
      /\ UNCHANGED <<key, linked, queue, stale, left, untold>>
  BY DEF Edit, On
<1>3. Fair(as, p)
  BY <1>2, FairTab
<1> HIDE DEF as
<1>4. PageOK(q) /\ Who(q, p) /\ q.calls = p.calls /\ q.todo = p.todo
  BY <1>1, <1>2, <1>3, EditPage
<1> HIDE DEF q
<1>5. Like(q, p)
  BY <1>4, LikeWho
<1>6. budget' \in [Bounded -> Nat]
  BY <1>1, <1>2, Spending DEF Bounded
<1>7. QED
  BY <1>2, <1>4, <1>5, <1>6, QuietStep

LEMMA SendServedStep == ASSUME IInv, NEW t \in Tabs, SendServed(t) PROVE IInv'
<1> DEFINE p == tab[t]
<1>1. PageOK(p)
  BY PageOfTab DEF IInv
<1>2. p.send \in {"post", "retry"} /\ UNCHANGED <<key, linked, queue, stale, left, untold, budget>>
  BY DEF SendServed, Free
<1>3. CASE Put(t, Sent(p))
  <2> DEFINE q == Sent(p)
  <2>1. PageOK(q) /\ Who(q, p) /\ q.calls = p.calls /\ q.todo = p.todo
    BY <1>1, <1>2, SentPage
  <2>2. Put(t, q)
    BY <1>3
  <2> HIDE DEF q
  <2>3. Like(q, p)
    BY <2>1, LikeWho
  <2>4. QED
    BY <1>2, <2>1, <2>2, <2>3, FreeStep
<1>4. CASE Put(t, Asking([p EXCEPT !.send = "asking"], "send", Nobody))
  <2> DEFINE q == Asking([p EXCEPT !.send = "asking"], "send", Nobody)
  <2>1. /\ PageOK(q) /\ q.on = p.on /\ q.user = p.user /\ q.token = p.token /\ q.db = p.db
        /\ q.todo = p.todo /\ \A c \in q.calls : c \in p.calls \/ c.state = "asked"
    BY <1>1, <1>2, UnauthorizedPage
  <2>2. Put(t, q)
    BY <1>4
  <2> HIDE DEF q
  <2>3. Like(q, p)
    BY <2>1 DEF Like
  <2>4. QED
    BY <1>2, <2>1, <2>2, <2>3, FreeStep
<1>5. QED
  BY <1>3, <1>4 DEF SendServed, Denied

\* An edit becomes an entry.
LEMMA CapturedStep ==
  ASSUME IInv, NEW t \in Tabs, NEW q, Put(t, q), PageOK(q), Like(q, tab[t]), q.todo = tab[t].todo,
         NEW entry \in Entries, Captured(t, entry), budget' \in [Bounded -> Nat],
         stale' \in [Identities -> SUBSET Entries],
         \A u \in Identities : stale[u] \subseteq stale'[u]
  PROVE  IInv'
<1>1. Types /\ tab[t].db \in Identities
  BY PageOfTab DEF IInv
<1>2. /\ queue' = [queue EXCEPT ![tab[t].db] = @ \union {entry}] /\ left' = left \union {tab[t].db}
      /\ UNCHANGED <<key, linked, untold>>
  BY DEF Captured
<1>3. queue' \in [Identities -> SUBSET Entries]
  BY <1>1, <1>2 DEF Types
<1>4. left' \subseteq Identities /\ left \subseteq left'
  BY <1>1, <1>2 DEF Types
<1>5. Fewer(tab[t], q)
  <2> SUFFICES ASSUME NEW u \in Identities \ left', NEW e \in queue'[u] \ stale'[u]
               PROVE  e \in queue[u] \ stale[u] /\ u # tab[t].db
    BY DEF Fewer
  <2>1. u # tab[t].db
    BY <1>2
  <2>2. queue'[u] = queue[u]
    BY <1>1, <1>2, <2>1 DEF Types
  <2>3. QED
    BY <2>1, <2>2
<1>6. QED
  BY <1>2, <1>3, <1>4, <1>5, PageStep

LEMMA SendLostStep == ASSUME IInv, NEW t \in Tabs, SendLost(t) PROVE IInv'
<1> DEFINE p == tab[t]
           q == Sent(p)
           entry == [n |-> budget.faults + budget.conflicts, by |-> p.by]
<1>1. Types /\ PageOK(p) /\ p \in Pages
  BY PageOfTab DEF IInv
<1>2. /\ p.send \in {"post", "retry"} /\ Put(t, q) /\ Spend("faults") /\ Captured(t, entry)
      /\ stale' = stale
  BY DEF SendLost
<1>3. entry \in Entries
  BY <1>1 DEF Types, Bounded, Pages, Entries
<1> HIDE DEF entry
<1>4. PageOK(q) /\ Who(q, p) /\ q.calls = p.calls /\ q.todo = p.todo
  BY <1>1, <1>2, SentPage
<1> HIDE DEF q
<1>5. Like(q, p)
  BY <1>4, LikeWho
<1>6. budget' \in [Bounded -> Nat]
  BY <1>1, <1>2, Spending DEF Bounded
<1>7. stale' \in [Identities -> SUBSET Entries] /\ \A u \in Identities : stale[u] \subseteq stale'[u]
  BY <1>1, <1>2 DEF Types
<1>8. QED
  BY <1>2, <1>3, <1>4, <1>5, <1>6, <1>7, CapturedStep

LEMMA SendConflictsStep == ASSUME IInv, NEW t \in Tabs, SendConflicts(t) PROVE IInv'
<1> DEFINE p == tab[t]
           entry == [n |-> budget.faults + budget.conflicts, by |-> p.by]
           s == Sent(p)
           m == [s EXCEPT !.parked = s.parked \union {entry}]
           q == Resyncing(m)
<1>1. Types /\ PageOK(p) /\ p \in Pages /\ p.db \in Identities
  BY PageOfTab DEF IInv
<1>2. /\ p.send \in {"post", "retry"} /\ Spend("conflicts")
      /\ Put(t, Resyncing([Sent(p) EXCEPT !.parked = @ \union {entry}])) /\ Captured(t, entry)
      /\ stale' = [stale EXCEPT ![p.db] = @ \union {entry}]
  BY DEF SendConflicts
<1>3. entry \in Entries /\ p.on = "on"
  BY <1>1, <1>2 DEF Types, Bounded, Pages, Entries, PageOK, Still
<1> HIDE DEF entry
<1>4. PageOK(s) /\ Who(s, p) /\ s.calls = p.calls /\ s.todo = p.todo /\ s \in Pages
  BY <1>1, <1>2, SentPage DEF PageOK
<1>5. m = [Sent(p) EXCEPT !.parked = @ \union {entry}]
  BY <1>4 DEF Pages
<1> HIDE DEF s
<1>6. PageOK(m) /\ Who(m, s) /\ m.calls = s.calls /\ m.todo = s.todo
  <2>1. s.parked \union {entry} \in SUBSET Entries
    BY <1>3, <1>4 DEF Pages
  <2>2. QED
    BY <1>4, <2>1, ParkedPage
<1>7. Put(t, q)
  BY <1>2, <1>5
<1> HIDE DEF m
<1>8. PageOK(q) /\ Who(q, m) /\ q.calls = m.calls /\ q.todo = m.todo
  BY <1>3, <1>4, <1>6, ResyncedPage DEF Who
<1> HIDE DEF q
<1>9. Like(q, p) /\ q.todo = p.todo
  BY <1>4, <1>6, <1>8 DEF Like, Who
<1>10. budget' \in [Bounded -> Nat]
  BY <1>1, <1>2, Spending DEF Bounded
<1>11. stale' \in [Identities -> SUBSET Entries] /\ \A u \in Identities : stale[u] \subseteq stale'[u]
  BY <1>1, <1>2, <1>3 DEF Types
<1>12. QED
  BY <1>2, <1>3, <1>7, <1>8, <1>9, <1>10, <1>11, CapturedStep

\* Another device writes the row of an entry: one more that may wait.
LEMMA OvertakenStep ==
  ASSUME IInv, NEW u \in Identities, NEW e \in queue[u], Overtaken(u, e) PROVE IInv'
<1>1. Types /\ Drained /\ Linked
  BY DEF IInv
<1>2. /\ Spend("conflicts") /\ stale' = [stale EXCEPT ![u] = @ \union {e}]
      /\ UNCHANGED <<key, linked, tab, queue, left, untold>>
  BY DEF Overtaken
<1>3. budget' \in [Bounded -> Nat]
  BY <1>1, <1>2, Spending DEF Bounded
<1>4. stale' \in [Identities -> SUBSET Entries] /\ \A v \in Identities : stale[v] \subseteq stale'[v]
  BY <1>1, <1>2 DEF Types
<1>5. Types'
  BY <1>1, <1>2, <1>3, <1>4 DEF Types
<1>6. Drained' /\ Linked'
  BY <1>1, <1>2, <1>4 DEF Drained, Linked
<1>7. QED
  BY <1>5, <1>6 DEF IInv

LEMMA OnlineStep == ASSUME IInv, NEW t \in Tabs, Online(t) PROVE IInv'
<1> DEFINE p == tab[t]
           q == Resyncing(p)
<1>1. PageOK(p)
  BY PageOfTab DEF IInv
<1>2. /\ p.on = "on" /\ Put(t, q)
      /\ UNCHANGED <<key, linked, queue, stale, left, untold, budget>>
  BY DEF Online, On, Free
<1>3. PageOK(q) /\ Who(q, p) /\ q.calls = p.calls /\ q.todo = p.todo
  BY <1>1, <1>2, ResyncedPage
<1> HIDE DEF q
<1>4. Like(q, p)
  BY <1>3, LikeWho
<1>5. QED
  BY <1>2, <1>3, <1>4, FreeStep

LEMMA FlushStartStep == ASSUME IInv, NEW t \in Tabs, FlushStart(t) PROVE IInv'
<1> DEFINE p == tab[t]
           todo == queue[p.db]
           q == Started(p, todo)
<1>1. Types /\ Drained /\ Linked
  BY DEF IInv
<1>2. PageOK(p) /\ p.db \in Identities
  BY <1>1, PageOfTab
<1>3. /\ p.flush = "waiting" /\ Put(t, q) /\ left' = left \ {p.db}
      /\ UNCHANGED <<key, linked, queue, stale, untold, budget>>
  BY DEF FlushStart, Started, Free
<1>4. todo \in SUBSET Entries
  BY <1>1, <1>2 DEF Types
<1> HIDE DEF todo
<1>5. PageOK(q) /\ Who(q, p) /\ q.calls = p.calls /\ q.todo = todo
  BY <1>2, <1>3, <1>4, StartedPage
<1> HIDE DEF q
<1>6. tab'[t] = q /\ \A s \in Tabs \ {t} : tab'[s] = tab[s]
  BY <1>1, <1>3, PageAfter
<1>7. Types'
  <2>1. left' \subseteq Identities
    BY <1>1, <1>3 DEF Types
  <2>2. QED
    BY <1>1, <1>3, <1>5, <2>1, TypesStep DEF Types
<1>8. Drained'
  <2>1. ASSUME NEW u \in Identities \ left', NEW e \in queue[u] \ stale[u]
        PROVE  \E s \in Tabs : tab'[s].db = u /\ e \in tab'[s].todo
    <3>1. CASE u = p.db
      <4>1. q.db = u /\ e \in q.todo
        BY <1>5, <2>1, <3>1 DEF Who, todo
      <4>2. QED
        BY <1>6, <4>1
    <3>2. CASE u # p.db
      <4>1. u \notin left
        BY <1>3, <2>1, <3>2
      <4>2. PICK s \in Tabs : tab[s].db = u /\ e \in tab[s].todo
        BY <1>1, <2>1, <4>1 DEF Drained
      <4>3. tab'[s] = tab[s]
        BY <1>6, <3>2, <4>2
      <4>4. QED
        BY <4>2, <4>3
    <3>3. QED
      BY <3>1, <3>2
  <2>2. QED
    BY <1>3, <2>1 DEF Drained
<1>9. Linked'
  <2>1. ASSUME t \notin untold PROVE ToldOf(q, linked)
    <3>1. Like(q, p)
      BY <1>5, LikeWho
    <3>2. QED
      BY <1>1, <2>1, <3>1, ToldMore DEF Linked
  <2>2. QED
    BY <1>1, <1>3, <2>1, LinkedStep
<1>10. QED
  BY <1>7, <1>8, <1>9 DEF IInv

\* A flush goes on with some of its entries; none that may be sent drops out
\* of it and stays queued.
LEMMA GoingStep ==
  ASSUME IInv, NEW t \in Tabs, NEW parked \in SUBSET Entries, NEW todo \in SUBSET Entries,
         tab[t].flush \in {"loaded", "post", "retry"},
         Put(t, Going(t, [tab[t] EXCEPT !.parked = parked], todo)),
         UNCHANGED <<key, linked, stale, left, untold, budget>>,
         queue' \in [Identities -> SUBSET Entries],
         \A u \in Identities : queue'[u] \subseteq queue[u],
         \A e \in queue'[tab[t].db] \ stale[tab[t].db] : e \in tab[t].todo => e \in todo
  PROVE  IInv'
<1> DEFINE p == tab[t]
           m == [p EXCEPT !.parked = parked]
           q == Going(t, m, todo)
<1>1. Types /\ PageOK(p) /\ p.on = "on"
  BY PageOfTab DEF IInv, PageOK, Still
<1>2. /\ PageOK(m) /\ Who(m, p) /\ Typed(m, p) /\ m.calls = p.calls /\ m.feed = p.feed
      /\ m.todo = p.todo /\ m.flush = p.flush
  BY <1>1, ParkedPage
<1>3. Fair(Posted(t, m), m)
  <2>1. m.token = None \/ Real(m.token)
    BY <1>2 DEF PageOK
  <2>2. t \notin untold => m.token.user \in {m.user, Nobody}
    BY <1>1, <1>2, FairTab DEF Who
  <2>3. m \in Pages
    BY <1>2 DEF PageOK
  <2>4. QED
    BY <2>1, <2>2, <2>3, PostedFair
<1>4. Put(t, q) /\ m \in Pages
  BY <1>2 DEF PageOK
<1> HIDE DEF m
<1>5. PageOK(q) /\ Who(q, p) /\ q.calls = p.calls /\ q.todo = todo
  BY <1>1, <1>2, <1>3, <1>4, GoingPage
<1> HIDE DEF q
<1>6. Like(q, p)
  BY <1>5, LikeWho
<1>7. Fewer(p, q)
  BY <1>5 DEF Fewer, Who
<1>8. QED
  BY <1>1, <1>4, <1>5, <1>6, <1>7, PageStep DEF Types

LEMMA FlushReconciledStep == ASSUME IInv, NEW t \in Tabs, FlushReconciled(t) PROVE IInv'
<1> DEFINE p == tab[t]
           held == stale[p.db]
           parked == (p.parked \union p.todo) \intersect held
           todo == p.todo \ held
<1>1. Types /\ p \in Pages /\ p.db \in Identities
  BY PageOfTab DEF IInv
<1>2. p.flush = "loaded" /\ UNCHANGED <<key, linked, queue, stale, left, untold, budget>>
      /\ Put(t, Going(t, [p EXCEPT !.parked = parked], todo))
  BY <1>1 DEF FlushReconciled, Free, Pages
<1>3. parked \in SUBSET Entries /\ todo \in SUBSET Entries
  BY <1>1 DEF Pages
<1>4. queue' \in [Identities -> SUBSET Entries]
  BY <1>1, <1>2 DEF Types
<1>5. \A e \in queue'[p.db] \ stale[p.db] : e \in p.todo => e \in todo
  OBVIOUS
<1> HIDE DEF parked, todo
<1>6. QED
  BY <1>2, <1>3, <1>4, <1>5, GoingStep

\* The entry in hand leaves the flush, and the queue or the entries that may
\* be sent.
LEMMA AdvancedStep ==
  ASSUME IInv, NEW t \in Tabs, NEW parked \in SUBSET Entries, tab[t].flush \in {"post", "retry"},
         Put(t, Advanced(t, [tab[t] EXCEPT !.parked = parked])),
         UNCHANGED <<key, linked, stale, left, untold, budget>>,
         \/ queue' = [queue EXCEPT ![tab[t].db] = @ \ {NextEntry([tab[t] EXCEPT !.parked = parked])}]
         \/ queue' = queue /\ NextEntry([tab[t] EXCEPT !.parked = parked]) \in stale[tab[t].db]
  PROVE  IInv'
<1> DEFINE p == tab[t]
           m == [p EXCEPT !.parked = parked]
           e == NextEntry(m)
           todo == p.todo \ {e}
<1>1. Types /\ p \in Pages /\ p.db \in Identities
  BY PageOfTab DEF IInv
<1>2. m.todo = p.todo
  BY <1>1 DEF Pages
<1>3. Put(t, Going(t, m, todo))
  BY <1>2 DEF Advanced
<1>4. todo \in SUBSET Entries
  BY <1>1 DEF Pages
<1> HIDE DEF e
<1>5. queue' = [queue EXCEPT ![p.db] = @ \ {e}] \/ (queue' = queue /\ e \in stale[p.db])
  BY DEF e
<1>6. queue' \in [Identities -> SUBSET Entries] /\ \A u \in Identities : queue'[u] \subseteq queue[u]
  BY <1>1, <1>5 DEF Types
<1>7. e \notin queue'[p.db] \ stale[p.db]
  BY <1>1, <1>5 DEF Types
<1>8. \A d \in queue'[p.db] \ stale[p.db] : d \in p.todo => d \in todo
  BY <1>7
<1> HIDE DEF todo
<1>9. QED
  BY <1>3, <1>4, <1>6, <1>8, GoingStep

\* A page is the page that shows the conflicts it shows.
LEMMA ParkedSame ==
  ASSUME NEW p \in Pages
  PROVE  [p EXCEPT !.parked = p.parked] = p /\ p.parked \in SUBSET Entries
BY DEF Pages

LEMMA FlushServedStep == ASSUME IInv, NEW t \in Tabs, FlushServed(t) PROVE IInv'
<1> DEFINE p == tab[t]
           e == NextEntry(p)
<1>1. Types /\ PageOK(p) /\ p \in Pages
  BY PageOfTab DEF IInv
<1>2. p.flush \in {"post", "retry"} /\ UNCHANGED <<key, linked, stale, left, untold, budget>>
  BY DEF FlushServed, Free
<1>3. CASE Put(t, Advanced(t, p)) /\ queue' = [queue EXCEPT ![p.db] = @ \ {e}]
  <2>1. [p EXCEPT !.parked = p.parked] = p /\ p.parked \in SUBSET Entries
    BY <1>1, ParkedSame
  <2>2. /\ Put(t, Advanced(t, [p EXCEPT !.parked = p.parked]))
        /\ queue' = [queue EXCEPT ![p.db] = @ \ {NextEntry([p EXCEPT !.parked = p.parked])}]
    BY <1>3, <2>1
  <2>3. QED
    BY <1>2, <2>1, <2>2, AdvancedStep
<1>4. CASE Put(t, Asking([p EXCEPT !.flush = "asking"], "flush", Nobody)) /\ queue' = queue
  <2> DEFINE q == Asking([p EXCEPT !.flush = "asking"], "flush", Nobody)
  <2>1. /\ PageOK(q) /\ q.on = p.on /\ q.user = p.user /\ q.token = p.token /\ q.db = p.db
        /\ q.todo = p.todo /\ \A c \in q.calls : c \in p.calls \/ c.state = "asked"
    BY <1>1, <1>2, UnauthorizedPage
  <2>2. Put(t, q)
    BY <1>4
  <2> HIDE DEF q
  <2>3. Like(q, p)
    BY <2>1 DEF Like
  <2>4. QED
    BY <1>2, <1>4, <2>1, <2>2, <2>3, FreeStep
<1>5. QED
  BY <1>3, <1>4 DEF FlushServed, Denied, Buried

LEMMA FlushConflictsStep == ASSUME IInv, NEW t \in Tabs, FlushConflicts(t) PROVE IInv'
<1> DEFINE p == tab[t]
           e == NextEntry(p)
           parked == p.parked \union {e}
           m == [p EXCEPT !.parked = parked]
<1>1. Types /\ p \in Pages /\ p.db \in Identities
  BY PageOfTab DEF IInv
<1>2. /\ p.flush \in {"post", "retry"} /\ UNCHANGED <<key, linked, queue, stale, left, untold, budget>>
      /\ e \in stale[p.db] /\ Put(t, Advanced(t, [p EXCEPT !.parked = @ \union {e}]))
  BY DEF FlushConflicts, Free
<1>3. m = [p EXCEPT !.parked = @ \union {e}] /\ m.todo = p.todo
  BY <1>1 DEF Pages
<1>4. parked \in SUBSET Entries
  BY <1>1, <1>2 DEF Pages, Types
<1>5. NextEntry(m) = e
  BY <1>3 DEF NextEntry
<1> HIDE DEF e, parked
<1>6. Put(t, Advanced(t, m)) /\ queue' = queue /\ NextEntry(m) \in stale[p.db]
  BY <1>2, <1>3, <1>5
<1>7. QED
  BY <1>2, <1>4, <1>6, AdvancedStep

LEMMA FlushLostStep == ASSUME IInv, NEW t \in Tabs, FlushLost(t) PROVE IInv'
<1> DEFINE p == tab[t]
           q == [p EXCEPT !.flush = "none", !.todo = {}, !.flushAs = NoPost]
<1>1. Types /\ PageOK(p) /\ p.db \in Identities
  BY PageOfTab DEF IInv
<1>2. /\ p.flush \in {"loaded", "post", "retry"} /\ Put(t, q) /\ Spend("faults")
      /\ left' = left \union {p.db} /\ UNCHANGED <<key, linked, queue, stale, untold>>
  BY DEF FlushLost
<1>3. PageOK(q) /\ Who(q, p) /\ q.calls = p.calls
  BY <1>1, <1>2, CutPage
<1> HIDE DEF q
<1>4. Like(q, p)
  BY <1>3, LikeWho
<1>5. /\ left' \subseteq Identities /\ left \subseteq left'
      /\ queue' \in [Identities -> SUBSET Entries] /\ stale' \in [Identities -> SUBSET Entries]
  BY <1>1, <1>2 DEF Types
<1>6. budget' \in [Bounded -> Nat]
  BY <1>1, <1>2, Spending DEF Bounded
<1>7. Fewer(p, q)
  BY <1>2 DEF Fewer
<1>8. QED
  BY <1>2, <1>3, <1>4, <1>5, <1>6, <1>7, PageStep

LEMMA ResolveStep ==
  ASSUME IInv, NEW t \in Tabs, NEW e \in tab[t].parked, Resolve(t, e) PROVE IInv'
<1> DEFINE p == tab[t]
           m == [p EXCEPT !.parked = p.parked \ {e}]
           q == Resyncing(m)
<1>1. Types /\ PageOK(p) /\ p \in Pages /\ p.db \in Identities
  BY PageOfTab DEF IInv
<1>2. /\ Put(t, Resyncing([p EXCEPT !.parked = @ \ {e}])) /\ UNCHANGED <<key, linked, untold, budget>>
      /\ \/ /\ stale' = [stale EXCEPT ![p.db] = @ \ {e}] /\ left' = left \union {p.db}
            /\ queue' = queue
         \/ /\ queue' = [queue EXCEPT ![p.db] = @ \ {e}]
            /\ UNCHANGED <<stale, left>>
  BY DEF Resolve, Free
<1>3. m = [p EXCEPT !.parked = @ \ {e}]
  BY <1>1 DEF Pages
<1>4. Put(t, q)
  BY <1>2, <1>3
<1>5. p.on = "on" /\ p.parked \ {e} \in SUBSET Entries
  BY <1>1 DEF Resolve, On, Pages
<1>6. PageOK(m) /\ Who(m, p) /\ m.calls = p.calls /\ m.todo = p.todo
  BY <1>1, <1>5, ParkedPage
<1> HIDE DEF m
<1>7. PageOK(q) /\ Who(q, m) /\ q.calls = m.calls /\ q.todo = m.todo
  BY <1>5, <1>6, ResyncedPage DEF Who
<1> HIDE DEF q
<1>8. Like(q, p) /\ q.todo = p.todo /\ q.db = p.db
  BY <1>6, <1>7 DEF Like, Who
<1>9. /\ left' \subseteq Identities /\ left \subseteq left'
      /\ queue' \in [Identities -> SUBSET Entries] /\ stale' \in [Identities -> SUBSET Entries]
  BY <1>1, <1>2 DEF Types
<1>10. Fewer(p, q)
  <2> SUFFICES ASSUME NEW u \in Identities \ left', NEW d \in queue'[u] \ stale'[u]
               PROVE  d \in queue[u] \ stale[u]
    BY <1>8 DEF Fewer
  <2>1. CASE stale' = [stale EXCEPT ![p.db] = @ \ {e}] /\ left' = left \union {p.db} /\ queue' = queue
    <3>1. u # p.db /\ stale'[u] = stale[u]
      BY <1>1, <2>1 DEF Types
    <3>2. QED
      BY <2>1, <3>1
  <2>2. CASE queue' = [queue EXCEPT ![p.db] = @ \ {e}] /\ UNCHANGED <<stale, left>>
    BY <1>1, <2>2 DEF Types
  <2>3. QED
    BY <1>2, <2>1, <2>2
<1>11. budget' \in [Bounded -> Nat]
  BY <1>1, <1>2 DEF Types
<1>12. QED
  BY <1>2, <1>4, <1>7, <1>8, <1>9, <1>10, <1>11, PageStep

LEMMA CloseStep == ASSUME IInv, NEW t \in Tabs, Close(t) PROVE IInv'
<1> DEFINE p == tab[t]
           q == Page("off", Nobody, None)
<1>1. Types /\ Drained /\ Linked
  BY DEF IInv
<1>2. PageOK(p) /\ p.db \in Identities
  BY <1>1, PageOfTab
<1>3. /\ Put(t, q) /\ left' = (IF Flushing(p) THEN left \union {p.db} ELSE left)
      /\ UNCHANGED <<key, linked, queue, stale, untold, budget>>
  BY DEF Close, Free, Holds, Flushing
<1>4. PageOK(q) /\ q.on = "off" /\ q.calls = {}
  BY ClosedPage
<1> HIDE DEF q
<1>5. left' \subseteq Identities /\ left \subseteq left' /\ (p.todo # {} => p.db \in left')
  BY <1>1, <1>2, <1>3 DEF Types, PageOK, Busy
<1>6. Types'
  BY <1>1, <1>3, <1>4, <1>5, TypesStep DEF Types
<1>7. Drained'
  <2>1. Fewer(p, q)
    BY <1>3, <1>5 DEF Fewer
  <2>2. QED
    BY <1>1, <1>3, <1>5, <2>1, DrainedStep
<1>8. Linked'
  <2>1. ToldOf(q, linked)
    BY <1>4 DEF ToldOf
  <2>2. QED
    BY <1>1, <1>3, <2>1, LinkedStep
<1>9. QED
  BY <1>6, <1>7, <1>8 DEF IInv

-----------------------------------------------------------------------------
(* The invariant, and what it says of every reachable state.               *)

LEMMA InitInv == Init => IInv
<1> SUFFICES ASSUME Init PROVE IInv
  OBVIOUS
<1>1. ASSUME NEW t \in Tabs
      PROVE  PageOK(tab[t]) /\ tab[t].on = "off" /\ tab[t].calls = {}
  BY ClosedPage DEF Init
<1>2. Types
  <2>1. linked \in Identities /\ budget \in [Bounded -> Nat]
    BY SessionAssumption DEF Init, Identities
  <2>2. key \in Nat \ {0} /\ untold \subseteq Tabs /\ left \subseteq Identities
        /\ queue \in [Identities -> SUBSET Entries] /\ stale \in [Identities -> SUBSET Entries]
        /\ DOMAIN tab = Tabs
    BY DEF Init
  <2>3. QED
    BY <1>1, <2>1, <2>2 DEF Types
<1>3. Drained
  BY DEF Init, Drained
<1>4. Linked
  BY <1>1 DEF Linked, ToldOf
<1>5. QED
  BY <1>2, <1>3, <1>4 DEF IInv

LEMMA StepInv == IInv /\ [Next]_vars => IInv'
<1> SUFFICES ASSUME IInv, [Next]_vars PROVE IInv'
  OBVIOUS
<1>1. CASE Restart \/ \E u \in Identities : \E e \in queue[u] : Overtaken(u, e)
  BY <1>1, RestartStep, OvertakenStep
<1>2. ASSUME NEW t \in Tabs, Boot(t) \/ Close(t) \/ \E u \in Users : Login(t, u) PROVE IInv'
  BY <1>2, BootStep, CloseStep, LoginStep
<1>3. ASSUME NEW t \in Tabs, Calls(t) PROVE IInv'
  <2>1. PICK c \in tab[t].calls : Serve(t, c) \/ Arrives(t, c)
    BY <1>3 DEF Calls
  <2>2. budget \in [Bounded -> Nat]
    BY DEF IInv, Types
  <2>3. CASE Serve(t, c)
    BY <2>3, ServeStep
  <2>4. CASE Arrives(t, c)
    <3>1. c.state # "asked"
      BY <2>4 DEF Arrives
    <3>2. CASE BootDone(t, c)
      BY <3>1, <3>2, BootDoneStep
    <3>3. CASE LoginDone(t, c)
      BY <3>3, LoginDoneStep
    <3>4. CASE LoginRefused(t, c)
      BY <2>2, <3>4, LoginFailsStep DEF LoginRefused, Free
    <3>5. CASE RemintDone(t, c)
      BY <3>5, RemintDoneStep
    <3>6. CASE RemintRefused(t, c)
      <4> DEFINE m == [Done(tab[t], c) EXCEPT !.token = None]
      <4>1. RemintFails(t, c, m) /\ budget' = budget
        BY <3>6 DEF RemintRefused, Free
      <4>2. QED
        BY <2>2, <4>1, RemintFailsStep
    <3>7. QED
      BY <2>4, <3>2, <3>3, <3>4, <3>5, <3>6 DEF Arrives
  <2>5. QED
    BY <2>1, <2>3, <2>4
<1>4. ASSUME NEW t \in Tabs, \E c \in tab[t].calls : CallLost(t, c) PROVE IInv'
  BY <1>4, CallLostStep
<1>5. ASSUME NEW t \in Tabs, Feed(t) \/ FeedDrops(t) PROVE IInv'
  BY <1>5, FeedConnectsStep, TimerStep, FeedDropsStep DEF Feed
<1>6. ASSUME NEW t \in Tabs, Edit(t) \/ SendServed(t) \/ SendLost(t) \/ SendConflicts(t) PROVE IInv'
  BY <1>6, EditStep, SendServedStep, SendLostStep, SendConflictsStep
<1>7. ASSUME NEW t \in Tabs, Online(t) \/ FlushStart(t) \/ FlushReconciled(t) PROVE IInv'
  BY <1>7, OnlineStep, FlushStartStep, FlushReconciledStep
<1>8. ASSUME NEW t \in Tabs, FlushServed(t) \/ FlushConflicts(t) \/ FlushLost(t) PROVE IInv'
  BY <1>8, FlushServedStep, FlushConflictsStep, FlushLostStep
<1>9. ASSUME NEW t \in Tabs, \E e \in tab[t].parked : Resolve(t, e) PROVE IInv'
  BY <1>9, ResolveStep
<1>10. CASE UNCHANGED vars
  BY <1>10 DEF vars, IInv, Types, Drained, Linked
<1>11. QED
  BY <1>1, <1>2, <1>3, <1>4, <1>5, <1>6, <1>7, <1>8, <1>9, <1>10 DEF Next

\* The inductive invariant holds in every reachable state.
LEMMA Invariant == Spec => []IInv
<1>1. Init => IInv
  BY InitInv
<1>2. IInv /\ [Next]_vars => IInv'
  BY StepInv
<1>3. QED
  BY <1>1, <1>2, PTL DEF Spec

\* A page with no call under way that was told of every login acts as whom it
\* shows, or as nobody: of the token a re-mint or a login put in app (boot.js)
\* and of app.identity.
THEOREM ShownActs == Spec => []ShownIsActing
<1>1. IInv => ShownIsActing
  <2>1. ASSUME IInv, NEW t \in Tabs, tab[t].on = "on", tab[t].calls = {}, t \notin untold
        PROVE  tab[t].token.user \in {tab[t].user, Nobody}
    BY <2>1, FairTab
  <2>2. QED
    BY <2>1 DEF ShownIsActing, Quiet, On
<1>2. QED
  BY <1>1, Invariant, PTL

\* Everything is well typed, and no token of a page that has one leaves a feed
\* behind that listens for somebody else.
THEOREM FeedFollowsToken == Spec => []FeedIsToken
<1>1. IInv => FeedIsToken
  <2> SUFFICES ASSUME IInv PROVE FeedIsToken
    OBVIOUS
  <2>1. Types
    BY DEF IInv
  <2>2. ASSUME NEW t \in Tabs
        PROVE  /\ tab[t].user \in Identities /\ tab[t].token.user \in Identities
               /\ tab[t].status = "authenticated" => tab[t].user # Nobody
               /\ (tab[t].send = "asking") = Awaits(t, "send")
               /\ (tab[t].flush = "asking") = Awaits(t, "flush")
               /\ tab[t].todo # {} <=> Holds(t)
    <3>1. PageOK(tab[t]) /\ tab[t] \in Pages
      BY <2>1, PageOfTab
    <3>2. tab[t].user \in Identities /\ tab[t].token.user \in Identities
      BY <3>1 DEF Pages, Tokens
    <3>3. (tab[t].send = "asking") = Awaits(t, "send") /\ (tab[t].flush = "asking") = Awaits(t, "flush")
      BY <3>1 DEF PageOK, CallsOK, Awaits
    <3>4. (tab[t].status = "authenticated" => tab[t].user # Nobody) /\ (tab[t].todo # {} <=> Holds(t))
      BY <3>1 DEF PageOK, Busy, Flushing, Holds
    <3>5. QED
      BY <3>2, <3>3, <3>4
  <2>3. ASSUME NEW u \in Identities, NEW e \in queue[u] PROVE e.by \in Identities
    BY <2>1 DEF Types, Entries
  <2>4. TypeOK
    BY <2>1, <2>2, <2>3 DEF Types, TypeOK
  <2>5. \A t \in Tabs : FeedOK(tab[t])
    BY <2>1, PageOfTab DEF PageOK
  <2>6. QED
    BY <2>4, <2>5 DEF FeedIsToken, FeedOK
<1>2. QED
  BY <1>1, Invariant, PTL

\* What a database that nobody flushes holds from before its last load is in
\* conflict: of a flush (resync, flush in syncClient.js) that goes on past a
\* 409 and past an entry that is refused.
THEOREM NothingLeftQueued == Spec => []QueueDrained
<1>1. IInv => QueueDrained
  <2> SUFFICES ASSUME IInv, NEW u \in Identities \ left, NEW e \in queue[u],
                      \A t \in Tabs : ~(Holds(t) /\ tab[t].db = u)
               PROVE  e \in stale[u]
    BY DEF QueueDrained
  <2>1. ASSUME NEW t \in Tabs, tab[t].db = u PROVE tab[t].todo = {}
    BY <2>1, PageOfTab DEF IInv, PageOK, Busy, Flushing, Holds
  <2>2. QED
    BY <2>1 DEF IInv, Drained
<1>2. QED
  BY <1>1, Invariant, PTL

\* A request that the server executes is made for somebody; if the page was
\* sure of itself when it made it, for whoever the write belongs to.
LEMMA ExecutedAs ==
  ASSUME IInv, NEW t \in Tabs, NEW as, NEW for, PostOK(as, for), Valid(as.token), as.sure
  PROVE  as.token.user = for
<1>1. Real(as.token)
  BY SmallFacts DEF PostOK, Valid, IInv, Types
<1>2. as.token.user # Nobody
  BY <1>1, SmallFacts DEF Real
<1>3. QED
  BY <1>2 DEF PostOK

\* A write is executed as whoever typed it, or as the identity whose database
\* held it, unless the page had moved on to another identity since its boot, or
\* had not been told who is linked, when it made the request: the token is the
\* one of that moment (postWire in boot.js), whenever it is served.
THEOREM WritesAreOnesOwn == Spec => ActsForItsOwn
<1> DEFINE Own == act'.how # "idle" /\ act'.sure => act'.as = act'.for
<1>1. IInv /\ [Next]_vars => [Own]_vars
  <2> SUFFICES ASSUME IInv, Next PROVE Own
    OBVIOUS
  <2>1. CASE act' = Idle
    BY <2>1 DEF Idle
  <2>2. ASSUME NEW t \in Tabs, SendServed(t), act' # Idle PROVE Own
    <3>1. Valid(tab[t].sendAs.token) /\ Acted("send", tab[t].sendAs, tab[t].by)
      BY <2>2 DEF SendServed, Silent
    <3>2. PostOK(tab[t].sendAs, tab[t].by)
      BY PageOfTab DEF IInv, PageOK, PostsOK
    <3>3. QED
      BY <3>1, <3>2, ExecutedAs DEF Acted
  <2>3. ASSUME NEW t \in Tabs, FlushServed(t), act' # Idle PROVE Own
    <3>1. Valid(tab[t].flushAs.token) /\ Acted("flush", tab[t].flushAs, tab[t].db)
      BY <2>3 DEF FlushServed, Silent
    <3>2. PostOK(tab[t].flushAs, tab[t].db)
      BY PageOfTab DEF IInv, PageOK, PostsOK
    <3>3. QED
      BY <3>1, <3>2, ExecutedAs DEF Acted
  <2>4. Restart \/ (\E u \in Identities : \E e \in queue[u] : Overtaken(u, e)) => act' = Idle
    BY DEF Restart, Overtaken, Silent
  <2>5. ASSUME NEW t \in Tabs, Boot(t) \/ Close(t) \/ \E u \in Users : Login(t, u) PROVE act' = Idle
    BY <2>5 DEF Boot, Close, Login, Silent
  <2>6. ASSUME NEW t \in Tabs, Calls(t) PROVE act' = Idle
    BY <2>6 DEF Calls, Serve, Arrives, BootDone, LoginDone, LoginRefused, LoginFails, RemintDone,
                RemintRefused, RemintFails, Silent
  <2>7. ASSUME NEW t \in Tabs, \E c \in tab[t].calls : CallLost(t, c) PROVE act' = Idle
    BY <2>7 DEF CallLost, RemintFails, LoginFails, Silent
  <2>8. ASSUME NEW t \in Tabs, Feed(t) \/ FeedDrops(t) PROVE act' = Idle
    BY <2>8 DEF Feed, FeedConnects, Timer, FeedDrops, Silent
  <2>9. ASSUME NEW t \in Tabs,
               Edit(t) \/ SendLost(t) \/ SendConflicts(t) \/ Online(t) \/ FlushStart(t)
        PROVE  act' = Idle
    BY <2>9 DEF Edit, SendLost, SendConflicts, Online, FlushStart, Silent
  <2>10. ASSUME NEW t \in Tabs,
                FlushReconciled(t) \/ FlushConflicts(t) \/ FlushLost(t) \/ \E e \in tab[t].parked : Resolve(t, e)
         PROVE  act' = Idle
    BY <2>10 DEF FlushReconciled, FlushConflicts, FlushLost, Resolve, Silent
  <2>11. QED
    BY <2>1, <2>2, <2>3, <2>4, <2>5, <2>6, <2>7, <2>8, <2>9, <2>10 DEF Next
<1>2. Spec => [][Own]_vars
  BY <1>1, Invariant, PTL DEF Spec
<1>3. [][Own]_vars => ActsForItsOwn
  BY PTL DEF ActsForItsOwn
<1>4. QED
  BY <1>2, <1>3
=============================================================================
