------------------------ MODULE RecordContextsProofs -------------------------
(***************************************************************************)
(* What holds of a record context for any rows, fields and numbers of       *)
(* writes, selections and faults: nothing typed on one row's text is sent   *)
(* for another unless that row's load failed, and outside the known races   *)
(* the page ends up showing what the server holds.                          *)
(***************************************************************************)
EXTENDS RecordContexts, CommonLemmas, TLAPS

-----------------------------------------------------------------------------
(* The inductive invariant.                                                *)

\* A dead feed holds nothing; the last broadcast of a field tells its value.
OnField(q, i, r, f) == q[i].row = r /\ q[i].field = f
LastOn(q, i, r, f) ==
  /\ i \in 1..Len(q) /\ OnField(q, i, r, f)
  /\ \A j \in 1..Len(q) : j > i => ~OnField(q, j, r, f)
Tells(q, r, f, s) == \A i \in 1..Len(q) : LastOn(q, i, r, f) => q[i].val = s
FeedTells ==
  /\ ~up => feed = <<>>
  /\ \A r \in Rows, f \in Fields : Tells(feed, r, f, server[r][f])

\* At most one load runs per generation; the current one loads the selected
\* row, suspends sends, and has painted the fields before the one it waits for.
Current ==
  /\ \A l, k \in loads : l.gen = k.gen => l = k
  /\ \A l \in loads : l.gen = gen => /\ loading /\ l.id = selected
                                     /\ \A f \in Fields : f < l.field => shown[f].row = selected
Filled == selected # NoRow /\ ~broken /\ ~loading => \A f \in Fields : shown[f].row = selected

\* Text that is right once the feed is read: it is what the server has, or the
\* last broadcast of the field will replace it.
Heals(q, r, f) == \E i \in 1..Len(q) : LastOn(q, i, r, f) /\ ~q[i].own
Sound(v, r, f) == v = server[r][f] \/ Heals(feed, r, f)

\* With a live feed and no refetch ahead, an answer of the current load that
\* nothing has overtaken is sound, and so is every field that has been painted
\* and not raced, unless an own write of it is on its way: then it shows that.
Live == up /\ heals = 0 /\ selected # NoRow
AnswersSound ==
  Live => \A l \in loads :
            l.gen = gen /\ l.status = "answered" /\ ~l.late
              => Unapplied(selected, l.field) = {} /\ Sound(l.val, selected, l.field)
Painting(f) == \E l \in loads : l.gen = gen /\ l.field <= f
FieldSound(f) ==
  /\ \A e, d \in Unapplied(selected, f) : e = d
  /\ \A e \in Unapplied(selected, f) : shown[f].val = e.val
  /\ Unapplied(selected, f) = {} => Sound(shown[f].val, selected, f)
FieldsSound ==
  Live => \A f \in Fields : f \notin raced /\ ~Painting(f) => FieldSound(f)

IInv == TypeOK /\ FeedTells /\ Current /\ Filled /\ AnswersSound /\ FieldsSound

-----------------------------------------------------------------------------
(* The feed: what a broadcast added at its end or read at its head changes. *)

Message == [row : Rows, field : Fields, val : Values, own : BOOLEAN]

LEMMA PushOther ==
  ASSUME NEW q \in Seq(Message), NEW x \in Message, NEW r, NEW f, NEW s,
         ~(x.row = r /\ x.field = f)
  PROVE  LET p == Append(q, x)
         IN  /\ Heals(q, r, f) => Heals(p, r, f)
             /\ Tells(q, r, f, s) => Tells(p, r, f, s)
<1>. DEFINE p == Append(q, x)
<1>1. /\ p \in Seq(Message) /\ Len(p) = Len(q) + 1 /\ Len(q) \in Nat
      /\ \A i \in 1..Len(q) : p[i] = q[i]
      /\ p[Len(q) + 1] = x
  BY Push
<1>. HIDE DEF p
<1>2. \A i \in 1..Len(q) : LastOn(q, i, r, f) <=> LastOn(p, i, r, f)
  BY <1>1 DEF LastOn, OnField
<1>3. ~LastOn(p, Len(q) + 1, r, f)
  BY <1>1 DEF LastOn, OnField
<1>4. 1..Len(p) = 1..Len(q) \cup {Len(q) + 1}
  BY <1>1
<1>. QED BY <1>1, <1>2, <1>3, <1>4 DEF p, Heals, Tells

LEMMA PushOn ==
  ASSUME NEW q \in Seq(Message), NEW x \in Message
  PROVE  LET p == Append(q, x)
         IN  /\ ~x.own => Heals(p, x.row, x.field)
             /\ Tells(p, x.row, x.field, x.val)
<1>. DEFINE p == Append(q, x)
<1>1. /\ p \in Seq(Message) /\ Len(p) = Len(q) + 1 /\ Len(q) \in Nat
      /\ p[Len(q) + 1] = x
  BY Push
<1>. HIDE DEF p
<1>2. Len(p) \in 1..Len(p) /\ OnField(p, Len(p), x.row, x.field)
  BY <1>1 DEF OnField
<1>3. LastOn(p, Len(p), x.row, x.field)
  BY <1>1, <1>2 DEF LastOn
<1>4. ASSUME NEW i \in 1..Len(p), LastOn(p, i, x.row, x.field) PROVE i = Len(p)
  BY <1>1, <1>2, <1>4 DEF LastOn
<1>. QED BY <1>1, <1>2, <1>3, <1>4 DEF p, Heals, Tells

\* Reading the head: what is said after it is said still, and it was not the
\* last word on a field of which an own broadcast or nothing stood there.
LEMMA PopTells ==
  ASSUME NEW q \in Seq(Message), q # <<>>, NEW r, NEW f, NEW s, Tells(q, r, f, s)
  PROVE  Tells(Tail(q), r, f, s)
<1>1. /\ Len(q) \in Nat \ {0} /\ Tail(q) \in Seq(Message) /\ Len(Tail(q)) = Len(q) - 1
      /\ \A i \in 1..(Len(q) - 1) : Tail(q)[i] = q[i + 1]
  BY DropHead
<1>. DEFINE p == Tail(q)
<1>. HIDE DEF p
<1>2. ASSUME NEW i \in 1..Len(p), LastOn(p, i, r, f)
      PROVE  LastOn(q, i + 1, r, f) /\ i + 1 \in 1..Len(q) /\ p[i] = q[i + 1]
  <2>1. i + 1 \in 1..Len(q) /\ p[i] = q[i + 1]
    BY <1>1 DEF p
  <2>2. OnField(q, i + 1, r, f)
    BY <1>2, <2>1 DEF OnField, LastOn
  <2>3. ASSUME NEW j \in 1..Len(q), j > i + 1 PROVE ~OnField(q, j, r, f)
    <3>1. j - 1 \in 1..Len(p) /\ j - 1 > i /\ p[j - 1] = q[j]
      BY <1>1, <2>3 DEF p
    <3>. QED BY <1>2, <3>1 DEF LastOn, OnField
  <2>. QED BY <2>1, <2>2, <2>3 DEF LastOn
<1>. QED BY <1>2 DEF Tells, p

LEMMA PopHeals ==
  ASSUME NEW q \in Seq(Message), q # <<>>, NEW r, NEW f, Heals(q, r, f),
         Head(q).own \/ ~(Head(q).row = r /\ Head(q).field = f)
  PROVE  Heals(Tail(q), r, f)
<1>1. /\ Len(q) \in Nat \ {0} /\ Tail(q) \in Seq(Message) /\ Len(Tail(q)) = Len(q) - 1
      /\ \A i \in 1..(Len(q) - 1) : Tail(q)[i] = q[i + 1]
      /\ Head(q) = q[1]
  BY DropHead
<1>. DEFINE p == Tail(q)
<1>. HIDE DEF p
<1>2. PICK i \in 1..Len(q) : LastOn(q, i, r, f) /\ ~q[i].own
  BY DEF Heals
<1>3. i # 1
  BY <1>1, <1>2 DEF LastOn, OnField
<1>4. i - 1 \in 1..Len(p) /\ p[i - 1] = q[i]
  BY <1>1, <1>3 DEF p
<1>5. ASSUME NEW j \in 1..Len(p), j > i - 1 PROVE ~OnField(p, j, r, f)
  <2>1. j + 1 \in 1..Len(q) /\ j + 1 > i /\ p[j] = q[j + 1]
    BY <1>1, <1>5 DEF p
  <2>. QED BY <1>2, <2>1 DEF LastOn, OnField
<1>6. LastOn(p, i - 1, r, f)
  BY <1>2, <1>4, <1>5 DEF LastOn, OnField
<1>. QED BY <1>2, <1>4, <1>6 DEF Heals, p

LEMMA SomeLast ==
  ASSUME NEW q \in Seq(Message), NEW r, NEW f, NEW k \in 1..Len(q), OnField(q, k, r, f)
  PROVE  \E i \in 1..Len(q) : LastOn(q, i, r, f)
<1>. DEFINE S == {n \in 0..(Len(q) - 1) : OnField(q, Len(q) - n, r, f)}
<1>1. Len(q) \in Nat /\ Len(q) - k \in 0..(Len(q) - 1) /\ Len(q) - (Len(q) - k) = k
  OBVIOUS
<1>2. S \in SUBSET Nat /\ S # {}
  <2>1. OnField(q, Len(q) - (Len(q) - k), r, f)
    BY <1>1
  <2>2. Len(q) - k \in S
    BY <1>1, <2>1
  <2>3. \A n \in S : n \in Nat
    BY <1>1
  <2>. HIDE DEF S
  <2>. QED BY <2>2, <2>3
<1>. HIDE DEF S
<1>3. PICK m \in S : \A y \in S : m <= y
  BY <1>2, MinOf
<1>4. Len(q) - m \in 1..Len(q) /\ OnField(q, Len(q) - m, r, f) /\ m \in Nat
  BY <1>1, <1>3 DEF S
<1>5. ASSUME NEW j \in 1..Len(q), j > Len(q) - m, OnField(q, j, r, f) PROVE FALSE
  <2>1. Len(q) - j \in 0..(Len(q) - 1) /\ Len(q) - (Len(q) - j) = j
    BY <1>1
  <2>2. Len(q) - j \in S
    BY <1>5, <2>1 DEF S
  <2>. QED BY <1>1, <1>3, <1>4, <1>5, <2>1, <2>2
<1>. QED BY <1>4, <1>5 DEF LastOn

\* A painted broadcast is the last word on its field or foreign news follow it,
\* unless an own echo is still to come.
LEMMA PaintedHead ==
  ASSUME NEW q \in Seq(Message), q # <<>>, NEW s,
         Tells(q, Head(q).row, Head(q).field, s),
         \A i \in DOMAIN Tail(q) : OnField(Tail(q), i, Head(q).row, Head(q).field)
                                     => ~Tail(q)[i].own
  PROVE  Head(q).val = s \/ Heals(Tail(q), Head(q).row, Head(q).field)
<1>1. /\ Len(q) \in Nat \ {0} /\ Tail(q) \in Seq(Message) /\ Len(Tail(q)) = Len(q) - 1
      /\ \A i \in 1..(Len(q) - 1) : Tail(q)[i] = q[i + 1]
      /\ Head(q) = q[1] /\ DOMAIN Tail(q) = 1..Len(Tail(q))
  BY DropHead
<1>. DEFINE p == Tail(q)
            r == Head(q).row
            f == Head(q).field
<1>. HIDE DEF p, r, f
<1>2. CASE \E k \in 1..Len(p) : OnField(p, k, r, f)
  <2>1. PICK i \in 1..Len(p) : LastOn(p, i, r, f)
    BY <1>1, <1>2, SomeLast DEF p
  <2>2. ~p[i].own
    BY <1>1, <2>1 DEF LastOn, p, r, f
  <2>. QED BY <2>1, <2>2 DEF Heals, p, r, f
<1>3. CASE \A k \in 1..Len(p) : ~OnField(p, k, r, f)
  <2>1. 1 \in 1..Len(q) /\ OnField(q, 1, r, f)
    BY <1>1 DEF OnField, r, f
  <2>2. ASSUME NEW j \in 1..Len(q), j > 1 PROVE ~OnField(q, j, r, f)
    <3>1. j - 1 \in 1..Len(p) /\ p[j - 1] = q[j]
      BY <1>1, <2>2 DEF p
    <3>. QED BY <1>3, <3>1 DEF OnField
  <2>3. LastOn(q, 1, r, f)
    BY <2>1, <2>2 DEF LastOn
  <2>. QED BY <1>1, <2>1, <2>3 DEF Tells, r, f
<1>. QED BY <1>2, <1>3

-----------------------------------------------------------------------------
(* Types.                                                                  *)

Loading == [gen : 1..gen, id : Rows, field : Fields, status : {"asked", "answered"},
            val : Values, late : BOOLEAN]

LEMMA FieldsAre == 1 \in Fields /\ NumFields \in Fields /\ Fields \subseteq Nat
BY ContextConstants DEF Fields

LEMMA ValuesAre == 0 \in Values /\ Undefined \in Values /\ 0..MaxWrites \subseteq Values
BY ContextConstants DEF Values, Undefined

LEMMA LoadTypes ==
  ASSUME TypeOK, NEW r \in Rows \cup {NoRow}, Load(r)
  PROVE  /\ gen' \in Nat /\ loading' \in BOOLEAN /\ broken' \in BOOLEAN /\ raced' \subseteq Fields
         /\ loads' \subseteq Loading'
         /\ shown' \in [Fields -> [row : Rows \cup {NoRow}, val : Values]]
<1>1. gen' = gen + 1 /\ gen \in Nat /\ broken' = FALSE /\ raced' = {}
  BY DEF TypeOK, Load
<1>2. \A l \in loads : l \in Loading'
  BY <1>1 DEF TypeOK, Loading
<1>3. loading \in BOOLEAN /\ shown \in [Fields -> [row : Rows \cup {NoRow}, val : Values]]
  BY DEF TypeOK
<1>4. gen' \in Nat /\ broken' \in BOOLEAN /\ raced' \subseteq Fields
  <2>1. gen' \in Nat
    BY <1>1
  <2>2. broken' \in BOOLEAN
    BY <1>1
  <2>3. raced' \subseteq Fields
    BY <1>1
  <2>. QED BY <2>1, <2>2, <2>3
<1>5. CASE r = NoRow
  <2>1. loads' = loads /\ loading' = loading
    BY <1>5 DEF Load
  <2>2. shown' = [f \in Fields |-> [row |-> NoRow, val |-> Undefined]]
    BY <1>5 DEF Load
  <2>3. shown' \in [Fields -> [row : Rows \cup {NoRow}, val : Values]]
    BY <2>2, ValuesAre
  <2>4. loads' \subseteq Loading'
    BY <1>2, <2>1
  <2>5. loading' \in BOOLEAN
    BY <1>3, <2>1
  <2>. QED BY <1>4, <2>3, <2>4, <2>5
<1>6. CASE r # NoRow
  <2>1. Asked(gen', r, 1) \in Loading'
    BY <1>1, <1>6, FieldsAre, ValuesAre DEF Asked, Loading
  <2>2. loads' = loads \cup {Asked(gen', r, 1)} /\ loading' = TRUE /\ shown' = shown
    BY <1>6 DEF Load
  <2>3. loads' \subseteq Loading'
    BY <1>2, <2>1, <2>2
  <2>4. loading' \in BOOLEAN
    BY <2>2
  <2>. QED BY <1>3, <1>4, <2>2, <2>3, <2>4
<1>. QED BY <1>5, <1>6

LEMMA FaultTypes ==
  ASSUME TypeOK, Fault
  PROVE  faults' \in 0..MaxFaults
BY ContextConstants DEF TypeOK, Fault

LEMMA TypedTypes ==
  ASSUME TypeOK, NEW f \in Fields, Typed(f)
  PROVE  /\ stamp' \in 0..MaxWrites /\ stamp' \in Values
         /\ shown' \in [Fields -> [row : Rows \cup {NoRow}, val : Values]]
         /\ \A g \in Fields : shown'[g].row = shown[g].row
         /\ \A g \in Fields \ {f} : shown'[g] = shown[g]
         /\ shown'[f].val = stamp'
<1>1. stamp' = stamp + 1 /\ stamp' \in 0..MaxWrites /\ stamp' \in Values
  <2>1. stamp' = stamp + 1 /\ stamp < MaxWrites /\ stamp \in Nat /\ MaxWrites \in Nat
    BY ContextConstants DEF TypeOK, Typed
  <2>2. stamp' \in 0..MaxWrites
    BY <2>1
  <2>. QED BY <2>1, <2>2, ValuesAre
<1>2. /\ shown' = [shown EXCEPT ![f] = [shown[f] EXCEPT !.val = stamp']]
      /\ shown \in [Fields -> [row : Rows \cup {NoRow}, val : Values]]
  BY DEF TypeOK, Typed
<1>3. /\ [shown[f] EXCEPT !.val = stamp'] \in [row : Rows \cup {NoRow}, val : Values]
      /\ [shown[f] EXCEPT !.val = stamp'].row = shown[f].row
      /\ [shown[f] EXCEPT !.val = stamp'].val = stamp'
  BY <1>1, <1>2
<1>. QED BY <1>1, <1>2, <1>3

LEMMA WriteTypes ==
  ASSUME TypeOK, NEW r \in Rows, NEW f \in Fields, NEW v \in Values, NEW own \in BOOLEAN,
         Write(r, f, v, own)
  PROVE  /\ server' \in [Rows -> [Fields -> Values]]
         /\ server'[r][f] = v
         /\ \A x \in Rows, y \in Fields : ~(x = r /\ y = f) => server'[x][y] = server[x][y]
         /\ feed' \in Seq(Message)
<1>1. /\ server' = [server EXCEPT ![r] = [server[r] EXCEPT ![f] = v]]
      /\ server \in [Rows -> [Fields -> Values]] /\ feed \in Seq(Message)
  BY DEF TypeOK, Write, Message
<1>2. /\ [server[r] EXCEPT ![f] = v] \in [Fields -> Values]
      /\ [server[r] EXCEPT ![f] = v][f] = v
      /\ \A y \in Fields \ {f} : [server[r] EXCEPT ![f] = v][y] = server[r][y]
  BY <1>1
<1>3. /\ server' \in [Rows -> [Fields -> Values]]
      /\ server'[r] = [server[r] EXCEPT ![f] = v]
      /\ \A x \in Rows \ {r} : server'[x] = server[x]
  BY <1>1, <1>2
<1>4. [row |-> r, field |-> f, val |-> v, own |-> own] \in Message
  BY DEF Message
<1>5. feed' \in Seq(Message)
  BY <1>1, <1>4, Push DEF Write
<1>. QED BY <1>2, <1>3, <1>5

LEMMA PaintedTypes ==
  ASSUME TypeOK, NEW l \in loads, Painted(l)
  PROVE  /\ loading' \in BOOLEAN /\ raced' \subseteq Fields
         /\ loads' \subseteq Loading
         /\ shown' \in [Fields -> [row : Rows \cup {NoRow}, val : Values]]
<1>1. /\ l \in Loading /\ l.field \in Fields /\ l.id \in Rows /\ l.val \in Values
      /\ loads \subseteq Loading /\ l.gen \in 1..gen
  BY DEF TypeOK, Loading
<1>2. CASE l.gen # gen
  BY <1>1, <1>2 DEF TypeOK, Painted
<1>3. CASE l.gen = gen
  <2>1. /\ raced' \subseteq Fields
        /\ shown' \in [Fields -> [row : Rows \cup {NoRow}, val : Values]]
    <3>1. shown' = [shown EXCEPT ![l.field] = [row |-> l.id, val |-> l.val]]
      BY <1>3 DEF Painted
    <3>2. [row |-> l.id, val |-> l.val] \in [row : Rows \cup {NoRow}, val : Values]
      BY <1>1
    <3>. QED BY <1>1, <1>3, <3>1, <3>2 DEF TypeOK, Painted
  <2>2. CASE l.field < NumFields
    <3>1. l.field + 1 \in Fields
      BY <1>1, <2>2, ContextConstants DEF Fields
    <3>2. Asked(l.gen, l.id, l.field + 1) \in Loading
      BY <1>1, <3>1, ValuesAre DEF Asked, Loading
    <3>3. loads' = (loads \ {l}) \cup {Asked(l.gen, l.id, l.field + 1)} /\ loading' = loading
      BY <1>3, <2>2 DEF Painted
    <3>. QED BY <1>1, <2>1, <3>2, <3>3 DEF TypeOK
  <2>3. CASE ~(l.field < NumFields)
    <3>1. loads' = loads \ {l} /\ loading' = FALSE
      BY <1>3, <2>3 DEF Painted
    <3>. QED BY <1>1, <2>1, <3>1
  <2>. QED BY <2>2, <2>3
<1>. QED BY <1>2, <1>3

LEMMA LoadsTyped ==
  ASSUME TypeOK
  PROVE  /\ loads \subseteq Loading /\ gen \in Nat /\ feed \in Seq(Message)
         /\ edits \subseteq [row : Rows, field : Fields, val : Values]
         /\ selected \in Rows \cup {NoRow}
         /\ \A l \in loads : /\ l.gen \in 1..gen /\ l.id \in Rows /\ l.field \in Fields
                             /\ l.val \in Values /\ l.late \in BOOLEAN
                             /\ l.status \in {"asked", "answered"}
BY DEF TypeOK, Loading, Message

LEMMA TypesFrom ==
  ASSUME TypeOK,
         server' \in [Rows -> [Fields -> Values]],
         stamp' \in 0..MaxWrites, selects' \in 0..MaxSelects, faults' \in 0..MaxFaults,
         selected' \in Rows \cup {NoRow}, gen' \in Nat, heals' \in Nat,
         loading' \in BOOLEAN, up' \in BOOLEAN, broken' \in BOOLEAN, raced' \subseteq Fields,
         loads' \subseteq Loading',
         shown' \in [Fields -> [row : Rows \cup {NoRow}, val : Values]],
         edits' \subseteq [row : Rows, field : Fields, val : Values],
         feed' \in Seq(Message)
  PROVE  TypeOK'
BY DEF TypeOK, Loading, Message

LEMMA TypeStep ==
  ASSUME TypeOK, [Next]_vars
  PROVE  TypeOK'
<1>. USE DEF wire
<1>1. /\ server \in [Rows -> [Fields -> Values]]
      /\ stamp \in 0..MaxWrites /\ selects \in 0..MaxSelects /\ faults \in 0..MaxFaults
      /\ selected \in Rows \cup {NoRow} /\ gen \in Nat /\ heals \in Nat
      /\ loading \in BOOLEAN /\ up \in BOOLEAN /\ broken \in BOOLEAN /\ raced \subseteq Fields
      /\ loads \subseteq Loading
      /\ shown \in [Fields -> [row : Rows \cup {NoRow}, val : Values]]
      /\ edits \subseteq [row : Rows, field : Fields, val : Values]
      /\ feed \in Seq(Message)
  BY DEF TypeOK, Loading, Message
<1>2. gen' = gen => Loading' = Loading
  BY DEF Loading
<1>3. ASSUME NEW r \in Rows \cup {NoRow}, Select(r) PROVE TypeOK'
  <2>1. selects' \in 0..MaxSelects /\ selected' \in Rows \cup {NoRow}
    BY <1>1, <1>3, ContextConstants DEF Select
  <2>2. Load(r) /\ UNCHANGED <<stamp, faults, server, edits, feed, up, heals>>
    BY <1>3 DEF Select
  <2>3. /\ gen' \in Nat /\ loading' \in BOOLEAN /\ broken' \in BOOLEAN /\ raced' \subseteq Fields
        /\ loads' \subseteq Loading'
        /\ shown' \in [Fields -> [row : Rows \cup {NoRow}, val : Values]]
    BY <2>2, LoadTypes
  <2>. QED BY <1>1, <2>1, <2>2, <2>3, TypesFrom
<1>4. ASSUME NEW l \in loads, Serve(l) PROVE TypeOK'
  <2>1. UNCHANGED <<server, stamp, selects, faults, selected, gen, loading, shown, edits,
                    feed, up, heals, broken, raced>>
    BY <1>4 DEF Serve
  <2>2. /\ l \in Loading /\ l.id \in Rows /\ l.field \in Fields
        /\ server[l.id][l.field] \in Values
    BY <1>1 DEF Loading
  <2>. DEFINE k == [l EXCEPT !.status = "answered", !.val = server[l.id][l.field],
                             !.late = Unapplied(l.id, l.field) # {}]
  <2>3. k \in Loading
    BY <2>2 DEF Loading
  <2>4. loads' \subseteq Loading'
    BY <1>1, <1>2, <1>4, <2>1, <2>3 DEF Serve
  <2>. QED BY <1>1, <2>1, <2>4, TypesFrom
<1>5. ASSUME NEW l \in loads, ServeRefused(l) PROVE TypeOK'
  <2>1. UNCHANGED <<server, stamp, selects, selected, gen, loading, shown, edits,
                    feed, up, heals, broken, raced>> /\ Fault
    BY <1>5 DEF ServeRefused
  <2>2. [l EXCEPT !.status = "answered", !.late = TRUE] \in Loading
    BY <1>1 DEF Loading
  <2>3. loads' \subseteq Loading'
    BY <1>1, <1>2, <1>5, <2>1, <2>2 DEF ServeRefused
  <2>. QED BY <1>1, <2>1, <2>3, TypesFrom, FaultTypes
<1>6. ASSUME NEW l \in loads, Arrives(l) PROVE TypeOK'
  <2>1. UNCHANGED <<server, stamp, selects, faults, selected, gen, edits,
                    feed, up, heals, broken>> /\ Painted(l)
    BY <1>6 DEF Arrives
  <2>2. /\ loading' \in BOOLEAN /\ raced' \subseteq Fields /\ loads' \subseteq Loading
        /\ shown' \in [Fields -> [row : Rows \cup {NoRow}, val : Values]]
    BY <2>1, PaintedTypes
  <2>. QED BY <1>1, <1>2, <2>1, <2>2, TypesFrom
<1>7. ASSUME NEW l \in loads, Fails(l) PROVE TypeOK'
  <2>1. UNCHANGED <<server, stamp, selects, selected, gen, shown, edits,
                    feed, up, heals>> /\ Fault
    BY <1>7 DEF Fails
  <2>2. /\ loading' \in BOOLEAN /\ broken' \in BOOLEAN /\ raced' \subseteq Fields
        /\ loads' \subseteq Loading
    BY <1>1, <1>7 DEF Fails
  <2>. QED BY <1>1, <1>2, <2>1, <2>2, TypesFrom, FaultTypes
<1>8. ASSUME NEW f \in Fields, Key(f) PROVE TypeOK'
  <2>1. UNCHANGED <<server, selects, faults, selected, gen, loading, loads, feed,
                    up, heals, broken>> /\ Typed(f)
    BY <1>8 DEF Key
  <2>2. /\ stamp' \in 0..MaxWrites /\ stamp' \in Values
        /\ shown' \in [Fields -> [row : Rows \cup {NoRow}, val : Values]]
    BY <2>1, TypedTypes
  <2>. DEFINE e == [row |-> selected, field |-> f, val |-> stamp']
  <2>3. selected # NoRow => e \in [row : Rows, field : Fields, val : Values]
    BY <1>1, <2>2
  <2>. HIDE DEF e
  <2>4. /\ raced' = raced \/ raced' = raced \cup {f}
        /\ edits' = edits \/ (selected # NoRow /\ edits' = edits \cup {e})
    BY <1>8 DEF Key, e
  <2>5. raced' \subseteq Fields /\ edits' \subseteq [row : Rows, field : Fields, val : Values]
    BY <1>1, <2>3, <2>4
  <2>. QED BY <1>1, <1>2, <2>1, <2>2, <2>5, TypesFrom
<1>9. ASSUME NEW e \in edits, EditApplied(e) PROVE TypeOK'
  <2>1. /\ UNCHANGED <<stamp, selects, faults, selected, gen, loading, loads, shown, up,
                       heals, broken, raced>>
        /\ edits' = edits \ {e} /\ Write(e.row, e.field, e.val, TRUE)
    BY <1>9 DEF EditApplied
  <2>2. e.row \in Rows /\ e.field \in Fields /\ e.val \in Values /\ TRUE \in BOOLEAN
    BY <1>1
  <2>3. server' \in [Rows -> [Fields -> Values]] /\ feed' \in Seq(Message)
    BY <2>1, <2>2, WriteTypes
  <2>4. edits' \subseteq [row : Rows, field : Fields, val : Values]
    BY <1>1, <2>1
  <2>. QED BY <1>1, <1>2, <2>1, <2>3, <2>4, TypesFrom
<1>10. ASSUME NEW r \in Rows, NEW f \in Fields, ForeignWrite(r, f) PROVE TypeOK'
  <2>1. /\ UNCHANGED <<selects, faults, selected, gen, loading, loads, shown, edits, up,
                       heals, broken, raced>>
        /\ stamp < MaxWrites /\ stamp' = stamp + 1 /\ Write(r, f, stamp', FALSE)
    BY <1>10 DEF ForeignWrite
  <2>2. stamp' \in 0..MaxWrites /\ stamp' \in Values /\ FALSE \in BOOLEAN
    <3>1. stamp \in Nat /\ MaxWrites \in Nat
      BY <1>1, ContextConstants
    <3>2. stamp' \in 0..MaxWrites
      BY <2>1, <3>1
    <3>. QED BY <3>2, ValuesAre
  <2>. DEFINE v == stamp'
  <2>3. v \in Values /\ Write(r, f, v, FALSE)
    BY <2>1, <2>2
  <2>. HIDE DEF v
  <2>4. server' \in [Rows -> [Fields -> Values]] /\ feed' \in Seq(Message)
    BY <2>3, WriteTypes
  <2>. QED BY <1>1, <1>2, <2>1, <2>2, <2>4, TypesFrom
<1>11. ASSUME Deliver PROVE TypeOK'
  <2>1. /\ UNCHANGED <<server, stamp, selects, faults, selected, gen, loading, edits, up,
                       heals, broken>>
        /\ feed # <<>> /\ feed' = Tail(feed)
    BY <1>11 DEF Deliver
  <2>2. Tail(feed) \in Seq(Message) /\ Head(feed) \in Message
    BY <1>1, <2>1, DropHead
  <2>. DEFINE m == Head(feed)
              news == [row |-> m.row, val |-> m.val]
              Overtaken(l) == IF l.id = m.row /\ l.field = m.field /\ l.status = "answered"
                              THEN [l EXCEPT !.late = TRUE] ELSE l
  <2>3. m.row \in Rows /\ m.field \in Fields /\ m.val \in Values
    BY <2>2 DEF Message
  <2>4. loads' = {Overtaken(l) : l \in loads}
    BY <1>11 DEF Deliver
  <2>5. \A l \in loads : Overtaken(l) \in Loading
    BY <1>1 DEF Loading
  <2>6. /\ \/ shown' = shown
           \/ shown' = [shown EXCEPT ![m.field] = news]
        /\ raced' \in {raced, raced \cup {m.field}, raced \ {m.field}}
    BY <1>11 DEF Deliver
  <2>7. news \in [row : Rows \cup {NoRow}, val : Values]
    BY <2>3
  <2>. HIDE DEF m, news, Overtaken
  <2>8. loads' \subseteq Loading' /\ raced' \subseteq Fields
    BY <1>1, <1>2, <2>1, <2>3, <2>4, <2>5, <2>6
  <2>9. shown' \in [Fields -> [row : Rows \cup {NoRow}, val : Values]]
    BY <1>1, <2>6, <2>7
  <2>. QED BY <1>1, <2>1, <2>2, <2>8, <2>9, TypesFrom
<1>12. ASSUME FeedDrops PROVE TypeOK'
  <2>1. /\ UNCHANGED <<server, stamp, selects, selected, gen, loading, loads, shown, edits,
                       heals, broken, raced>>
        /\ Fault /\ feed' = <<>> /\ up' = FALSE
    BY <1>12 DEF FeedDrops
  <2>2. feed' \in Seq(Message)
    BY <2>1
  <2>3. up' \in BOOLEAN
    BY <2>1
  <2>. QED BY <1>1, <1>2, <2>1, <2>2, <2>3, TypesFrom, FaultTypes
<1>13. ASSUME FeedOpens PROVE TypeOK'
  <2>1. /\ UNCHANGED <<server, stamp, selects, faults, selected, gen, loading, loads, shown,
                       edits, feed, broken, raced>>
        /\ heals' = heals + 1 /\ up' = TRUE
    BY <1>13 DEF FeedOpens
  <2>2. up' \in BOOLEAN
    BY <2>1
  <2>3. heals' \in Nat
    BY <1>1, <2>1
  <2>. QED BY <1>1, <1>2, <2>1, <2>2, <2>3, TypesFrom
<1>14. ASSUME Refetch PROVE TypeOK'
  <2>1. /\ UNCHANGED <<server, stamp, selects, faults, selected, edits, feed, up>>
        /\ heals > 0 /\ heals' = heals - 1 /\ Load(selected)
    BY <1>14 DEF Refetch
  <2>2. heals' \in Nat
    BY <1>1, <2>1
  <2>3. /\ gen' \in Nat /\ loading' \in BOOLEAN /\ broken' \in BOOLEAN /\ raced' \subseteq Fields
        /\ loads' \subseteq Loading'
        /\ shown' \in [Fields -> [row : Rows \cup {NoRow}, val : Values]]
    BY <1>1, <2>1, LoadTypes
  <2>. QED BY <1>1, <2>1, <2>2, <2>3, TypesFrom
<1>15. CASE UNCHANGED vars
  BY <1>15 DEF vars, TypeOK
<1>. QED BY <1>3, <1>4, <1>5, <1>6, <1>7, <1>8, <1>9, <1>10, <1>11, <1>12, <1>13, <1>14,
            <1>15 DEF Next

-----------------------------------------------------------------------------
(* The steps.  Parts names what each has to keep besides the types.        *)

Parts == FeedTells /\ Current /\ Filled /\ AnswersSound /\ FieldsSound

\* A load starts: every field is to be painted by it.
LEMMA LoadStep ==
  ASSUME IInv, NEW r \in Rows \cup {NoRow}, Load(r), selected' = r,
         UNCHANGED <<server, edits, feed, up>>
  PROVE  Parts'
<1>1. /\ gen' = gen + 1 /\ gen \in Nat /\ \A l \in loads : l.gen \in 1..gen
      /\ broken' = FALSE /\ raced' = {}
  BY LoadsTyped DEF IInv, Load
<1>2. \A l \in loads : l.gen # gen'
  BY <1>1
<1>3. FeedTells'
  BY DEF IInv, FeedTells
<1>4. CASE r = NoRow
  <2>1. loads' = loads
    BY <1>4 DEF Load
  <2>2. Current'
    BY <1>2, <2>1 DEF IInv, Current
  <2>3. Filled' /\ AnswersSound' /\ FieldsSound'
    BY <1>4 DEF Filled, AnswersSound, FieldsSound, Live
  <2>. QED BY <1>3, <2>2, <2>3 DEF Parts
<1>5. CASE r # NoRow
  <2>. DEFINE k == Asked(gen', r, 1)
  <2>1. loads' = loads \cup {k} /\ loading' = TRUE
    BY <1>5 DEF Load
  <2>2. k.gen = gen' /\ k.id = r /\ k.field = 1 /\ k.status = "asked"
    BY DEF Asked
  <2>. HIDE DEF k
  <2>3. \A f \in Fields : 1 <= f
    BY FieldsAre DEF Fields
  <2>4. \A l \in loads' : l.gen = gen' => l = k
    BY <1>2, <2>1
  <2>5. Current'
    <3>1. \A l, j \in loads' : l.gen = j.gen => l = j
      BY <1>2, <2>1, <2>2 DEF IInv, Current
    <3>2. \A l \in loads' : l.gen = gen' => /\ loading' /\ l.id = selected'
                                            /\ \A f \in Fields : ~(f < l.field)
      BY <2>1, <2>2, <2>3, <2>4, FieldsAre
    <3>. QED BY <3>1, <3>2 DEF Current
  <2>6. Filled'
    BY <2>1 DEF Filled
  <2>7. AnswersSound'
    BY <2>2, <2>4 DEF AnswersSound
  <2>8. FieldsSound'
    <3>1. \A f \in Fields : Painting(f)'
      BY <2>1, <2>2, <2>3 DEF Painting
    <3>. QED BY <3>1 DEF FieldsSound
  <2>. QED BY <1>3, <2>5, <2>6, <2>7, <2>8 DEF Parts
<1>. QED BY <1>4, <1>5

\* An answer comes back for a fetch.
LEMMA AnswerStep ==
  ASSUME IInv, NEW l \in loads, NEW k, loads' = (loads \ {l}) \cup {k},
         k.gen = l.gen, k.id = l.id, k.field = l.field,
         ~k.late => Unapplied(l.id, l.field) = {} /\ k.val = server[l.id][l.field],
         UNCHANGED <<server, selected, gen, loading, shown, edits, feed, up, heals, broken, raced>>
  PROVE  Parts'
<1>1. FeedTells' /\ Filled'
  BY DEF IInv, FeedTells, Filled
<1>2. Current'
  <2>1. \A a, b \in loads' : a.gen = b.gen => a = b
    BY DEF IInv, Current
  <2>2. \A a \in loads' : a.gen = gen => /\ loading /\ a.id = selected
                                         /\ \A f \in Fields : f < a.field => shown[f].row = selected
    BY DEF IInv, Current
  <2>. QED BY <2>1, <2>2 DEF Current
<1>3. Live' = Live
  BY DEF Live
<1>4. AnswersSound'
  <2>. SUFFICES ASSUME Live', NEW a \in loads', a.gen = gen', a.status = "answered", ~a.late
                PROVE  Unapplied(selected, a.field)' = {} /\ Sound(a.val, selected, a.field)'
    BY DEF AnswersSound
  <2>1. CASE a = k
    <3>1. l.id = selected /\ l.gen = gen
      BY <2>1 DEF IInv, Current
    <3>2. Unapplied(selected, a.field) = {} /\ a.val = server[selected][a.field]
      BY <2>1, <3>1
    <3>. QED BY <3>2 DEF Unapplied, Sound
  <2>2. CASE a # k
    <3>1. Unapplied(selected, a.field) = {} /\ Sound(a.val, selected, a.field)
      BY <1>3, <2>2 DEF IInv, AnswersSound
    <3>. QED BY <3>1 DEF Unapplied, Sound
  <2>. QED BY <2>1, <2>2
<1>5. FieldsSound'
  <2>1. \A f \in Fields : Painting(f)' <=> Painting(f)
    BY DEF Painting
  <2>2. \A f \in Fields : FieldSound(f) => FieldSound(f)'
    BY DEF FieldSound, Unapplied, Sound
  <2>. QED BY <1>3, <2>1, <2>2 DEF IInv, FieldsSound
<1>. QED BY <1>1, <1>2, <1>4, <1>5 DEF Parts

\* The loads of earlier generations change nothing but themselves.
LEMMA StaleStep ==
  ASSUME IInv, NEW l \in loads, l.gen # gen, loads' = loads \ {l},
         UNCHANGED <<server, selected, gen, loading, shown, edits, feed, up, heals, broken, raced>>
  PROVE  Parts'
<1>1. FeedTells' /\ Filled'
  BY DEF IInv, FeedTells, Filled
<1>2. Current'
  BY DEF IInv, Current
<1>3. Live' = Live
  BY DEF Live
<1>4. AnswersSound'
  BY <1>3 DEF IInv, AnswersSound, Unapplied, Sound
<1>5. \A f \in Fields : Painting(f)' <=> Painting(f)
  BY DEF Painting
<1>6. \A f \in Fields : FieldSound(f) => FieldSound(f)'
  BY DEF FieldSound, Unapplied, Sound
<1>7. FieldsSound'
  BY <1>3, <1>5, <1>6 DEF IInv, FieldsSound
<1>. QED BY <1>1, <1>2, <1>4, <1>7 DEF Parts

\* What a field shows, and what is on its way for it, is kept by a step that
\* leaves its text, its own writes and the row selected alone.
LEMMA FieldKept ==
  ASSUME NEW f \in Fields, FieldSound(f), selected' = selected, shown'[f].val = shown[f].val,
         Unapplied(selected, f)' = Unapplied(selected, f),
         \A v : Sound(v, selected, f) => Sound(v, selected, f)'
  PROVE  FieldSound(f)'
<1>. DEFINE U == Unapplied(selected, f)
            v == shown[f].val
<1>1. U' = U /\ v' = v
  OBVIOUS
<1>2. Sound(v, selected, f) => Sound(v, selected, f)'
  OBVIOUS
<1>. QED BY <1>1, <1>2 DEF FieldSound

LEMMA PaintStep ==
  ASSUME IInv, NEW l \in loads, l.gen = gen, l.status = "answered", Painted(l),
         UNCHANGED <<server, selected, gen, edits, feed, up, heals, broken>>
  PROVE  Parts'
<1>1. /\ shown \in [Fields -> [row : Rows \cup {NoRow}, val : Values]]
      /\ l.field \in Fields /\ l.id = selected /\ loading
      /\ \A f \in Fields : f < l.field => shown[f].row = selected
      /\ \A k \in loads : k.gen = gen => k = l
  BY LoadsTyped DEF IInv, TypeOK, Current
<1>2. /\ shown' = [shown EXCEPT ![l.field] = [row |-> l.id, val |-> l.val]]
      /\ l.late => raced' = raced \cup {l.field}
      /\ ~l.late => raced' = raced \ {l.field}
  BY DEF Painted
<1>3. /\ shown'[l.field].row = selected /\ shown'[l.field].val = l.val
      /\ \A f \in Fields \ {l.field} : shown'[f] = shown[f]
  BY <1>1, <1>2
<1>4. \A f \in Fields : f <= l.field => shown'[f].row = selected
  BY <1>1, <1>3 DEF Fields
<1>5. FeedTells'
  BY DEF IInv, FeedTells
<1>6. Live' = Live
  BY DEF Live
<1>7. /\ Current' /\ Filled' /\ AnswersSound'
      /\ \A f \in Fields : ~Painting(f)' => f <= l.field
  <2>1. CASE l.field < NumFields
    <3>. DEFINE k == Asked(l.gen, l.id, l.field + 1)
    <3>1. loads' = (loads \ {l}) \cup {k} /\ loading' = loading
      BY <2>1 DEF Painted
    <3>2. /\ k.gen = gen /\ k.id = selected /\ k.field = l.field + 1 /\ k.status = "asked"
      BY <1>1 DEF Asked
    <3>. HIDE DEF k
    <3>3. \A a \in loads' : a.gen = gen => a = k
      BY <1>1, <3>1
    <3>4. \A f \in Fields : f < k.field => shown'[f].row = selected
      BY <1>1, <1>4, <3>2 DEF Fields
    <3>5. Current'
      <4>1. \A a, b \in loads' : a.gen = b.gen => a = b
        BY <3>1, <3>2, <3>3 DEF IInv, Current
      <4>. QED BY <1>1, <3>1, <3>2, <3>3, <3>4, <4>1 DEF Current
    <3>6. Filled'
      BY <1>1, <3>1 DEF Filled
    <3>7. AnswersSound'
      BY <3>2, <3>3 DEF AnswersSound
    <3>8. ASSUME NEW f \in Fields, ~Painting(f)' PROVE f <= l.field
      <4>1. k \in loads' /\ k.gen = gen'
        BY <3>1, <3>2
      <4>2. ~(k.field <= f)
        BY <3>8, <4>1 DEF Painting
      <4>. QED BY <1>1, <3>2, <4>2 DEF Fields
    <3>. QED BY <3>5, <3>6, <3>7, <3>8
  <2>2. CASE ~(l.field < NumFields)
    <3>1. loads' = loads \ {l} /\ loading' = FALSE
      BY <2>2 DEF Painted
    <3>2. \A a \in loads' : a.gen # gen
      BY <1>1, <3>1
    <3>3. \A f \in Fields : f <= l.field
      BY <1>1, <2>2, ContextConstants DEF Fields
    <3>4. Current'
      BY <3>1, <3>2 DEF IInv, Current
    <3>5. Filled'
      BY <1>4, <3>3 DEF Filled
    <3>6. AnswersSound'
      BY <3>2 DEF AnswersSound
    <3>. QED BY <3>3, <3>4, <3>5, <3>6
  <2>. QED BY <2>1, <2>2
<1>8. FieldsSound'
  <2>. SUFFICES ASSUME Live', NEW f \in Fields, f \notin raced', ~Painting(f)'
                PROVE  FieldSound(f)'
    BY DEF FieldsSound
  <2>1. CASE f = l.field
    <3>1. ~l.late
      BY <1>2, <2>1
    <3>2. Unapplied(selected, f) = {} /\ Sound(l.val, selected, f)
      BY <1>1, <1>6, <2>1, <3>1 DEF IInv, AnswersSound
    <3>3. Unapplied(selected, f)' = {}
      BY <3>2 DEF Unapplied
    <3>4. Sound(shown[f].val, selected, f)'
      BY <1>3, <2>1, <3>2 DEF Sound
    <3>. QED BY <3>3, <3>4 DEF FieldSound
  <2>2. CASE f # l.field
    <3>1. f < l.field
      BY <1>1, <1>7, <2>2 DEF Fields
    <3>2. ~Painting(f)
      BY <1>1, <3>1 DEF Painting, Fields
    <3>3. f \notin raced
      BY <1>2, <2>2
    <3>4. FieldSound(f)
      BY <1>6, <3>2, <3>3 DEF IInv, FieldsSound
    <3>5. shown'[f].val = shown[f].val
      BY <1>3, <2>2
    <3>6. Unapplied(selected, f)' = Unapplied(selected, f)
      BY DEF Unapplied
    <3>7. \A v : Sound(v, selected, f) => Sound(v, selected, f)'
      BY DEF Sound
    <3>. QED BY <3>4, <3>5, <3>6, <3>7, FieldKept
  <2>. QED BY <2>1, <2>2
<1>. QED BY <1>5, <1>7, <1>8 DEF Parts

LEMMA FailStep ==
  ASSUME IInv, NEW l \in loads, Fails(l)
  PROVE  Parts'
<1>1. /\ UNCHANGED <<server, selected, gen, shown, edits, feed, up, heals>>
      /\ loads' = loads \ {l}
  BY DEF Fails, wire
<1>2. CASE l.gen # gen
  <2>1. loading' = loading /\ raced' = raced
    BY <1>2 DEF Fails
  <2>2. broken' = broken
    <3>1. broken' = (broken \/ l.gen = gen) /\ broken \in BOOLEAN
      BY DEF Fails, IInv, TypeOK
    <3>. QED BY <1>2, <3>1
  <2>. QED BY <1>1, <1>2, <2>1, <2>2, StaleStep
<1>3. CASE l.gen = gen
  <2>1. loading' = FALSE /\ broken' = TRUE /\ raced' = raced \cup {f \in Fields : f >= l.field}
    BY <1>3 DEF Fails
  <2>2. \A a \in loads' : a.gen # gen
    BY <1>1, <1>3 DEF IInv, Current
  <2>3. FeedTells' /\ Filled' /\ AnswersSound'
    BY <1>1, <2>1, <2>2 DEF IInv, FeedTells, Filled, AnswersSound
  <2>4. Current'
    BY <1>1, <2>2 DEF IInv, Current
  <2>5. Live' = Live
    BY <1>1 DEF Live
  <2>6. ASSUME Live', NEW f \in Fields, f \notin raced' PROVE FieldSound(f)'
    <3>1. l.field \in Fields /\ f < l.field /\ f \notin raced
      BY <2>1, <2>6, LoadsTyped DEF IInv, Fields
    <3>2. ~Painting(f)
      BY <1>3, <3>1 DEF IInv, Current, Painting, Fields
    <3>3. FieldSound(f)
      BY <2>5, <2>6, <3>1, <3>2 DEF IInv, FieldsSound
    <3>4. Unapplied(selected, f)' = Unapplied(selected, f)
      BY <1>1 DEF Unapplied
    <3>5. \A v : Sound(v, selected, f) => Sound(v, selected, f)'
      BY <1>1 DEF Sound
    <3>. QED BY <1>1, <3>3, <3>4, <3>5, FieldKept
  <2>7. FieldsSound'
    BY <2>6 DEF FieldsSound
  <2>. QED BY <2>3, <2>4, <2>7 DEF Parts
<1>. QED BY <1>2, <1>3

\* A keystroke: suspended, unsent for want of a row, or sent.
LEMMA KeyStep ==
  ASSUME IInv, NEW f \in Fields, Key(f)
  PROVE  Parts'
<1>1. /\ UNCHANGED <<server, selected, gen, loading, loads, feed, up, heals, broken>>
      /\ Typed(f) /\ TypeOK
  BY DEF Key, IInv
<1>2. /\ \A g \in Fields : shown'[g].row = shown[g].row
      /\ \A g \in Fields \ {f} : shown'[g] = shown[g]
      /\ shown'[f].val = stamp'
  BY <1>1, TypedTypes
<1>3. FeedTells'
  BY <1>1 DEF IInv, FeedTells
<1>4. Current'
  BY <1>1, <1>2 DEF IInv, Current
<1>5. Filled'
  BY <1>1, <1>2 DEF IInv, Filled
<1>6. Live' = Live
  BY <1>1 DEF Live
<1>7. \A g \in Fields : Painting(g)' <=> Painting(g)
  BY <1>1 DEF Painting
<1>8. \A g \in Fields : \A v : Sound(v, selected, g) => Sound(v, selected, g)'
  BY <1>1 DEF Sound
<1>9. CASE selected = NoRow
  BY <1>1, <1>3, <1>4, <1>5, <1>9 DEF Parts, AnswersSound, FieldsSound, Live
<1>10. CASE selected # NoRow /\ loading
  <2>1. raced' = raced \cup {f} /\ edits' = edits
    BY <1>10 DEF Key
  <2>2. \A g \in Fields : Unapplied(selected, g)' = Unapplied(selected, g)
    BY <1>1, <2>1 DEF Unapplied
  <2>3. AnswersSound'
    BY <1>1, <1>6, <2>1 DEF IInv, AnswersSound, Unapplied, Sound
  <2>4. ASSUME Live', NEW g \in Fields, g \notin raced', ~Painting(g)' PROVE FieldSound(g)'
    <3>1. FieldSound(g) /\ shown'[g].val = shown[g].val
      BY <1>2, <1>6, <1>7, <2>1, <2>4 DEF IInv, FieldsSound
    <3>. QED BY <1>1, <1>8, <2>2, <3>1, FieldKept
  <2>. QED BY <1>3, <1>4, <1>5, <2>3, <2>4 DEF Parts, FieldsSound
<1>11. CASE selected # NoRow /\ ~loading
  <2>. DEFINE e == [row |-> selected, field |-> f, val |-> stamp']
  <2>1. /\ edits' = edits \cup {e}
        /\ raced' = IF Unapplied(selected, f) # {} THEN raced \cup {f} ELSE raced
    BY <1>11 DEF Key
  <2>2. e.row = selected /\ e.field = f /\ e.val = stamp'
    OBVIOUS
  <2>. HIDE DEF e
  <2>3. AnswersSound'
    BY <1>1, <1>11 DEF IInv, Current, AnswersSound
  <2>4. ASSUME Live', NEW g \in Fields, g \notin raced', ~Painting(g)' PROVE FieldSound(g)'
    <3>1. FieldSound(g)
      BY <1>6, <1>7, <2>1, <2>4 DEF IInv, FieldsSound
    <3>2. CASE g = f
      <4>1. Unapplied(selected, f) = {}
        BY <2>1, <2>4, <3>2
      <4>2. Unapplied(selected, f)' = {e}
        BY <1>1, <2>1, <2>2, <4>1 DEF Unapplied
      <4>. QED BY <1>2, <2>2, <3>2, <4>2 DEF FieldSound
    <3>3. CASE g # f
      <4>1. Unapplied(selected, g)' = Unapplied(selected, g)
        BY <1>1, <2>1, <2>2, <3>3 DEF Unapplied
      <4>. QED BY <1>1, <1>2, <1>8, <3>1, <3>3, <4>1, FieldKept
    <3>. QED BY <3>2, <3>3
  <2>. QED BY <1>3, <1>4, <1>5, <2>3, <2>4 DEF Parts, FieldsSound
<1>. QED BY <1>9, <1>10, <1>11

\* A write enters the feed: what was to heal a field elsewhere still does, and
\* the last broadcast tells the new value.
LEMMA WriteKeeps ==
  ASSUME IInv, NEW r \in Rows, NEW f \in Fields, NEW v \in Values, NEW own \in BOOLEAN,
         Write(r, f, v, own), up' = up
  PROVE  /\ FeedTells'
         /\ \A x \in Rows, y \in Fields : \A w : ~(x = r /\ y = f) /\ Sound(w, x, y) => Sound(w, x, y)'
         /\ \A w : w = v \/ (up /\ ~own) => Sound(w, r, f)'
<1>. DEFINE m == [row |-> r, field |-> f, val |-> v, own |-> own]
<1>1. /\ server'[r][f] = v
      /\ \A x \in Rows, y \in Fields : ~(x = r /\ y = f) => server'[x][y] = server[x][y]
  BY WriteTypes DEF IInv
<1>2. m \in Message /\ m.row = r /\ m.field = f /\ m.val = v /\ m.own = own
  BY DEF Message
<1>3. feed \in Seq(Message) /\ (~up => feed = <<>>)
  BY LoadsTyped DEF IInv, FeedTells
<1>4. (up => feed' = Append(feed, m)) /\ (~up => feed' = feed)
  BY DEF Write
<1>. HIDE DEF m
<1>5. ASSUME up
      PROVE  /\ Tells(feed', r, f, v) /\ (~own => Heals(feed', r, f))
             /\ \A x \in Rows, y \in Fields : ~(x = r /\ y = f) =>
                  /\ Heals(feed, x, y) => Heals(feed', x, y)
                  /\ \A s : Tells(feed, x, y, s) => Tells(feed', x, y, s)
  BY <1>2, <1>3, <1>4, <1>5, PushOn, PushOther
<1>6. ASSUME ~up
      PROVE  feed' = <<>> /\ feed = <<>> /\ \A x, y, s : Tells(feed', x, y, s)
  BY <1>3, <1>4, <1>6 DEF Tells
<1>7. \A x \in Rows, y \in Fields : Tells(feed', x, y, server'[x][y])
  <2>. SUFFICES ASSUME NEW x \in Rows, NEW y \in Fields PROVE Tells(feed', x, y, server'[x][y])
    OBVIOUS
  <2>1. Tells(feed, x, y, server[x][y])
    BY DEF IInv, FeedTells
  <2>2. CASE x = r /\ y = f
    BY <1>1, <1>5, <1>6, <2>2
  <2>3. CASE ~(x = r /\ y = f)
    BY <1>1, <1>5, <1>6, <2>1, <2>3
  <2>. QED BY <2>2, <2>3
<1>8. FeedTells'
  BY <1>6, <1>7 DEF FeedTells
<1>9. \A x \in Rows, y \in Fields : \A w : ~(x = r /\ y = f) /\ Sound(w, x, y) => Sound(w, x, y)'
  BY <1>1, <1>5, <1>6 DEF Sound
<1>10. \A w : w = v \/ (up /\ ~own) => Sound(w, r, f)'
  BY <1>1, <1>5 DEF Sound
<1>. QED BY <1>8, <1>9, <1>10

LEMMA EditStep ==
  ASSUME IInv, NEW e \in edits, EditApplied(e)
  PROVE  Parts'
<1>1. /\ UNCHANGED <<selected, gen, loading, loads, shown, up, heals, broken, raced>>
      /\ edits' = edits \ {e} /\ Write(e.row, e.field, e.val, TRUE)
      /\ e.row \in Rows /\ e.field \in Fields /\ e.val \in Values
  BY LoadsTyped DEF EditApplied, IInv
<1>2. /\ FeedTells'
      /\ \A x \in Rows, y \in Fields : \A w :
           ~(x = e.row /\ y = e.field) /\ Sound(w, x, y) => Sound(w, x, y)'
      /\ Sound(e.val, e.row, e.field)'
  BY <1>1, WriteKeeps, TRUE \in BOOLEAN
<1>3. Current' /\ Filled'
  BY <1>1 DEF IInv, Current, Filled
<1>4. Live' = Live
  BY <1>1 DEF Live
<1>5. Live => selected \in Rows
  BY LoadsTyped DEF IInv, Live
<1>6. ASSUME NEW f, ~(selected = e.row /\ f = e.field)
      PROVE  Unapplied(selected, f)' = Unapplied(selected, f)
  BY <1>1, <1>6 DEF Unapplied
<1>7. AnswersSound'
  <2>. SUFFICES ASSUME Live', NEW l \in loads, l.gen = gen, l.status = "answered", ~l.late
                PROVE  Unapplied(selected, l.field)' = {} /\ Sound(l.val, selected, l.field)'
    BY <1>1 DEF AnswersSound
  <2>1. Unapplied(selected, l.field) = {} /\ Sound(l.val, selected, l.field)
    BY <1>4 DEF IInv, AnswersSound
  <2>2. ~(selected = e.row /\ l.field = e.field)
    BY <2>1 DEF Unapplied
  <2>3. l.field \in Fields
    BY LoadsTyped DEF IInv
  <2>4. Sound(l.val, selected, l.field)'
    BY <1>1, <1>2, <1>4, <1>5, <2>1, <2>2, <2>3
  <2>. QED BY <1>6, <2>1, <2>2, <2>4
<1>8. ASSUME Live', NEW f \in Fields, f \notin raced', ~Painting(f)' PROVE FieldSound(f)'
  <2>1. FieldSound(f)
    BY <1>1, <1>4, <1>8 DEF IInv, FieldsSound, Painting
  <2>2. CASE selected = e.row /\ f = e.field
    <3>1. Unapplied(selected, f) = {e}
      BY <2>1, <2>2 DEF FieldSound, Unapplied
    <3>2. Unapplied(selected, f)' = {}
      BY <1>1, <3>1 DEF Unapplied
    <3>3. shown'[f].val = e.val
      BY <1>1, <2>1, <3>1 DEF FieldSound
    <3>. QED BY <1>1, <1>2, <2>2, <3>2, <3>3 DEF FieldSound
  <2>3. CASE ~(selected = e.row /\ f = e.field)
    <3>1. Unapplied(selected, f)' = Unapplied(selected, f)
      BY <1>6, <2>3
    <3>2. \A v : Sound(v, selected, f) => Sound(v, selected, f)'
      BY <1>1, <1>2, <1>4, <1>5, <1>8, <2>3
    <3>. QED BY <1>1, <2>1, <3>1, <3>2, FieldKept
  <2>. QED BY <2>2, <2>3
<1>. QED BY <1>2, <1>3, <1>7, <1>8 DEF Parts, FieldsSound

LEMMA ForeignStep ==
  ASSUME IInv, NEW r \in Rows, NEW g \in Fields, ForeignWrite(r, g), TypeOK'
  PROVE  Parts'
<1>1. /\ UNCHANGED <<selected, gen, loading, loads, shown, edits, up, heals, broken, raced>>
      /\ Write(r, g, stamp', FALSE)
  BY DEF ForeignWrite
<1>2. /\ FeedTells'
      /\ up => \A x \in Rows, y \in Fields : \A w : Sound(w, x, y) => Sound(w, x, y)'
  <2>. DEFINE v == stamp'
  <2>1. v \in Values
    BY ValuesAre DEF TypeOK
  <2>2. Write(r, g, v, FALSE) /\ up' = up
    BY <1>1
  <2>. HIDE DEF v
  <2>3. /\ FeedTells'
        /\ \A x \in Rows, y \in Fields : \A w :
             ~(x = r /\ y = g) /\ Sound(w, x, y) => Sound(w, x, y)'
        /\ \A w : w = v \/ (up /\ ~FALSE) => Sound(w, r, g)'
    BY <2>1, <2>2, WriteKeeps, FALSE \in BOOLEAN
  <2>. QED BY <2>3
<1>3. Current' /\ Filled'
  BY <1>1 DEF IInv, Current, Filled
<1>4. Live' = Live
  BY <1>1 DEF Live
<1>5. Live => up /\ selected \in Rows
  BY LoadsTyped DEF IInv, Live
<1>6. \A f : Unapplied(selected, f)' = Unapplied(selected, f)
  BY <1>1 DEF Unapplied
<1>7. AnswersSound'
  <2>. SUFFICES ASSUME Live', NEW l \in loads, l.gen = gen, l.status = "answered", ~l.late
                PROVE  Unapplied(selected, l.field)' = {} /\ Sound(l.val, selected, l.field)'
    BY <1>1 DEF AnswersSound
  <2>1. Unapplied(selected, l.field) = {} /\ Sound(l.val, selected, l.field)
    BY <1>4 DEF IInv, AnswersSound
  <2>2. l.field \in Fields
    BY LoadsTyped DEF IInv
  <2>3. Sound(l.val, selected, l.field)'
    BY <1>1, <1>2, <1>4, <1>5, <2>1, <2>2
  <2>. QED BY <1>6, <2>1, <2>3
<1>8. ASSUME Live', NEW f \in Fields, f \notin raced', ~Painting(f)' PROVE FieldSound(f)'
  <2>1. FieldSound(f)
    BY <1>1, <1>4, <1>8 DEF IInv, FieldsSound, Painting
  <2>2. \A v : Sound(v, selected, f) => Sound(v, selected, f)'
    BY <1>1, <1>2, <1>4, <1>5, <1>8
  <2>. QED BY <1>1, <1>6, <2>1, <2>2, FieldKept
<1>. QED BY <1>2, <1>3, <1>7, <1>8 DEF Parts, FieldsSound

LEMMA DeliverStep ==
  ASSUME IInv, Deliver
  PROVE  Parts'
<1>. DEFINE m == Head(feed)
            Overtaken(l) == IF l.id = m.row /\ l.field = m.field /\ l.status = "answered"
                            THEN [l EXCEPT !.late = TRUE] ELSE l
<1>1. /\ UNCHANGED <<server, selected, gen, loading, edits, up, heals, broken>>
      /\ feed # <<>> /\ feed' = Tail(feed)
      /\ loads' = {Overtaken(l) : l \in loads}
  BY DEF Deliver
<1>2. /\ loads \subseteq Loading /\ feed \in Seq(Message) /\ m \in Message
      /\ selected \in Rows \cup {NoRow}
      /\ shown \in [Fields -> [row : Rows \cup {NoRow}, val : Values]]
  BY <1>1, LoadsTyped, DropHead DEF IInv, TypeOK
<1>3. /\ m.row = selected /\ ~m.own =>
           /\ shown' = [shown EXCEPT ![m.field] = [row |-> m.row, val |-> m.val]]
           /\ raced' = IF Unechoed(m.row, m.field, feed')
                       THEN raced \cup {m.field} ELSE raced \ {m.field}
      /\ ~(m.row = selected /\ ~m.own) => shown' = shown /\ raced' = raced
  BY DEF Deliver
<1>4. ASSUME NEW l \in loads
      PROVE  /\ Overtaken(l).gen = l.gen /\ Overtaken(l).id = l.id
             /\ Overtaken(l).field = l.field /\ Overtaken(l).status = l.status
             /\ Overtaken(l).val = l.val
             /\ ~Overtaken(l).late => Overtaken(l) = l
             /\ ~Overtaken(l).late /\ l.status = "answered" => ~(m.row = l.id /\ m.field = l.field)
  <2>1. l \in Loading
    BY <1>2
  <2>. QED BY <2>1 DEF Loading
<1>5. m.row \in Rows /\ m.field \in Fields /\ m.val \in Values /\ m.own \in BOOLEAN
  BY <1>2 DEF Message
<1>. HIDE DEF m, Overtaken
<1>6. /\ m.row = selected /\ ~m.own =>
           /\ shown'[m.field].row = m.row /\ shown'[m.field].val = m.val
           /\ \A f \in Fields \ {m.field} : shown'[f] = shown[f]
      /\ \A f \in Fields : shown[f].row = selected => shown'[f].row = selected
  BY <1>2, <1>3, <1>5
<1>7. /\ \A x \in Rows, y \in Fields : Tells(Tail(feed), x, y, server[x][y])
      /\ ~up' => feed' = <<>>
  <2>1. ~up => feed = <<>>
    BY DEF IInv, FeedTells
  <2>2. \A x \in Rows, y \in Fields : Tells(feed, x, y, server[x][y])
    BY DEF IInv, FeedTells
  <2>. QED BY <1>1, <1>2, <2>1, <2>2, PopTells
<1>8. FeedTells'
  BY <1>1, <1>7 DEF FeedTells
<1>9. Current'
  <2>1. \A a, b \in loads' : a.gen = b.gen => a = b
    BY <1>1, <1>4 DEF IInv, Current
  <2>2. \A a \in loads' : a.gen = gen => /\ loading /\ a.id = selected
                                         /\ \A f \in Fields : f < a.field => shown[f].row = selected
    BY <1>1, <1>4 DEF IInv, Current
  <2>. QED BY <1>1, <1>6, <2>1, <2>2 DEF Current
<1>10. Filled'
  BY <1>1, <1>6 DEF IInv, Filled
<1>11. Live' = Live /\ (Live => selected \in Rows)
  BY <1>1, <1>2 DEF Live
<1>12. ASSUME NEW x \in Rows, NEW y \in Fields, NEW w,
              m.own \/ ~(m.row = x /\ m.field = y), Sound(w, x, y)
       PROVE  Sound(w, x, y)'
  <2>1. Heals(feed, x, y) => Heals(feed', x, y)
    BY <1>1, <1>2, <1>12, PopHeals DEF m
  <2>. QED BY <1>1, <1>12, <2>1 DEF Sound
<1>13. \A f : Unapplied(selected, f)' = Unapplied(selected, f)
  BY <1>1 DEF Unapplied
<1>14. AnswersSound'
  <2>. SUFFICES ASSUME Live', NEW a, NEW l \in loads, a = Overtaken(l), a.gen = gen,
                       a.status = "answered", ~a.late
                PROVE  Unapplied(selected, a.field)' = {} /\ Sound(a.val, selected, a.field)'
    BY <1>1 DEF AnswersSound
  <2>1. /\ l.gen = gen /\ l.status = "answered" /\ ~l.late
        /\ ~(m.row = l.id /\ m.field = l.field) /\ l.id = selected /\ l.field \in Fields
    BY <1>4, LoadsTyped DEF IInv, Current
  <2>2. Unapplied(selected, l.field) = {} /\ Sound(l.val, selected, l.field)
    BY <1>11, <2>1 DEF IInv, AnswersSound
  <2>3. Sound(l.val, selected, l.field)'
    BY <1>1, <1>11, <1>12, <2>1, <2>2
  <2>. QED BY <1>1, <1>4, <1>13, <2>2, <2>3
<1>15. ASSUME Live', NEW f \in Fields, f \notin raced', ~Painting(f)' PROVE FieldSound(f)'
  <2>1. ~Painting(f)
    BY <1>1, <1>4, <1>15 DEF Painting
  <2>2. CASE m.row = selected /\ ~m.own /\ f = m.field
    <3>1. ~Unechoed(m.row, m.field, feed')
      BY <1>3, <1>15, <2>2
    <3>2. /\ Unapplied(selected, f) = {}
          /\ \A i \in DOMAIN Tail(feed) : OnField(Tail(feed), i, m.row, m.field) => ~Tail(feed)[i].own
      BY <1>1, <2>2, <3>1 DEF Unechoed, OnField
    <3>3. Tells(feed, m.row, m.field, server[m.row][m.field])
      BY <1>5 DEF IInv, FeedTells
    <3>4. m.val = server[m.row][m.field] \/ Heals(Tail(feed), m.row, m.field)
      BY <1>1, <1>2, <3>2, <3>3, PaintedHead DEF m
    <3>5. Unapplied(selected, f)' = {}
      BY <1>13, <3>2
    <3>6. shown'[f].val = m.val
      BY <1>6, <2>2
    <3>7. Sound(shown[f].val, selected, f)'
      BY <1>1, <2>2, <3>4, <3>6 DEF Sound
    <3>. QED BY <3>5, <3>7 DEF FieldSound
  <2>3. CASE ~(m.row = selected /\ ~m.own /\ f = m.field)
    <3>1. shown'[f] = shown[f] /\ f \notin raced
      BY <1>3, <1>6, <1>15, <2>3
    <3>2. FieldSound(f)
      BY <1>11, <1>15, <2>1, <3>1 DEF IInv, FieldsSound
    <3>3. \A v : Sound(v, selected, f) => Sound(v, selected, f)'
      BY <1>1, <1>11, <1>12, <1>15, <2>3
    <3>. QED BY <1>1, <1>13, <3>1, <3>2, <3>3, FieldKept
  <2>. QED BY <2>2, <2>3
<1>. QED BY <1>8, <1>9, <1>10, <1>14, <1>15 DEF Parts, FieldsSound

LEMMA FeedStep ==
  ASSUME IInv, FeedDrops \/ FeedOpens
  PROVE  Parts'
<1>1. UNCHANGED <<server, selected, gen, loading, loads, shown, edits, broken, raced>>
  BY DEF FeedDrops, FeedOpens
<1>2. Current' /\ Filled'
  BY <1>1 DEF IInv, Current, Filled
<1>3. FeedTells'
  <2>1. CASE FeedDrops
    BY <2>1 DEF FeedDrops, FeedTells, Tells
  <2>2. CASE FeedOpens
    BY <2>2 DEF FeedOpens, IInv, FeedTells
  <2>. QED BY <2>1, <2>2
<1>4. ~Live'
  <2>1. CASE FeedDrops
    BY <2>1 DEF FeedDrops, Live
  <2>2. CASE FeedOpens
    <3>1. heals \in Nat /\ heals' = heals + 1
      BY <2>2 DEF FeedOpens, IInv, TypeOK
    <3>. QED BY <3>1 DEF Live
  <2>. QED BY <2>1, <2>2
<1>. QED BY <1>2, <1>3, <1>4 DEF Parts, AnswersSound, FieldsSound

-----------------------------------------------------------------------------
(* The invariant, and what follows from it.                                *)

LEMMA InvInit == Init => IInv
<1>. SUFFICES ASSUME Init PROVE IInv
  OBVIOUS
<1>1. TypeOK
  <2>1. /\ 0 \in 0..MaxWrites /\ 0 \in 0..MaxSelects /\ 0 \in 0..MaxFaults
        /\ 0 \in Values /\ Undefined \in Values
    BY ContextConstants, ValuesAre
  <2>2. server \in [Rows -> [Fields -> Values]]
    BY <2>1 DEF Init
  <2>3. shown \in [Fields -> [row : Rows \cup {NoRow}, val : Values]]
    BY <2>1 DEF Init
  <2>4. loads = {} /\ edits = {} /\ feed = <<>> /\ raced = {} /\ gen = 0 /\ heals = 0
    BY DEF Init
  <2>5. /\ stamp \in 0..MaxWrites /\ selects \in 0..MaxSelects /\ faults \in 0..MaxFaults
        /\ selected \in Rows \cup {NoRow}
    BY <2>1 DEF Init
  <2>6. {loading, up, broken} \subseteq BOOLEAN
    BY DEF Init
  <2>. QED BY <2>2, <2>3, <2>4, <2>5, <2>6 DEF TypeOK
<1>2. loads = {} /\ feed = <<>> /\ selected = NoRow
  BY DEF Init
<1>3. FeedTells
  BY <1>2 DEF FeedTells, Tells
<1>4. Current /\ Filled /\ AnswersSound /\ FieldsSound
  BY <1>2 DEF Current, Filled, AnswersSound, FieldsSound, Live
<1>. QED BY <1>1, <1>3, <1>4 DEF IInv

LEMMA InvNext == IInv /\ [Next]_vars => IInv'
<1>. SUFFICES ASSUME IInv, [Next]_vars PROVE IInv'
  OBVIOUS
<1>1. TypeOK'
  BY TypeStep DEF IInv
<1>. SUFFICES Parts'
  BY <1>1 DEF IInv, Parts
<1>2. ASSUME NEW r \in Rows \cup {NoRow}, Select(r) PROVE Parts'
  BY <1>2, LoadStep DEF Select, wire
<1>3. ASSUME NEW l \in loads, Serve(l) PROVE Parts'
  <2>1. l \in Loading /\ l.late \in BOOLEAN
    BY LoadsTyped DEF IInv, Loading
  <2>. DEFINE k == [l EXCEPT !.status = "answered", !.val = server[l.id][l.field],
                             !.late = Unapplied(l.id, l.field) # {}]
  <2>2. /\ k.gen = l.gen /\ k.id = l.id /\ k.field = l.field
        /\ ~k.late => Unapplied(l.id, l.field) = {} /\ k.val = server[l.id][l.field]
    BY <2>1 DEF Loading
  <2>3. /\ loads' = (loads \ {l}) \cup {k}
        /\ UNCHANGED <<server, selected, gen, loading, shown, edits, feed, up, heals,
                       broken, raced>>
    BY <1>3 DEF Serve, wire
  <2>. HIDE DEF k
  <2>. QED BY <2>2, <2>3, AnswerStep
<1>4. ASSUME NEW l \in loads, ServeRefused(l) PROVE Parts'
  <2>1. l \in Loading
    BY LoadsTyped DEF IInv
  <2>. DEFINE k == [l EXCEPT !.status = "answered", !.late = TRUE]
  <2>2. k.gen = l.gen /\ k.id = l.id /\ k.field = l.field /\ k.late
    BY <2>1 DEF Loading
  <2>3. /\ loads' = (loads \ {l}) \cup {k}
        /\ UNCHANGED <<server, selected, gen, loading, shown, edits, feed, up, heals,
                       broken, raced>>
    BY <1>4 DEF ServeRefused, wire
  <2>. HIDE DEF k
  <2>. QED BY <2>2, <2>3, AnswerStep
<1>5. ASSUME NEW l \in loads, Arrives(l) PROVE Parts'
  <2>1. /\ UNCHANGED <<server, selected, gen, edits, feed, up, heals, broken>>
        /\ Painted(l) /\ l.status = "answered"
    BY <1>5 DEF Arrives, wire
  <2>2. CASE l.gen = gen
    BY <2>1, <2>2, PaintStep
  <2>3. CASE l.gen # gen
    <3>1. loads' = loads \ {l} /\ UNCHANGED <<shown, raced, loading>>
      BY <2>1, <2>3 DEF Painted
    <3>. QED BY <2>1, <2>3, <3>1, StaleStep
  <2>. QED BY <2>2, <2>3
<1>6. ASSUME NEW l \in loads, Fails(l) PROVE Parts'
  BY <1>6, FailStep
<1>7. ASSUME NEW f \in Fields, Key(f) PROVE Parts'
  BY <1>7, KeyStep
<1>8. ASSUME NEW e \in edits, EditApplied(e) PROVE Parts'
  BY <1>8, EditStep
<1>9. ASSUME NEW r \in Rows, NEW f \in Fields, ForeignWrite(r, f) PROVE Parts'
  BY <1>1, <1>9, ForeignStep
<1>10. CASE Deliver
  BY <1>10, DeliverStep
<1>11. CASE FeedDrops \/ FeedOpens
  BY <1>11, FeedStep
<1>12. CASE Refetch
  <2>1. /\ selected \in Rows \cup {NoRow} /\ Load(selected) /\ selected' = selected
        /\ UNCHANGED <<server, edits, feed, up>>
    BY <1>12, LoadsTyped DEF Refetch, IInv
  <2>. QED BY <2>1, LoadStep
<1>13. CASE UNCHANGED vars
  BY <1>13 DEF vars, IInv, Parts, FeedTells, Tells, LastOn, OnField, Current, Filled, AnswersSound,
     FieldsSound, Live, Painting, FieldSound, Sound, Heals, Unapplied
<1>. QED
  BY <1>2, <1>3, <1>4, <1>5, <1>6, <1>7, <1>8, <1>9, <1>10, <1>11, <1>12, <1>13 DEF Next

\* A settled page loads nothing and waits for nothing, so a field that was not
\* raced is sound with an empty feed: it shows what the server holds.
LEMMA InvFresh == IInv => FreshUnlessRaced
<1>. SUFFICES ASSUME IInv, Settled, NEW f \in Fields, f \notin raced
              PROVE  shown[f].val = server[selected][f]
  BY DEF FreshUnlessRaced, IInv
<1>1. Live /\ ~Painting(f) /\ Unapplied(selected, f) = {} /\ feed = <<>>
  BY DEF Settled, Live, Painting, Unapplied
<1>2. Sound(shown[f].val, selected, f)
  BY <1>1 DEF IInv, FieldsSound, FieldSound
<1>3. ~Heals(feed, selected, f)
  BY <1>1 DEF Heals
<1>. QED BY <1>2, <1>3 DEF Sound

\* Outside the known races, what the context shows once everything has been
\* delivered is what the server holds: loadContext's generations
\* (wireClient.js:249-277), the echo rule and the refetch of a reopened feed
\* converge however answers, broadcasts, keystrokes and selections interleave.
THEOREM FreshAtRest == Spec => []FreshUnlessRaced
<1>1. Init => IInv
  BY InvInit
<1>2. IInv /\ [Next]_vars => IInv'
  BY InvNext
<1>3. IInv => FreshUnlessRaced
  BY InvFresh
<1>. QED BY <1>1, <1>2, <1>3, PTL DEF Spec

\* A keystroke is sent for the row whose text it was typed on, unless the load
\* of the selected row failed: the other rows' texts are never saved into it.
THEOREM SentForItsRow == Spec => MisfiledOnlyIfBroken
<1>. DEFINE Body == \A e \in edits' \ edits : shown[e.field].row = e.row \/ broken
<1>1. ASSUME IInv, Next PROVE Body
  <2>1. ASSUME NEW f \in Fields, Key(f), NEW e \in edits' \ edits
        PROVE  shown[e.field].row = e.row \/ broken
    <3>1. selected # NoRow /\ ~loading /\ e.row = selected /\ e.field = f
      BY <2>1 DEF Key
    <3>. QED BY <1>1, <2>1, <3>1 DEF IInv, Filled
  <2>2. (\E f \in Fields : Key(f)) \/ edits' \subseteq edits
    BY <1>1 DEF Next, Select, Serve, ServeRefused, Arrives, Fails, EditApplied, ForeignWrite,
       Deliver, FeedDrops, FeedOpens, Refetch, wire
  <2>. QED BY <2>1, <2>2
<1>2. IInv /\ [Next]_vars => [Body]_vars
  BY <1>1
<1>3. Init => IInv
  BY InvInit
<1>4. IInv /\ [Next]_vars => IInv'
  BY InvNext
<1>. QED BY <1>2, <1>3, <1>4, PTL DEF Spec, MisfiledOnlyIfBroken

=============================================================================
