------------------------------- MODULE Router --------------------------------
(***************************************************************************)
(* The two directions of URL <-> state (src/runtime/router.js): a URL is   *)
(* matched against the routes and gives the assignments of one of them;    *)
(* the state is matched against the assignments of the routes, in their    *)
(* declaration order, and gives the URL of the first that fits.            *)
(*                                                                         *)
(* A URL is the sequence of its non-empty segments.  A segment of a route  *)
(* is a literal or a parameter, an assignment takes a literal or the value *)
(* of a parameter.  Coerce and Encode are the conversions between the text *)
(* of a segment and a value: digit-only texts become numbers, so several   *)
(* texts may give one value, and a value has one text.                     *)
(***************************************************************************)
EXTENDS Naturals, Sequences

CONSTANTS
    Routes,     \* sequence of [segs, sets], in declaration order
    Texts,      \* texts of URL segments
    Coerce,     \* [Texts -> values]
    Encode,     \* [values -> Texts]
    Blank       \* the empty value: undefined, null or ""

Lit(text) == [param |-> FALSE, name |-> text]
Param(name) == [param |-> TRUE, name |-> name]
SetValue(field, value) == [field |-> field, param |-> FALSE, value |-> value]
SetParam(field, name) == [field |-> field, param |-> TRUE, value |-> name]

Fits(route, url) ==
    /\ Len(route.segs) = Len(url)
    /\ \A i \in DOMAIN url : route.segs[i].param \/ route.segs[i].name = url[i]

First(test(_)) ==
    LET hits == {r \in DOMAIN Routes : test(Routes[r])}
    IN  IF hits = {} THEN 0 ELSE CHOOSE r \in hits : \A s \in hits : r <= s

\* match(): 0 when no route has the URL.
Match(url) == First(LAMBDA route : Fits(route, url))

ParamOf(route, url, name) ==
    LET at == {i \in DOMAIN url : route.segs[i] = Param(name)}
    IN  IF at = {} THEN Blank ELSE Coerce[url[CHOOSE i \in at : \A j \in at : j <= i]]

HasParams(route) == \E i \in DOMAIN route.segs : route.segs[i].param

\* The assignments a URL stands for: those of the route it matches, or of the
\* first route (with no parameters given) when it matches none.
Assignments(url) ==
    LET r == Match(url)
        route == IF r = 0 THEN Routes[1] ELSE Routes[r]
    IN  [i \in DOMAIN route.sets |->
            [path  |-> route.sets[i].field,
             value |-> IF ~route.sets[i].param THEN route.sets[i].value
                       ELSE IF r = 0 THEN Blank
                       ELSE ParamOf(route, url, route.sets[i].value)]]

\* replaceState: an unmatched URL is corrected to the first route's, when
\* that one needs no parameter.
Corrected(url) ==
    IF Match(url) = 0 /\ ~HasParams(Routes[1])
    THEN [i \in DOMAIN Routes[1].segs |-> Routes[1].segs[i].name]
    ELSE url

\* Does the state fit the route's assignments?  Literals are compared as text.
Holds(route, state) ==
    \A i \in DOMAIN route.sets :
        LET s == route.sets[i]
        IN  IF s.param THEN state[s.field] # Blank
            ELSE Encode[state[s.field]] = Encode[s.value]

BuildPath(route, state) ==
    [i \in DOMAIN route.segs |->
        LET seg == route.segs[i]
        IN  IF ~seg.param THEN seg.name
            ELSE LET s == CHOOSE k \in DOMAIN route.sets :
                              route.sets[k].param /\ route.sets[k].value = seg.name
                 IN  Encode[state[route.sets[s].field]]]

\* pathFromState(): <<>> is a URL ("/"), so "no route fits" is NoUrl.
NoUrl == <<"no-url">>
PathFromState(state) ==
    LET r == First(LAMBDA route : Holds(route, state))
    IN  IF r = 0 THEN NoUrl ELSE BuildPath(Routes[r], state)

\* Every field some route assigns: what the outward watcher subscribes to.
Targets == UNION {{route.sets[i].field : i \in DOMAIN route.sets} :
                     route \in {Routes[r] : r \in DOMAIN Routes}}
=============================================================================
