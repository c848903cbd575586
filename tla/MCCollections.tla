---------------------------- MODULE MCCollections ---------------------------
(* Two groups and three values of the ordered column; tables with every kind  *)
(* of filter, and a query with a parameter.                                    *)
EXTENDS Collections

CONSTANTS g1, g2

Coll(query, literals, ref, order) ==
    [query |-> query, literals |-> literals, ref |-> ref, order |-> order,
     bound |-> TRUE, sends |-> TRUE, limit |-> 0]
MCColls ==
    {Coll(FALSE, {}, FALSE, 1), Coll(FALSE, {}, TRUE, -1), Coll(FALSE, {g1}, TRUE, 0),
     [Coll(FALSE, {g2}, FALSE, -1) EXCEPT !.bound = FALSE],
     [Coll(FALSE, {}, TRUE, 1) EXCEPT !.sends = FALSE],
     [Coll(FALSE, {}, TRUE, -1) EXCEPT !.limit = 1],
     [Coll(TRUE, {}, TRUE, -1) EXCEPT !.limit = 1]}
MCStart == 1 :> [grp |-> g1, ord |-> 3] @@ 2 :> [grp |-> g2, ord |-> 1]
=============================================================================
