------------------------------- MODULE MCAccess -------------------------------
(* Posts and comments under users.  Graphs: posts or comments under users, or *)
(* nowhere; a second users table above; rules of every kind on both; one or   *)
(* two foreign keys from posts to users; comments with a writer of their own; *)
(* a join table for the tags of a post.                                       *)
EXTENDS WireAccess

CONSTANTS u1, u2

Node(tag, parent, read, write) ==
    [tag |-> tag, parent |-> parent, via |-> Absent, join |-> Absent,
     read |-> read, write |-> write]
Via(node, col) == [node EXCEPT !.via = col]
FK(child, col, parent) == [child |-> child, col |-> col, parent |-> parent, ref |-> "id"]

Join == {FK("post_tags", "post", "posts"), FK("post_tags", "tag", "tags")}
Plain == {FK("posts", "author", "users"), FK("comments", "post", "posts")} \union Join
Edited == Plain \union {FK("posts", "editor", "users")}
Signed == Plain \union {FK("comments", "writer", "users")}

App(nodes, fks, inserts, deletes, sets) ==
    [nodes |-> nodes, fks |-> fks, inserts |-> inserts, deletes |-> deletes, sets |-> sets,
     columns |-> {<<"posts", "title">>}]
Tags == [table |-> "posts", edge |-> "tags", stored |-> "id"]
Inserts == [t \in {"posts", "comments"} |->
               IF t = "posts" THEN {"title"} ELSE {"body", "post"}]
NoPost == [t \in {"comments"} |-> {"body", "post"}]
Bodies == [t \in {"comments"} |-> {"body"}]

Line4(rp, wp, rc, wc) == <<Node("users", 0, Absent, Absent), Node("posts", 1, rp, wp),
                          Node("comments", 2, rc, wc), Node("tags", 2, Absent, Absent)>>
Reads == {"public", "users", "owner", Absent}
Writes == {"users", "owner", "none", Absent}

LineNames == {<<"line", wp, rc, wc, fks, ins>> :
                wp \in {"owner", "users"}, rc \in Reads, wc \in Writes,
                fks \in {"plain", "edited", "signed"}, ins \in {"both", "no post", "bodies"}}
LineApp(n) ==
    App(Line4("owner", n[2], n[3], n[4]),
        CASE n[5] = "plain" -> Plain [] n[5] = "edited" -> Edited [] n[5] = "signed" -> Signed,
        CASE n[6] = "both" -> Inserts [] n[6] = "no post" -> NoPost [] n[6] = "bodies" -> Bodies,
        CASE n[6] = "both" -> {"posts", "comments"} [] n[6] = "no post" -> {} [] n[6] = "bodies" -> {"comments"},
        {Tags})

OddSets == <<[Tags EXCEPT !.stored = "slug"], [Tags EXCEPT !.edge = "title"],
             [Tags EXCEPT !.edge = "comments"]>>
Top == Node("users", 0, Absent, Absent)
OddNodes ==
    <<<<Node("posts", 0, "owner", Absent)>>,
      <<Node("users", 0, "owner", Absent)>>,
      <<Top, Node("comments", 1, "owner", "owner")>>,
      <<Top, Via(Node("posts", 1, "owner", "owner"), "editor")>>,
      <<Top, Node("posts", 1, "users", "owner"), Node("posts", 0, "public", "none")>>,
      <<Top, Node("posts", 1, Absent, Absent), Node("users", 2, Absent, Absent),
        Via(Node("posts", 3, "owner", "owner"), "author"),
        Node("comments", 4, "owner", "owner")>>,
      <<Top, Node("posts", 1, Absent, Absent), Node("comments", 2, "owner", "owner")>>,
      <<Top, Via(Node("posts", 1, Absent, Absent), "author"),
        Node("comments", 2, "owner", "owner"), Via(Node("posts", 1, "owner", "owner"), "editor")>>>>
OddNames == {<<"set", i>> : i \in DOMAIN OddSets}
            \union {<<"nodes", i, f>> : i \in DOMAIN OddNodes, f \in {"plain", "edited"}}
OddApp(n) ==
    IF n[1] = "set" THEN App(Line4("owner", "owner", "owner", "owner"), Plain, Inserts, {}, {OddSets[n[2]]})
    ELSE App(OddNodes[n[2]], IF n[3] = "plain" THEN Plain ELSE Edited, NoPost, {"comments"}, {})

MCApps == [n \in LineNames \union OddNames |-> IF n[1] = "line" THEN LineApp(n) ELSE OddApp(n)]
MCServed == {<<"line", "owner", "owner", "owner", "plain", "both">>,
             <<"line", "users", "owner", "users", "plain", "both">>,
             <<"line", "owner", "public", "owner", "signed", "both">>,
             <<"line", "users", "users", "none", "plain", "no post">>,
             <<"nodes", 7, "plain">>, <<"nodes", 8, "edited">>}

Row(fk) == [fk |-> fk, val |-> "old", members |-> {}]
MCStart == [k \in {<<"posts", "p1">>, <<"posts", "p2">>, <<"comments", "c1">>} |->
    IF k[1] = "comments" THEN Row([post |-> "p1", writer |-> u2])
    ELSE Row([author |-> IF k[2] = "p1" THEN u1 ELSE u2, editor |-> u1])]

Request(type, table, id, col, value, user) ==
    [type |-> type, table |-> table, id |-> id, col |-> col, value |-> value, user |-> user]
MCRequests ==
    UNION {{Request("set", "posts", "p1", "author", u2, u),
            Request("set", "posts", "p1", "val", "new", u),
            Request("set", "comments", "c1", "post", "p2", u),
            Request("set", "comments", "c1", "post", "gone", u),
            Request("set", "comments", "c1", "val", "new", u),
            Request("setMembers", "posts", "p1", Absent, {"t1"}, u),
            Request("setMembers", "posts", "p3", Absent, {}, u),
            Request("insert", "posts", "p3", Absent, Absent, u),
            Request("insert", "comments", "c2", "post", "p1", u),
            Request("insert", "comments", "c3", "post", "p2", u),
            Request("delete", "posts", "p2", Absent, Absent, u),
            Request("delete", "comments", "c1", Absent, Absent, u),
            Request("get", "comments", "c1", "val", Absent, u),
            Request("getMembers", "posts", "p1", Absent, Absent, u),
            Request("select", "comments", Absent, Absent, Absent, u),
            Request("get", "users", u1, "val", Absent, u)} : u \in Users \union {Nobody}}
=============================================================================
