------------------------------ MODULE MCNames -------------------------------
(***************************************************************************)
(* Two families of small applications.  Scoped: two mounts that may be of  *)
(* one composite, a child that may clash with its definition, a reference  *)
(* of any form in the app and one in the definition, which also declares   *)
(* the local "note" at its end.  Contexts: two data contexts, one inside   *)
(* or beside the other, and the references and calls that decide about     *)
(* fetching, queueing, prompts and the framework's regions.                *)
(***************************************************************************)
EXTENDS Bundle

Ref(form, path) == [form |-> form, path |-> path, args |-> <<>>]
Call(fn, args) == [form |-> "call", path |-> fn, args |-> args]
Attr(as, ref) == [as |-> as, ref |-> ref]
Element(in, name, type) ==
    [is |-> "element", in |-> in, name |-> name, type |-> type, params |-> {}, table |-> Absent,
     source |-> Absent, record |-> "none", conflict |-> Absent, refs |-> <<>>]
Text(in, ref) == [Element(in, "text", "text") EXCEPT !.is = "text", !.refs = <<Attr("text", ref)>>]
Route(ref) == [Text(0, ref) EXCEPT !.refs = <<Attr("set", ref)>>]
Files(top, card, pad) == ("app" :> top) @@ ("card" :> card) @@ ("pad" :> pad)

NameRefs ==
    {Ref("local", <<"note">>), Ref("local", <<"label">>), Ref("local", <<"title">>),
     Ref("declare", <<"note">>), Ref("declare", <<"label">>),
     Ref("named", <<"a", "value">>), Ref("named", <<"b", "value">>),
     Ref("upward", <<"a", "value">>), Ref("upward", <<"c", "value">>),
     Ref("absolute", <<"a", "b", "value">>), Ref("absolute", <<"title">>)}

\* pad is mounted inside card, and card inside pad when self is TRUE.
Pad(self) == <<Element(0, "b", IF self THEN "card" ELSE "box"), Text(1, Ref("named", <<"b", "value">>)),
               Text(0, Ref("declare", <<"note">>)), Text(1, Ref("local", <<"note">>))>>
Card(first, second, type, at, ref) ==
    <<Element(0, first, "box"), Element(1, second, type), Text(at, ref),
      Text(0, Ref("declare", <<"note">>))>>
Page(second, inner, types, at, ref) ==
    <<[Element(0, "a", types[1]) EXCEPT !.params = {"label"}],
      Element(1, inner, "box"), [Element(0, second, types[2]) EXCEPT !.params = {"label"}],
      Text(at, ref)>>

Plain == Ref("named", <<"b", "value">>)
Scoped ==
    {[files |-> Files(Page(second, inner, types, at, refs[1]),
                      Card(first, "b", type, down, refs[2]), Pad(FALSE)),
      edges |-> {}] :
        second \in {"a", "c"}, inner \in {"b", "c"}, types \in {"card", "box"} \X {"card"},
        at \in {0, 2}, first \in {"a", "b", "c"}, type \in {"box", "pad"}, down \in {1, 2},
        refs \in (NameRefs \X {Plain}) \union ({Plain, Ref("absolute", <<"title">>)} \X NameRefs)}
    \union
    {[files |-> Files(Page("c", "b", <<"card", "box">>, 0, r), Card("a", "b", "pad", 1, r), Pad(TRUE)),
      edges |-> {}] : r \in NameRefs}

-----------------------------------------------------------------------------
View == Ref("absolute", <<"view">>)
Own == Ref("bound", <<"title">>)
Other == Ref("bound", <<"body">>)
Table(element, record, conflict) ==
    [element EXCEPT !.table = "notes", !.record = record, !.conflict = conflict,
                    !.refs = IF record = "dynamic" THEN <<Attr("record", View)>> ELSE <<>>]
Query(element, record, arg) ==
    [element EXCEPT !.source = "recent", !.record = record, !.refs = <<Attr("argument", arg)>>]

Outer == {Table(Element(0, "list", "box"), record, conflict) :
            record \in {"none", "fixed", "dynamic"}, conflict \in {Absent, "lww", "detect"}}
         \union {Query(Element(0, "list", "box"), record, arg) :
            record \in {"none", "dynamic"}, arg \in {View, Own}}
Second(in) == {Element(in, "more", "box"), Element(in, "more", "pad"),
               Table(Element(in, "more", "box"), "fixed", "detect"),
               Table(Element(in, "more", "box"), "dynamic", Absent),
               Table(Element(in, "more", "box"), "none", Absent)}
Input(in, ref) == [Element(in, "edit", "box") EXCEPT !.refs = <<Attr("field", ref)>>]
Reads == {<<Text(2, Own)>>, <<Text(2, Call(<<"field.set">>, <<View, Own>>))>>, <<Text(2, View)>>,
          <<Input(2, Own)>>, <<Input(1, Other)>>, <<Text(2, Own), Input(1, Other)>>}
Targets == {View, Ref("absolute", <<"sync", "table">>), Ref("absolute", <<"identity", "userId">>)}
Tails ==
    {<<>>, <<Text(0, Call(<<"data.create", "notes">>, <<View>>))>>,
     <<Text(0, Call(<<"auth.login">>, <<>>))>>,
     <<Text(0, Ref("absolute", <<"sync", "table">>)), Text(0, Call(<<"sync.keepMine">>, <<>>))>>,
     <<Text(0, Ref("absolute", <<"sync", "table">>)), Text(0, Call(<<"sync.takeTheirs">>, <<>>)),
       Text(0, Call(<<"auth.login">>, <<>>)), Text(0, Call(<<"data.create", "notes">>, <<View>>))>>}
    \union {<<Route(r)>> : r \in Targets}
    \union {<<Text(0, Call(<<"field.set">>, <<r, Ref("literal", <<>>)>>))>> : r \in Targets}

Prompted == <<Text(0, Ref("absolute", <<"sync", "table">>)), Text(0, Call(<<"sync.keepMine">>, <<>>)),
              Text(0, Call(<<"auth.login">>, <<>>))>>

Application(outer, second, read, declared, tail, edges) ==
    [files |-> Files(<<outer, second>> \o read \o <<Text(0, Ref("declare", <<declared>>))>> \o tail,
                     <<>>, Pad(FALSE)),
     edges |-> edges]
ContextApps ==
    {Application(o, s, r, "view", Prompted, e) :
        o \in Outer, s \in Second(0) \union Second(1), r \in Reads, e \in {{}, {<<"notes", "notes">>}}}
    \union
    {Application(o, s, <<Text(2, Own)>>, d, t, {}) :
        o \in Outer, s \in Second(0), d \in {"view", "list"}, t \in Tails}
    \union
    {Application(o, Element(0, "more", "box"), <<Text(1, Own)>>, "view", t, {}) :
        o \in Outer, t \in Tails}

MCApps == Scoped \union ContextApps
=============================================================================
