-------------------------------- MODULE MCPage --------------------------------
(* Two routes ("/" and "/article/:id"), a view and its selection, and a       *)
(* bound body that app code mirrors into a copy and normalises back: "b"      *)
(* settles as "a" after a second round, "x" and "y" keep the two going until  *)
(* the firing bound.                                                          *)
EXTENDS PageState

MCFields == {"view", "id", "body", "copy"}
MCValues == {"blank", "landing", "article", "n1", "n2", "a", "b", "x", "y"}
MCOrder == <<"show:body", "send:body", "send:copy", "mirror", "normalise",
             "show:view", "show:copy", "url">>
MCWatchers == {MCOrder[i] : i \in DOMAIN MCOrder}
MCFieldsOf == [w \in MCWatchers |->
    CASE w \in {"show:body", "send:body", "mirror"} -> {"body"}
      [] w = "send:copy" -> {"copy"}
      [] w \in {"normalise", "show:copy"} -> {"copy"}
      [] w = "show:view" -> {"view"}
      [] w = "url" -> {"view", "id"}]
MCSkipsOf == [w \in MCWatchers |->
    IF w \in {"send:body", "send:copy"} THEN {"server", "replay"} ELSE {}]

Normal == [v \in MCValues |-> CASE v = "b" -> "a" [] v = "x" -> "y"
                                [] v = "y" -> "x" [] OTHER -> v]
Sets(path, value) == <<[path |-> path, value |-> value, origin |-> "system"]>>
MCBody(w, change, state) ==
    CASE w = "mirror" -> Sets("copy", state["body"])
      [] w = "normalise" -> Sets("body", Normal[state["copy"]])
      [] OTHER -> <<>>

MCRoutes == <<[segs |-> <<>>, sets |-> <<SetValue("view", "landing")>>],
              [segs |-> <<Lit("article"), Param("id")>>,
               sets |-> <<SetValue("view", "article"), SetParam("id", "id")>>]>>
MCTexts == {"1", "01", "2"} \union (MCValues \ {"n1", "n2"})
MCCoerce == [t \in MCTexts |-> CASE t \in {"1", "01"} -> "n1" [] t = "2" -> "n2" [] OTHER -> t]
MCEncode == [v \in MCValues |-> CASE v = "n1" -> "1" [] v = "n2" -> "2" [] OTHER -> v]
MCUrls == {<<>>, <<"article", "1">>, <<"article", "01">>, <<"article", "2">>, <<"gone">>}
MCPlainUrls == MCUrls \ {<<"article", "01">>}
MCMounted == [f \in MCFields |-> CASE f = "view" -> "landing" [] f = "id" -> "blank"
                                   [] OTHER -> "a"]
Pair(p, v) == [path |-> p, value |-> v]
MCPresses == {<<Pair("view", "article"), Pair("id", "n1")>>,
              <<Pair("id", "n2"), Pair("view", "article")>>,
              <<Pair("view", "landing"), Pair("id", "blank")>>,
              <<Pair("id", "blank")>>,
              <<Pair("view", "landing"), Pair("body", "b")>>}

\* The conditions under which HistoryTells is a theorem.
ASSUME MCPageTells == RoutesTell /\ BodiesLeaveRoutes
=============================================================================
