--------------------------- MODULE MCAnonymizer ---------------------------
(* Anonymizer on texts over a few symbols.  "ann" holds "an"; "nb" overlaps  *)
(* the end of both; "b" is found by both detectors; "x" by none.           *)
EXTENDS Anonymizer, TLC

ann == <<"a", "n", "n">>
an == <<"a", "n">>
x == <<"x">>

MCPatterns == {[text |-> <<"v">>, label |-> "AVS"], [text |-> <<"b">>, label |-> "TEL"]}
MCEntities == {[text |-> ann, label |-> "PER"], [text |-> an, label |-> "PER"],
               [text |-> <<"n", "b">>, label |-> "PER"],
               [text |-> <<"b">>, label |-> "PER"], [text |-> <<"z">>, label |-> "OFF"]}
MCLabels == {"AVS", "TEL", "PER", "OFF", "NONE"}
MCConfig == [presidio |-> TRUE, gliner |-> TRUE, classifier |-> TRUE,
             active |-> {"AVS", "TEL", "PER"}]

Cell(f, s) == [field |-> f, text |-> s, inner |-> None, string |-> TRUE, insert |-> FALSE]
Number(f, s) == [Cell(f, s) EXCEPT !.string = FALSE]
Insert(f, s) == [Cell(f, s) EXCEPT !.insert = TRUE]
Doc(f, ls) == [format |-> f, leaves |-> ls, cut |-> NoCut]
Cut(d, n) == [d EXCEPT !.cut = n]
Nest(f, d) == [Cell(f, Render(d)) EXCEPT !.inner = d]
Text(s) == Doc("freetext", <<Cell(None, s)>>)

inside == Doc("json", <<Cell("nom", ann), Cell("valeur", x)>>)
select == Doc("sql", <<Cell("nom", an), Number("nom", <<"5">>), Cell("nom", <<>>),
                       Cell(None, x \o ann)>>)
\* The first stands in VALUES, the second in a function.
insertion == Doc("sql", <<Insert("nom", ann), Insert(None, an)>>)
prose == {
    Text(an \o x \o ann \o <<"b">>),
    Text(<<"[", "PER", "_", "1", "]">> \o an),
    Cut(Doc("json", <<>>), 0)}
\* Numbers, nested documents, the same one twice, one that fails, one too
\* deep, a table whose header is a word and that has a cell too many, an
\* INSERT, quotes in values and around documents, a call that fails on its
\* way.
structured == {
    Doc("freetext", <<Cell(None, an), Nest(None, select), Cell(None, x \o <<"v">>)>>),
    Doc("json", <<Cell("nom", x \o <<"b">>), Number("valeur", <<"v">>),
                  Nest("valeur", inside)>>),
    Doc("json", <<Nest("nom", Cut(inside, 1)), Cell("valeur", x \o an)>>),
    Doc("xml", <<Nest("valeur", Doc("json", <<Nest("nom", inside)>>)), Cell("valeur", <<>>)>>),
    Doc("json", <<Nest("nom", inside), Nest("nom", inside),
                  Nest("valeur", Cut(Doc("json", <<Cell("nom", an)>>), 0))>>),
    Doc("csv", <<Number("nom", <<"1">>), Cell("valeur", ann), Cell("nom", x), Cell("valeur", an)>>),
    Doc("csv", <<Cell("nom", <<"x", "quote", "x">>), Number("valeur", <<"1">>), Nest("valeur", inside)>>),
    Doc("csv", <<Nest("nom", Doc("xml", <<Cell("nom", an)>>)), Cell(None, ann)>>),
    Doc("freetext", <<Nest(None, insertion), Cell(None, x \o <<"b">>)>>),
    Doc("json", <<Cell("nom", an \o <<"quote", "backslash">>), Nest("nom", inside)>>),
    Cut(Doc("csv", <<Cell("nom", x), Cell("valeur", an \o <<"v">>)>>), 1),
    Doc("table", <<Cell("valeur", x \o <<"1">>), Cell("nom", ann \o <<"b">>), Cell("valeur", <<"z">>),
                   Cell(None, <<"v">>)>>),
    Doc("json", <<Number("nom", <<"v">>)>>)}

Within(D) == {l.inner : l \in UNION {ToSet(d.leaves) : d \in D}} \ {None}
MCDocs == LET all == prose \cup structured
          IN all \cup Within(all) \cup Within(Within(all))

\* Dashboards come and go during a call of several steps.
MCWatched == {Text(an \o x \o ann \o <<"b">>)}

MCContexts == {[db |-> "d", table |-> "t"], [db |-> "d", table |-> None],
               [db |-> None, table |-> None]}
Row(h, d, t, l) == [header |-> h, db |-> d, table |-> t, label |-> l, status |-> "active"]
MCSnapshots == {
    <<>>,
    <<Row("nom", None, None, "NONE"), Row("nom", "d", None, "NONE"),
      Row("nom", "d", None, "PER"), Row("nom", None, "t", "NONE"),
      [Row("valeur", None, None, "PER") EXCEPT !.status = "pending"]>>,
    <<Row("noms", None, None, "PER"), Row("nomm", None, None, "NONE"),
      Row("valeur", "d", "t", "NONE"), Row("valeur", "d", "u", "PER")>>}
MCScore(h, k) == IF h = k THEN 100 ELSE IF h = "nom" /\ k = "noms" THEN 93
                 ELSE IF h = "nom" /\ k = "nomm" THEN 89 ELSE 20
MCVerdicts == {[f \in FieldNames |-> None],
               [f \in FieldNames |-> IF f = "nom" THEN "PER" ELSE None]}
Call(d, c, k, v) == [doc |-> d, context |-> c, kb |-> k, verdict |-> v]
MCCalls ==
    {Call(d, [db |-> None, table |-> None], [f \in FieldNames |-> <<>>],
          [f \in FieldNames |-> None]) : d \in prose}
    \cup {Call(d, c, k, v) : d \in structured, c \in MCContexts,
                             k \in [FieldNames -> MCSnapshots], v \in MCVerdicts}
MCStores == {<<>>, ann :> [label |-> "TEL", n |-> 1]}
MCNonPII == {"NONE", "PUBLIC", "", None}
===========================================================================
