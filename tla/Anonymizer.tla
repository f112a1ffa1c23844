---------------------------- MODULE Anonymizer ----------------------------
(***************************************************************************)
(* sidecar/anonymizer.py with formats.py, sql_anon.py and ner.detect: one  *)
(* POST /anonymize, from the text to the text with tokens and the mapping  *)
(* that takes them back.                                                   *)
(*                                                                         *)
(* A text is a sequence of symbols.  A document is a text together with    *)
(* the structure its parser finds in it: its format and its leaves, each   *)
(* with the field it stands under, its text, whether that is written as a  *)
(* string, whether it is a literal of an INSERT and, if the text is itself *)
(* a document (a JSON text in a CSV cell, a SQL statement in prose), that  *)
(* document.  The text of a leaf is the one the parser gives, without      *)
(* quotes and escapes; Render puts the leaves together as they are         *)
(* written.  The layout of markup is left out.                             *)
(*                                                                         *)
(* _anonymize_structured calls itself for a document inside a document.    *)
(* The calls under way are a stack of frames with their local variables: a *)
(* frame first calls itself for its nested documents (Enter, then Leave or *)
(* Abandon), then asks the store for one token after another (TokenStep),  *)
(* column by column; the last one writes the answer (Finish).              *)
(***************************************************************************)
EXTENDS EventBus, HeaderLookup, Replacing, SequencesExt

CONSTANTS
    Docs,         \* documents, those inside documents too
    Calls,        \* calls that may arrive: records [doc, context, kb, verdict]
    Patterns,     \* what presidio finds: records [text, label]
    Entities,     \* what GLiNER finds: records [text, label]
    AllLabels,    \* labels of detectors, rows and the classifier
    FieldNames,   \* columns, keys, tags of the documents
    Watched,      \* bound: documents during whose call dashboards connect
    Stores,       \* what the store may know when the call arrives
    Config,       \* NERConfig: [presidio, gliner, classifier, active]
    MaxDepth,     \* MAX_STRUCT_DEPTH
    NoCut         \* for a document whose anonymisation does not fail

VARIABLES
    pc,        \* "idle", "running", "done" (200) or "failed" (503)
    doc,       \* the text being anonymised
    verdict,   \* verdict[f]: the classifier's label for field f, None if it has none
    stack,     \* the calls of _anonymize_structured under way, the last innermost
    store,     \* reverse hash of the user: value -> [label, n]
    result,    \* anonymized_text
    mapping,   \* pairs [token, value] given back
    ended      \* history: the calls that came to their end, with what they replaced

callVars == <<pc, doc, context, kb, verdict, stack, store, result, mapping, ended>>
vars == <<callVars, busVars>>

---------------------------------------------------------------------------
(* Texts and documents.                                                    *)

\* The number of a token stands as so many digits.
TokenText(t) == <<"[", t.label, "_">> \o [i \in 1..t.n |-> "1"] \o <<"]">>

\* What a format puts around a string, and before a symbol it escapes: that is
\* the quote once more in SQL and CSV, a backslash in JSON, an entity in XML.
Quoting == {"json", "xml", "sql", "csv"}
Quote(format) ==
    CASE format = "xml" -> "less" [] format = "sql" -> "apostrophe" [] OTHER -> "quote"
Sign(format) ==
    CASE format = "xml" -> "amp" [] format = "json" -> "backslash" [] OTHER -> Quote(format)
Special(format) == IF format \in Quoting THEN {Quote(format), Sign(format)} ELSE {}
Escape(format, text) ==
    FlattenSeq([i \in 1..Len(text) |->
        IF text[i] \in Special(format) THEN <<Sign(format), text[i]>> ELSE <<text[i]>>])

\* A leaf as json.dumps, tostring, sqlglot or a CSV writer write it; prose,
\* tables, numbers and bare cells are written as they are.
Literal(format, l) ==
    IF l.string /\ format \in Quoting
    THEN <<Quote(format)>> \o Escape(format, l.text) \o <<Quote(format)>>
    ELSE l.text

\* A document with other texts written in its leaves; as it is.
RenderLeaf(format, field, text) ==
    IF format = "freetext" THEN text ELSE <<field, ":">> \o text \o <<";">>
WithTexts(d, texts) ==
    (IF d.format = "freetext" THEN <<>> ELSE <<d.format>>)
    \o FlattenSeq([i \in 1..Len(d.leaves) |->
                      RenderLeaf(d.format, d.leaves[i].field, texts[i])])
Render(d) == WithTexts(d, [i \in 1..Len(d.leaves) |-> Literal(d.format, d.leaves[i])])

\* _flatten_json: the strings, unless they are blank.
FlattenJson(l) == l.string /\ l.text # <<>>

\* _stmt_pairs: the literals beside a column, and all those that are
\* strings, blank or not; of an INSERT only the tuples of VALUES, which have
\* a column or its number.
StmtPairs(l) == l.field # None \/ (l.string /\ ~l.insert)

\* _flatten_xml: every attribute and every text, unless it is blank.
FlattenXml(l) == l.text # <<>>

\* _extract_table, _extract_csv: every cell, unless it is blank or has no
\* header of its own: it is beyond the headers of a table, or in the first of
\* two columns of one name in a CSV.
ExtractCells(l) == l.text # <<>> /\ l.field # None

\* extract_pairs, as places among the leaves.
IsPair(format, l) ==
    \/ format = "json" /\ FlattenJson(l)
    \/ format = "sql" /\ StmtPairs(l)
    \/ format = "xml" /\ FlattenXml(l)
    \/ format \in {"table", "csv"} /\ ExtractCells(l)
Pairs(d) == {i \in 1..Len(d.leaves) : IsPair(d.format, d.leaves[i])}
Field(l) == IF l.field = None THEN "valeur" ELSE l.field

\* What the constants are taken to be: the text of a leaf is that of the
\* document in it, a number of SQL is not JSON or XML, a word of a detector is
\* not blank, and no label is a bracket or escaped.
Formats == {"freetext", "json", "xml", "sql", "table", "csv"}
Texts == Seq(STRING \cup {None})
Leaves == [field : FieldNames \cup {None}, text : Texts,
           inner : Docs \cup {None}, string : BOOLEAN, insert : BOOLEAN]
DocsAssumption ==
    \A d \in Docs :
        /\ d.format \in Formats /\ d.leaves \in Seq(Leaves) /\ d.cut \in Nat \cup {NoCut}
        /\ \A i \in 1..Len(d.leaves) :
              LET l == d.leaves[i]
              IN /\ l.inner # None => l.text = Render(l.inner)
                 /\ d.format = "sql" /\ ~l.string =>
                       \A g \in Docs : g.format \in {"json", "xml"} => l.text # Render(g)
WordsAssumption ==
    /\ AllLabels \subseteq STRING \ {"[", "]"}
    /\ \A format \in Formats : AllLabels \cap Special(format) = {}
    /\ Patterns \cup Entities \subseteq [text : Texts \ {<<>>}, label : AllLabels]
Rows == [header : STRING, db : STRING \cup {None}, table : STRING \cup {None},
         label : AllLabels \cup {"", None}, status : STRING]
CallsAssumption ==
    /\ Calls \subseteq [doc : Docs,
                        context : [db : STRING \cup {None}, table : STRING \cup {None}],
                        kb : [FieldNames -> Seq(Rows)],
                        verdict : [FieldNames -> AllLabels \cup {None}]]
    /\ \A call \in Calls, f, g \in FieldNames : \A i \in 1..Len(call.kb[g]) :
          Score(f, call.kb[g][i].header) \in 0..100

\* Tokens of one label are numbered from 1 on, and no two values share one.
Numbered(s) ==
    /\ IsFiniteSet(DOMAIN s)
    /\ \A v \in DOMAIN s :
          /\ s[v] \in [label : AllLabels, n : Nat \ {0}]
          /\ s[v].n <= Cardinality({w \in DOMAIN s : s[w].label = s[v].label})
          /\ \A w \in DOMAIN s : s[v] = s[w] => v = w

ASSUME AnonymizerAssumption ==
    /\ None \notin Docs /\ None \notin STRING /\ NoCut \notin Nat
    /\ "valeur" \in FieldNames /\ FieldNames \subseteq STRING
    /\ DocsAssumption /\ WordsAssumption /\ CallsAssumption /\ \A s \in Stores : Numbered(s)

---------------------------------------------------------------------------
(* Detection: NEREngine.detect.  A request is a value to be replaced, with *)
(* its label and its rank among those of its column.                       *)

After(q, n) == [q EXCEPT !.rank = n + @]

Hits(words, s) ==
    UNION {{[rank |-> i, value |-> w.text, label |-> w.label] : i \in Positions(w.text, s)} :
              w \in {w \in words : w.label \in Config.active}}
Presidio(s) == IF Config.presidio THEN Hits(Patterns, s) ELSE {}

\* GLiNER adds what it finds on other spans than presidio's.
Merge(first, found, n) ==
    first \cup {After(g, n) : g \in {g \in found : \A h \in first :
                                        g.rank # h.rank \/ g.value # h.value}}
Detect(s) == Merge(Presidio(s), IF Config.gliner THEN Hits(Entities, s) ELSE {}, Len(s))

---------------------------------------------------------------------------
(* A call of _anonymize_structured, or of _anonymize_freetext: its         *)
(* document, the leaf of the caller it stands in, the nested documents it  *)
(* has not come to, what those it has come to gave (got), and the values   *)
(* it has a token for (known).                                             *)

\* Leaves with a document in them, for whatever is done about it.
Nests(d) == {i \in (IF d.format = "freetext" THEN 1..Len(d.leaves) ELSE Pairs(d)) :
                d.leaves[i].inner # None}
Frame(d, place) ==
    [doc |-> d, place |-> place, untried |-> Nests(d), got |-> <<>>, known |-> {}]
Top == stack[Len(stack)]

\* _depth: a SQL statement in prose begins at zero, without a context.
Depth == Len(stack) - (IF doc.format = "freetext" THEN 2 ELSE 1)
Nowhere == [db |-> None, table |-> None]
Context == IF doc.format = "freetext" THEN Nowhere ELSE context

\* Which leaves are anonymised as documents: the SQL statements of prose,
\* from the last to the first; of pairs JSON and XML within the depth, unless
\* the same text already was.
Nested(f) ==
    {i \in f.untried :
        LET l == f.doc.leaves[i]
        IN \/ f.doc.format = "freetext"
           \/ /\ l.inner.format \in {"json", "xml"}
              /\ Depth < MaxDepth
              /\ \A j \in DOMAIN f.got : f.doc.leaves[j].text # l.text}
ComesFirst(i, f) ==
    \A j \in Nested(f) : IF f.doc.format = "freetext" THEN j <= i ELSE i <= j

\* The values left, also those whose nested document failed.
\* (Mutant: they are lost.)
MutScalars(f) == Pairs(f.doc) \ (Nests(f.doc) \ f.untried)
Scalars(f) == Pairs(f.doc) \ DOMAIN f.got

\* blob_values: the texts that were rewritten as documents.
Blobs(f) == IF f.doc.format = "freetext" THEN {}
            ELSE {f.doc.leaves[i].text : i \in DOMAIN f.got}

\* splice_embedded_sql: prose with its SQL statements rewritten.
OwnText(f) ==
    IF f.doc.format = "freetext"
    THEN WithTexts(f.doc, [i \in 1..Len(f.doc.leaves) |->
             IF i \in DOMAIN f.got THEN f.got[i].text ELSE f.doc.leaves[i].text])
    ELSE Render(f.doc)

\* "if header_label".
Labelled(header) == header[1] \notin {None, ""}

\* The body of the loop over columns, for the leaves I of d: a labelled
\* column gives every value its label, another what is found in it and the
\* classifier's label to the rest.
With(d, I, label) ==
    {[rank |-> i, value |-> d.leaves[i].text, label |-> label] : i \in I}
ByLabel(d, I, label, augmented) ==
    With(d, {i \in I : d.leaves[i].text # <<>>}, label)
    \cup {After(q, Len(d.leaves)) : q \in Presidio(augmented)}
ByDetection(d, I, label, augmented) ==
    LET found == Detect(augmented)
        Within(q, i) == Occurs(q.value, d.leaves[i].text)
        unresolved == {i \in I : ~ \E q \in found : Within(q, i)}
    IN {q \in found : \E i \in I : Within(q, i)}
       \cup (IF Config.classifier /\ label # None
             THEN {After(q, 2 * Len(augmented)) : q \in With(d, unresolved, label)}
             ELSE {})

\* augment_pairs_as_text
Augmented(d, I) ==
    FlattenSeq([i \in 1..Len(d.leaves) |->
        IF i \in I THEN <<Field(d.leaves[i]), ":">> \o d.leaves[i].text \o <<"|">> ELSE <<>>])

AnonymizeColumn(d, I, field) ==
    LET header == Lookup(kb[field], field, Context.db, Context.table)
    IN IF Labelled(header)
       THEN ByLabel(d, I, header[1], Augmented(d, I))
       ELSE ByDetection(d, I, verdict[field], Augmented(d, I))

\* The columns, each by its first leaf; prose, and a document without values,
\* is searched as a whole (column 0).
AsWhole(d) == Pairs(d) = {}
SameField(f, i) == {j \in Scalars(f) : Field(f.doc.leaves[j]) = Field(f.doc.leaves[i])}
Columns(f) == IF AsWhole(f.doc) THEN {0}
              ELSE {i \in Scalars(f) : i = First(SameField(f, i))}
Requests(f, i) ==
    IF i = 0 THEN Detect(OwnText(f))
    ELSE AnonymizeColumn(f.doc, SameField(f, i), Field(f.doc.leaves[i]))

\* "if v not in replacement" around every request for a token.
Open(f, i) == {q \in Requests(f, i) : q.value \notin f.known \cup Blobs(f)}
Unfinished(f) == {i \in Columns(f) : Open(f, i) # {}}

\* The call fails, after so many tokens or at its end; it comes to its end.
Complete(f) == Nested(f) = {} /\ Unfinished(f) = {}
Broken(f) == f.doc.cut # NoCut /\ (f.doc.cut <= Cardinality(f.known) \/ Complete(f))
Ends(f) == f.doc.cut = NoCut /\ Complete(f)

---------------------------------------------------------------------------
(* What a call gives back.                                                 *)

\* A token for a value, the rewritten text for a nested document.
\* (Mutant: a nested document stays.)
MutReplacement(f) ==
    [v \in f.known \cup Blobs(f) |-> IF v \in Blobs(f) THEN v ELSE TokenText(store[v])]
Replacement(f) ==
    [v \in f.known \cup Blobs(f) |->
        IF v \in Blobs(f)
        THEN f.got[CHOOSE i \in DOMAIN f.got : f.doc.leaves[i].text = v].text
        ELSE TokenText(store[v])]

\* _reinject_json: only strings change.
ReinjectJson(l, map) ==
    IF l.string THEN [l EXCEPT !.text = ReplaceInTurn(l.text, map)] ELSE l

\* _reinject_xml: every text and attribute.
ReinjectXml(l, map) == [l EXCEPT !.text = ReplaceInTurn(l.text, map)]

\* reinject_sql: a literal changes when it is a key as a whole, and then is a
\* string, were it a number before.
ReinjectSql(l, map) ==
    IF l.text \in DOMAIN map THEN [l EXCEPT !.text = map[l.text], !.string = TRUE] ELSE l

\* reinject; a table or a CSV changes as it is written, its headers too, and a
\* document without values like prose.
ByLeaf(d) == d.format \in {"json", "xml", "sql"} /\ ~AsWhole(d)
ReinjectLeaf(d, l, map) ==
    CASE d.format = "json" -> ReinjectJson(l, map)
      [] d.format = "xml" -> ReinjectXml(l, map)
      [] d.format = "sql" -> ReinjectSql(l, map)
Reinject(d, text, map) ==
    IF ByLeaf(d)
    THEN WithTexts(d, [i \in 1..Len(d.leaves) |->
                          Literal(d.format, ReinjectLeaf(d, d.leaves[i], map))])
    ELSE ReplaceInTurn(text, map)

\* The pairs token, value: of the call's own values and of the documents in
\* it; a nested document as a whole is not one.
\* (Mutant: those of the SQL in prose are left out.)
MutMapping(f) ==
    {<<TokenText(store[v]), v>> : v \in f.known}
    \cup UNION {f.got[i].mapping : i \in {i \in DOMAIN f.got : f.doc.format # "freetext"}}
Mapping(f) ==
    {<<TokenText(store[v]), v>> : v \in f.known}
    \cup UNION {f.got[i].mapping : i \in DOMAIN f.got}

Ended(f) == [doc |-> f.doc, got |-> f.got, replacement |-> Replacement(f),
             text |-> Reinject(f.doc, OwnText(f), Replacement(f)), mapping |-> Mapping(f)]

---------------------------------------------------------------------------
Init ==
    /\ pc = "idle"
    /\ \E call \in Calls :
          /\ doc = call.doc
          /\ context = call.context
          /\ kb = call.kb
          /\ verdict = call.verdict
    /\ stack = <<>>
    /\ store \in Stores
    /\ result = <<>>
    /\ mapping = {}
    /\ ended = {}
    /\ BusInit

callUnchanged == UNCHANGED <<doc, context, kb, verdict>>

\* POST /anonymize arrives.
Request ==
    /\ pc = "idle"
    /\ pc' = "running"
    /\ stack' = <<Frame(doc, 0)>>
    /\ UNCHANGED <<store, result, mapping, ended, busVars>> /\ callUnchanged

\* The next nested document: the function calls itself.
Enter ==
    /\ pc = "running" /\ ~Broken(Top)
    /\ \E i \in Nested(Top) :
          /\ ComesFirst(i, Top)
          /\ stack' = Append([stack EXCEPT ![Len(stack)].untried = @ \ {i}],
                             Frame(Top.doc.leaves[i].inner, i))
    /\ UNCHANGED <<pc, store, result, mapping, ended, busVars>> /\ callUnchanged

\* get_or_create_token for the next value, and the event of it.
Ask(q) ==
    /\ store' = IF q.value \in DOMAIN store THEN store
                ELSE [v \in DOMAIN store \cup {q.value} |->
                         IF v \in DOMAIN store THEN store[v]
                         ELSE [label |-> q.label,
                               n |-> Cardinality({w \in DOMAIN store :
                                         store[w].label = q.label}) + 1]]
    /\ Emit
TokenStep ==
    /\ pc = "running" /\ ~Broken(Top)
    /\ Nested(Top) = {} /\ Unfinished(Top) # {}
    /\ LET open == Open(Top, First(Unfinished(Top)))
       IN \E q \in open :
             /\ \A p \in open : q.rank <= p.rank
             /\ Ask(q)
             /\ stack' = [stack EXCEPT ![Len(stack)].known = @ \cup {q.value}]
    /\ UNCHANGED <<pc, result, mapping, ended>> /\ callUnchanged

\* A nested call returns to its caller.
Leave ==
    /\ pc = "running" /\ Len(stack) > 1 /\ Ends(Top)
    /\ ended' = ended \cup {Ended(Top)}
    /\ stack' = [Front(stack) EXCEPT ![Len(stack) - 1].got =
                    [i \in DOMAIN @ \cup {Top.place} |->
                        IF i = Top.place THEN Ended(Top) ELSE @[i]]]
    /\ UNCHANGED <<pc, store, result, mapping, busVars>> /\ callUnchanged

\* A nested call fails: its text is a plain value again.
InProse == Len(stack) > 1 /\ stack[Len(stack) - 1].doc.format = "freetext"
Abandon ==
    /\ pc = "running" /\ Len(stack) > 1 /\ ~InProse /\ Broken(Top)
    /\ stack' = Front(stack)
    /\ UNCHANGED <<pc, store, result, mapping, ended, busVars>> /\ callUnchanged

\* The text is rewritten and answered.
Finish ==
    /\ pc = "running" /\ Len(stack) = 1 /\ Ends(Top)
    /\ pc' = "done"
    /\ stack' = <<>>
    /\ ended' = ended \cup {Ended(Top)}
    /\ result' = Ended(Top).text
    /\ mapping' = Ended(Top).mapping
    /\ UNCHANGED <<store, busVars>> /\ callUnchanged

\* The parser, the store or the classifier raises, outside a nested document
\* or in the SQL of prose: 503, nothing is answered.
Fail ==
    /\ pc = "running" /\ (Len(stack) = 1 \/ InProse) /\ Broken(Top)
    /\ pc' = "failed"
    /\ stack' = <<>>
    /\ UNCHANGED <<store, result, mapping, ended, busVars>> /\ callUnchanged

CallStep == Request \/ Enter \/ TokenStep \/ Leave \/ Abandon \/ Finish \/ Fail
DashboardStep(s) ==
    /\ doc \in Watched
    /\ BusStep(s)
    /\ UNCHANGED callVars

Next == CallStep \/ \E s \in Subscribers : DashboardStep(s)

Spec == Init /\ [][Next]_vars

---------------------------------------------------------------------------
(* Properties, of every call that came to its end, nested ones too.        *)

\* Values and tokens cannot be mistaken: no key has a bracket in it or stands
\* in a token, and no value stands in the text that takes the place of a
\* nested document shorter than it, or meets its ends.
Own(e) == DOMAIN e.replacement \ Blobs(e)
Untangled(e) ==
    /\ \A w \in DOMAIN e.replacement :
          /\ ToSet(w) \cap {"[", "]"} = {}
          /\ w # <<>> => \A p \in e.mapping : ~Occurs(w, p[1])
    /\ \A w \in Own(e), b \in Blobs(e) : Len(b) <= Len(w) => Clear(w, e.replacement[b])

\* What must not be left of a document: the values of its labelled columns,
\* and the words the detectors know in the values it is searched for, in SQL
\* those that are a whole literal.
Known(words) == {w.text : w \in {w \in words : w.label \in Config.active}}
Searched(labelled) ==
    Known((IF Config.presidio THEN Patterns ELSE {})
          \cup (IF Config.gliner /\ ~labelled THEN Entities ELSE {}))
InColumn(l) == Labelled(Lookup(kb[Field(l)], Field(l), Context.db, Context.table))
Private(d, l) ==
    LET labelled == d.format # "freetext" /\ InColumn(l)
    IN {w \in Searched(labelled) : IF d.format = "sql" THEN w = l.text ELSE Occurs(w, l.text)}
       \cup (IF labelled THEN {l.text} \ {<<>>} ELSE {})

\* Where they could be left: the values of the rewritten document, or all of
\* its text, as it is written.
Rewritten(e) ==
    IF ByLeaf(e.doc)
    THEN {ReinjectLeaf(e.doc, e.doc.leaves[i], e.replacement).text : i \in Pairs(e.doc)}
    ELSE {e.text}
Left(d, w, text) ==
    IF ByLeaf(d) THEN (IF d.format = "sql" THEN w = text ELSE Occurs(w, text))
    ELSE Occurs(Escape(d.format, w), text)

\* str.replace finds the value: it is not looked for in a text that has it
\* escaped.
Findable(d, w) == ByLeaf(d) \/ Escape(d.format, w) = w

\* The leaves of e that were searched for values.
Plain(e) == (IF e.doc.format = "freetext" THEN 1..Len(e.doc.leaves) ELSE Pairs(e.doc))
            \ DOMAIN e.got

\* Types.
TypeOK ==
    /\ BusTypeOK
    /\ pc \in {"idle", "running", "done", "failed"}
    /\ [doc |-> doc, context |-> context, kb |-> kb, verdict |-> verdict] \in Calls
    /\ \A i \in 1..Len(stack) :
          /\ stack[i].doc \in Docs
          /\ stack[i].untried \subseteq Nests(stack[i].doc)
          /\ DOMAIN stack[i].got \subseteq Nests(stack[i].doc)
          /\ stack[i].known \subseteq DOMAIN store
    /\ \A v \in DOMAIN store : store[v] \in [label : AllLabels, n : Nat \ {0}]
    /\ pc = "running" <=> stack # <<>>
    /\ pc # "done" => mapping = {}

\* No private value is left in what a call rewrites, whatever failed inside
\* nested documents and whatever the label store knew when each column was
\* looked up (anonymizer.py:165-223, "fail-safe : on retombe en scalaire").
\* Nothing is said of what the code does not take for a value (a number of
\* JSON, a cell without a header, a literal of an INSERT outside VALUES), nor
\* of a CSV cell with a quote in it: it is read without its escapes and not
\* found in the text (formats.py:82-89, 128-132).
PrivateHidden ==
    \A e \in {e \in ended : Untangled(e)} : \A i \in Plain(e) :
        \A w \in Private(e.doc, e.doc.leaves[i]) \ Blobs(e) :
            Findable(e.doc, w) =>
                \A text \in Rewritten(e) : ~Left(e.doc, w, text)

\* A document in a value is left there although its values have tokens.
BlobLeft(e, i) ==
    LET blob == e.doc.leaves[i].text
    IN e.got[i].text # blob /\ \E text \in Rewritten(e) : Left(e.doc, blob, text)

\* A document in a value, once anonymised, takes its place wherever it stood,
\* at every depth, in values that repeat it and beside values that stand in it
\* (anonymizer.py:165-183, 266); but for those the CSV writes with quotes.
NestedReplaced ==
    \A e \in {e \in ended : Untangled(e) /\ e.doc.format # "freetext"} :
        \A i \in DOMAIN e.got : Findable(e.doc, e.doc.leaves[i].text) => ~BlobLeft(e, i)

\* "une valeur qui EST du JSON/XML (cas "JSON/XML dans une colonne") est
\* ré-anonymisée récursivement (blob entier remplacé)" (anonymizer.py:162-163).
BlobsReplaced ==
    \A e \in {e \in ended : Untangled(e) /\ e.doc.format # "freetext"} :
        \A i \in DOMAIN e.got : ~BlobLeft(e, i)

\* Replacing one value after another gives what replacing all of them at
\* once would, unless two of them overlap by halves or a nested document is
\* repeated in the value: a name inside a longer one leaves no rest of it
\* (formats.py:120-121).  A table or a CSV is replaced in as it is written.
AtOnce ==
    \A e \in {e \in ended : Untangled(e) /\ e.doc.format # "sql"} :
        \A i \in Plain(e) :
            LET l == e.doc.leaves[i]
                text == IF ByLeaf(e.doc) THEN l.text ELSE Literal(e.doc.format, l)
            IN (\A b \in Blobs(e) : ~Occurs(b, text)) => SameAtOnce(text, e.replacement)

\* Among the calls E that came to their end: no value of e is escaped where
\* it stands, as it is put back without escapes (anonymizer.py:279-283), and
\* no number of SQL was replaced: it comes back as a string
\* (sql_anon.py:74-76).
Undamaged(e, E) ==
    /\ \A p \in e.mapping, a \in E : Escape(a.doc.format, p[2]) = p[2]
    /\ e.doc.format = "sql" =>
          \A i \in 1..Len(e.doc.leaves) :
              e.doc.leaves[i].string \/ e.doc.leaves[i].text \notin DOMAIN e.replacement

\* The mapping handed back takes the answer back to the text that was sent,
\* nested documents, escaped once more at every depth, and embedded SQL
\* included, but for what is damaged as above and for a text that looked like
\* a token itself (anonymizer.py:267-271, 279-283); up to the layout of markup.
RoundTrip ==
    /\ pc = "done" /\ ~Occurs(<<"[">>, Render(doc))
    /\ \A e \in ended : Untangled(e) /\ Undamaged(e, ended)
    => Deanonymize(result, mapping) = Render(doc)
===========================================================================
