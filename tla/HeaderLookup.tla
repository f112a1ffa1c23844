--------------------------- MODULE HeaderLookup ---------------------------
(***************************************************************************)
(* sidecar/kb_label_store.py and fuzzy_lookup of sidecar/column_labels.py: *)
(* the label the knowledge base gives a column, by the context the caller  *)
(* knows.  A snapshot is a sequence of rows, in the order of the response; *)
(* headers are already normalised (normalize_header), and how alike two of *)
(* them are is a constant, rapidfuzz's token_set_ratio.                    *)
(***************************************************************************)
EXTENDS Integers, Sequences

CONSTANTS
    None,            \* no database, no table, no label
    NonPII,          \* _NON_PII_LABELS
    Score(_, _),     \* likeness of two headers, 0..100
    Threshold        \* fuzzy_threshold

VARIABLES
    context,   \* of a call: its [db, table]
    kb         \* kb[f]: the snapshot in place when field f is looked up

\* The first of some rows, in the order of the snapshot.
First(I) == CHOOSE i \in I : \A j \in I : i <= j

\* _pick_most_sensitive: the first label that is personal data, if any.
\* (Mutant: the first label of the level, whatever it is.)
MutMostSensitive(rows, I) == rows[First(I)].label
MostSensitive(rows, I) ==
    LET pii == {i \in I : rows[i].label \notin NonPII}
    IN rows[First(IF pii # {} THEN pii ELSE I)].label

\* The levels from the most specific on, each with the name the answer
\* carries and the context its rows have; those the caller's context allows.
Levels(db, table) == <<[name |-> "exact", db |-> db, table |-> table],
                       [name |-> "table", db |-> None, table |-> table],
                       [name |-> "db", db |-> db, table |-> None],
                       [name |-> "exact", db |-> None, table |-> None]>>
Allowed(db, table) ==
    {n \in 1..4 : (n \in {1, 3} => db # None) /\ (n \in {1, 2} => table # None)}

\* fuzzy_lookup: the best of the known headers, None below the threshold or
\* when the runner-up is within three points of it.
Fuzzy(header, known) ==
    LET Best == {h \in known : \A k \in known : Score(header, k) <= Score(header, h)}
        best == CHOOSE h \in Best : TRUE
        rivals == {k \in known \ {best} : Score(header, k) >= Threshold
                                /\ Score(header, best) - Score(header, k) <= 3}
    IN IF known = {} \/ Score(header, best) < Threshold \/ rivals # {}
       THEN None
       ELSE best

\* KBSnapshotLabelStore.lookup: <<label, kind of match>>.
Lookup(rows, header, db, table) ==
    LET active == {i \in DOMAIN rows : rows[i].status = "active"}
        At(n) == {i \in active : /\ rows[i].header = header
                                 /\ rows[i].db = Levels(db, table)[n].db
                                 /\ rows[i].table = Levels(db, table)[n].table}
        hits == {n \in Allowed(db, table) : At(n) # {}}
        like == Fuzzy(header, {rows[i].header : i \in active})
    IN CASE hits # {} ->
              <<MostSensitive(rows, At(First(hits))), Levels(db, table)[First(hits)].name>>
         [] hits = {} /\ like # None ->
              <<MostSensitive(rows, {i \in active : rows[i].header = like}), "fuzzy">>
         [] OTHER -> <<None, "none">>

---------------------------------------------------------------------------
\* How close a row is to a context: 3 for both, 2 for the table alone, 1 for
\* the database alone, 0 for a generic row, -1 for a row of another context.
Closeness(row, db, table) ==
    CASE row.db # None /\ row.table # None ->
             IF row.db = db /\ row.table = table THEN 3 ELSE -1
      [] row.db = None /\ row.table # None -> IF row.table = table THEN 2 ELSE -1
      [] row.db # None /\ row.table = None -> IF row.db = db THEN 1 ELSE -1
      [] OTHER -> 0

\* Of the active rows for a header, those closest to a context.
Closest(rows, header, db, table) ==
    LET own == {i \in DOMAIN rows : rows[i].status = "active" /\ rows[i].header = header}
    IN {i \in own : /\ Closeness(rows[i], db, table) >= 0
                    /\ \A j \in own : Closeness(rows[j], db, table)
                                       <= Closeness(rows[i], db, table)}

\* Of the active rows for a column's own header, the closest to the caller's
\* context decide, and they give a personal label as soon as one of them
\* does, whatever the order of the rows (kb_label_store.py:8-11).
MostSpecificWins ==
    \A f \in DOMAIN kb :
        LET closest == Closest(kb[f], f, context.db, context.table)
            label == Lookup(kb[f], f, context.db, context.table)[1]
        IN closest # {} =>
              /\ label \in {kb[f][i].label : i \in closest}
              /\ label \in NonPII => \A i \in closest : kb[f][i].label \in NonPII
===========================================================================
