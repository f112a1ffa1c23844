----------------------- MODULE AnonymizerParts_proofs -----------------------
(***************************************************************************)
(* Theorems about the parts of Anonymizer that know nothing of its store:  *)
(* the label of a column (HeaderLookup), for any snapshot; the replacing   *)
(* of keys in a text (Replacing), for any text, any alphabet and any       *)
(* mapping; and the events of a call (EventBus), for any number of         *)
(* subscribers and any limits.                                             *)
(*                                                                         *)
(* A text that is not empty begins with a key or with a symbol that stays  *)
(* (TextCases), and Substitute does the same to the rest (SubstituteSkip,  *)
(* SubstituteKey): what is said of every text follows from its rests,      *)
(* which are shorter (ByLength).  What every turn of ReplaceInTurn keeps   *)
(* holds when no key is left (AllTurns).  Least numbers stand in the place *)
(* of an induction theorem.                                                *)
(*                                                                         *)
(* Of the bus, Sound says what holds of one subscriber, as a fact about    *)
(* its values: st its stage, r its replay, q its queue, k the last event   *)
(* it saw, d those it lost, n the events emitted so far.  The lemmas show  *)
(* that each thing that may happen to a subscriber keeps it; the theorems  *)
(* then only follow the actions.                                           *)
(***************************************************************************)
EXTENDS EventBus, HeaderLookup, Replacing, SequenceTheorems, FiniteSetTheorems,
        WellFoundedInduction, TLAPS

---------------------------------------------------------------------------
(* Least numbers, in the place of induction. *)
LEMMA Minimum ==
  ASSUME NEW S, S \subseteq Nat, S # {}
  PROVE  \E n \in S : \A m \in S : n <= m
  <1> DEFINE R == OpToRel(<, Nat)
  <1>1. IsWellFoundedOn(R, Nat)
    BY NatLessThanWellFounded
  <1>2. ASSUME NEW x \in Nat, NEW y \in Nat, x < y PROVE <<x, y>> \in R
    BY <1>2 DEF OpToRel
  <1> HIDE DEF R
  <1>3. PICK n \in S : \A m \in S : ~ (<<m, n>> \in R)
    BY <1>1, WFMin
  <1>4. \A m \in S : ~(m < n)
    BY <1>2, <1>3
  <1> QED BY <1>4

LEMMA Induction ==
  ASSUME NEW S, 0 \in S, \A n \in Nat : n \in S => n + 1 \in S
  PROVE Nat \subseteq S
  <1>1. SUFFICES ASSUME Nat \ S # {} PROVE FALSE
    OBVIOUS
  <1>2. PICK n \in Nat \ S : \A m \in Nat \ S : n <= m
    BY <1>1, Minimum
  <1>3. n # 0 /\ n - 1 \in Nat
    BY <1>2
  <1>4. n - 1 \in S
    BY <1>2, <1>3
  <1> QED BY <1>2, <1>3, <1>4

---------------------------------------------------------------------------
(* The label of a column. *)
LEMMA FirstOf ==
  ASSUME NEW I, I \subseteq Nat, I # {}
  PROVE  First(I) \in I /\ \A j \in I : First(I) <= j
  BY Minimum DEF First

\* Row i decides for the rows I.
Decides(rows, I, i) ==
    /\ i \in I
    /\ rows[i].label \in NonPII => \A j \in I : rows[j].label \in NonPII

LEMMA MostSensitiveOf ==
  ASSUME NEW rows, NEW I, I \subseteq Nat, I # {}
  PROVE  \E i : Decides(rows, I, i) /\ MostSensitive(rows, I) = rows[i].label
  <1>1. PICK P : P = {i \in I : rows[i].label \notin NonPII}
    OBVIOUS
  <1>2. CASE P # {}
    <2>1. First(P) \in P
      BY <1>1, <1>2, FirstOf
    <2> QED BY <1>1, <1>2, <2>1 DEF MostSensitive, Decides
  <1>3. CASE P = {}
    <2>1. First(I) \in I
      BY FirstOf
    <2> QED BY <1>1, <1>3, <2>1 DEF MostSensitive, Decides
  <1> QED BY <1>2, <1>3

AtLevel(r, db, table, n) ==
    r.db = Levels(db, table)[n].db /\ r.table = Levels(db, table)[n].table

\* The levels of the lookup are the degrees of closeness.
LEMMA LevelsAreCloseness ==
  ASSUME NEW db, NEW table, NEW r
  PROVE  /\ \A n \in Allowed(db, table) :
               AtLevel(r, db, table, n) <=> Closeness(r, db, table) = 4 - n
         /\ Closeness(r, db, table) \in {-1, 0, 1, 2, 3}
         /\ Closeness(r, db, table) >= 0 => 4 - Closeness(r, db, table) \in Allowed(db, table)
  <1>1. /\ Levels(db, table)[1].db = db /\ Levels(db, table)[1].table = table
        /\ Levels(db, table)[2].db = None /\ Levels(db, table)[2].table = table
        /\ Levels(db, table)[3].db = db /\ Levels(db, table)[3].table = None
        /\ Levels(db, table)[4].db = None /\ Levels(db, table)[4].table = None
    BY DEF Levels
  <1>2. PICK d, t, c : d = r.db /\ t = r.table /\ c = Closeness(r, db, table)
    OBVIOUS
  <1>3. c = IF d # None /\ t # None THEN IF d = db /\ t = table THEN 3 ELSE -1
            ELSE IF d = None /\ t # None THEN IF t = table THEN 2 ELSE -1
            ELSE IF d # None /\ t = None THEN IF d = db THEN 1 ELSE -1
            ELSE 0
    BY <1>2 DEF Closeness
  <1>4. Allowed(db, table) =
           {n \in 1..4 : (n \in {1, 3} => db # None) /\ (n \in {1, 2} => table # None)}
    BY DEF Allowed
  <1>5. c \in {-1, 0, 1, 2, 3} /\ (c >= 0 => 4 - c \in Allowed(db, table))
    BY <1>3, <1>4
  <1>6. ASSUME NEW n \in Allowed(db, table) PROVE AtLevel(r, db, table, n) <=> c = 4 - n
    <2>1. n \in 1..4 /\ (n \in {1, 3} => db # None) /\ (n \in {1, 2} => table # None)
      BY <1>4
    <2>2. AtLevel(r, db, table, n) <=> d = Levels(db, table)[n].db /\ t = Levels(db, table)[n].table
      BY <1>2 DEF AtLevel
    <2>3. CASE n = 1
      BY <1>1, <1>3, <2>1, <2>2, <2>3
    <2>4. CASE n = 2
      BY <1>1, <1>3, <2>1, <2>2, <2>4
    <2>5. CASE n = 3
      BY <1>1, <1>3, <2>1, <2>2, <2>5
    <2>6. CASE n = 4
      BY <1>1, <1>3, <2>1, <2>2, <2>6
    <2> QED BY <2>1, <2>3, <2>4, <2>5, <2>6
  <1> QED BY <1>2, <1>5, <1>6

\* A lookup answers with a label of the closest rows.
LEMMA LookupClosest ==
  ASSUME NEW rows, NEW f, NEW db, NEW table, DOMAIN rows \subseteq Nat,
         Closest(rows, f, db, table) # {}
  PROVE  \E i \in Closest(rows, f, db, table) :
            /\ Lookup(rows, f, db, table)[1] = rows[i].label
            /\ rows[i].label \in NonPII =>
                  \A j \in Closest(rows, f, db, table) : rows[j].label \in NonPII
  <1> DEFINE own == {i \in DOMAIN rows : rows[i].status = "active" /\ rows[i].header = f}
  <1> SUFFICES ASSUME NEW closest, closest # {},
                      closest = {i \in own : /\ Closeness(rows[i], db, table) >= 0
                                             /\ \A j \in own : Closeness(rows[j], db, table)
                                                                <= Closeness(rows[i], db, table)}
               PROVE  \E i \in closest :
                         /\ Lookup(rows, f, db, table)[1] = rows[i].label
                         /\ rows[i].label \in NonPII =>
                               \A j \in closest : rows[j].label \in NonPII
    BY DEF Closest
  <1> DEFINE active == {i \in DOMAIN rows : rows[i].status = "active"}
             At(n) == {i \in active : /\ rows[i].header = f
                                      /\ rows[i].db = Levels(db, table)[n].db
                                      /\ rows[i].table = Levels(db, table)[n].table}
             hits == {n \in Allowed(db, table) : At(n) # {}}
  <1>1. \A n \in Allowed(db, table) :
           At(n) = {i \in own : Closeness(rows[i], db, table) = 4 - n}
    BY LevelsAreCloseness DEF AtLevel
  <1>2. PICK a \in closest : TRUE
    OBVIOUS
  <1>3. PICK n : n = 4 - Closeness(rows[a], db, table)
    OBVIOUS
  <1>4. \A i \in own : Closeness(rows[i], db, table) \in {-1, 0, 1, 2, 3}
    BY LevelsAreCloseness
  <1>5. n \in Allowed(db, table) /\ Closeness(rows[a], db, table) = 4 - n /\ n \in 1..4
    BY <1>2, <1>3, <1>4, LevelsAreCloseness
  <1>6. At(n) = closest
    <2>1. \A i \in closest : Closeness(rows[i], db, table) = 4 - n
      BY <1>2, <1>4, <1>5
    <2>2. \A i \in own : Closeness(rows[i], db, table) = 4 - n => i \in closest
      BY <1>2, <1>4, <1>5
    <2> QED BY <1>1, <1>5, <2>1, <2>2
  <1>7. hits \subseteq Nat /\ n \in hits
    BY <1>5, <1>6 DEF Allowed
  <1>8. First(hits) = n
    <2>1. First(hits) \in hits /\ First(hits) <= n
      BY <1>7, FirstOf
    <2>2. PICK m : m = First(hits)
      OBVIOUS
    <2>3. m \in Allowed(db, table) /\ m \in Nat /\ At(m) # {} /\ m <= n
      BY <1>7, <2>1, <2>2
    <2>4. PICK i \in own : Closeness(rows[i], db, table) = 4 - m
      BY <1>1, <2>3
    <2>5. Closeness(rows[i], db, table) <= Closeness(rows[a], db, table)
      BY <1>2
    <2>6. m = n
      BY <1>5, <2>3, <2>4, <2>5
    <2> QED BY <2>2, <2>6
  <1>9. hits # {} /\ At(First(hits)) = closest
    BY <1>6, <1>7, <1>8
  <1>10. Lookup(rows, f, db, table) =
            <<MostSensitive(rows, closest), Levels(db, table)[First(hits)].name>>
    <2> HIDE DEF At
    <2>1. Lookup(rows, f, db, table) =
             <<MostSensitive(rows, At(First(hits))), Levels(db, table)[First(hits)].name>>
      BY <1>9 DEF Lookup, At
    <2> QED BY <1>9, <2>1
  <1>11. closest \subseteq Nat
    OBVIOUS
  <1>12. PICK i : Decides(rows, closest, i) /\ MostSensitive(rows, closest) = rows[i].label
    BY <1>11, MostSensitiveOf
  <1>13. Lookup(rows, f, db, table)[1] = MostSensitive(rows, closest)
    BY <1>10
  <1> QED BY <1>12, <1>13 DEF Decides

\* Whatever rows a snapshot has, in whatever order, the rows closest to the
\* caller's context decide the label of a column, and it is personal as soon
\* as one of them says so (kb_label_store.py:20-28, 53-73).
THEOREM ClosestDecide == (\A f \in DOMAIN kb : DOMAIN kb[f] \subseteq Nat) => MostSpecificWins
  <1> SUFFICES ASSUME NEW f \in DOMAIN kb, NEW all, all = kb[f], DOMAIN all \subseteq Nat,
                      NEW db, db = context.db, NEW table, table = context.table,
                      Closest(all, f, db, table) # {}
               PROVE  /\ Lookup(all, f, db, table)[1] \in
                            {all[i].label : i \in Closest(all, f, db, table)}
                      /\ Lookup(all, f, db, table)[1] \in NonPII =>
                            \A i \in Closest(all, f, db, table) : all[i].label \in NonPII
    BY DEF MostSpecificWins
  <1> QED BY LookupClosest

---------------------------------------------------------------------------
(* Texts in two parts. *)
Joins(A, t, p, r) ==
    /\ t \in Seq(A) /\ p \in Seq(A) /\ r \in Seq(A)
    /\ Len(p) \in Nat /\ Len(r) \in Nat /\ Len(t) = Len(p) + Len(r)
    /\ \A i \in 1..Len(p) : t[i] = p[i]
    /\ \A i \in 1..Len(r) : t[Len(p) + i] = r[i]

LEMMA JoinsConcat ==
  ASSUME NEW A, NEW p \in Seq(A), NEW r \in Seq(A)
  PROVE  Joins(A, p \o r, p, r)
  <1>1. PICK t : t = p \o r
    OBVIOUS
  <1>2. /\ t \in Seq(A) /\ Len(t) = Len(p) + Len(r)
        /\ \A i \in 1..(Len(p) + Len(r)) : t[i] = IF i <= Len(p) THEN p[i] ELSE r[i - Len(p)]
    BY <1>1, ConcatProperties
  <1>3. Len(p) \in Nat /\ Len(r) \in Nat
    OBVIOUS
  <1>4. \A i \in 1..Len(p) : t[i] = p[i]
    BY <1>2, <1>3
  <1>5. \A i \in 1..Len(r) : t[Len(p) + i] = r[i]
    <2> TAKE i \in 1..Len(r)
    <2>1. Len(p) + i \in 1..(Len(p) + Len(r)) /\ ~(Len(p) + i <= Len(p)) /\ Len(p) + i - Len(p) = i
      BY <1>3
    <2> QED BY <1>2, <2>1
  <1>6. Joins(A, t, p, r)
    BY <1>2, <1>3, <1>4, <1>5 DEF Joins
  <1> QED BY <1>1, <1>6

LEMMA ConcatJoins ==
  ASSUME NEW A, NEW t, NEW p, NEW r, Joins(A, t, p, r)
  PROVE  t = p \o r
  <1>1. /\ t \in Seq(A) /\ p \in Seq(A) /\ r \in Seq(A)
        /\ Len(p) \in Nat /\ Len(r) \in Nat /\ Len(t) = Len(p) + Len(r)
        /\ \A i \in 1..Len(p) : t[i] = p[i]
        /\ \A i \in 1..Len(r) : t[Len(p) + i] = r[i]
    BY DEF Joins
  <1>2. PICK u : u = p \o r
    OBVIOUS
  <1>3. Joins(A, u, p, r)
    BY <1>1, <1>2, JoinsConcat
  <1>4. /\ u \in Seq(A) /\ Len(u) = Len(p) + Len(r)
        /\ \A i \in 1..Len(p) : u[i] = p[i]
        /\ \A i \in 1..Len(r) : u[Len(p) + i] = r[i]
    BY <1>3 DEF Joins
  <1>5. ASSUME NEW i \in 1..Len(t) PROVE t[i] = u[i]
    <2>1. CASE i <= Len(p)
      <3>1. i \in 1..Len(p)
        BY <1>1, <2>1
      <3> QED BY <1>1, <1>4, <3>1
    <2>2. CASE i > Len(p)
      <3>1. i - Len(p) \in 1..Len(r) /\ Len(p) + (i - Len(p)) = i
        BY <1>1, <2>2
      <3>2. t[Len(p) + (i - Len(p))] = r[i - Len(p)] /\ u[Len(p) + (i - Len(p))] = r[i - Len(p)]
        BY <1>1, <1>4, <3>1
      <3> QED BY <3>1, <3>2
    <2> QED BY <1>1, <2>1, <2>2
  <1>6. t = u
    BY <1>1, <1>4, <1>5, SeqEqual
  <1> QED BY <1>2, <1>6

\* A text cut in two anywhere.
LEMMA CutJoins ==
  ASSUME NEW A, NEW s \in Seq(A), NEW n \in 0..Len(s)
  PROVE  \E p, r : Joins(A, s, p, r) /\ Len(p) = n
  <1>1. PICK p, r : p = SubSeq(s, 1, n) /\ r = SubSeq(s, n + 1, Len(s))
    OBVIOUS
  <1>2. Len(s) \in Nat /\ n \in Nat /\ n <= Len(s)
    OBVIOUS
  <1>3. p \in Seq(A) /\ Len(p) = n /\ \A i \in 1..n : s[i] = p[i]
    BY <1>1, <1>2
  <1>4. r \in Seq(A) /\ Len(r) = Len(s) - n /\ \A i \in 1..(Len(s) - n) : s[n + i] = r[i]
    BY <1>1, <1>2
  <1>5. Joins(A, s, p, r)
    BY <1>2, <1>3, <1>4 DEF Joins
  <1> QED BY <1>3, <1>5

---------------------------------------------------------------------------
(* Every key at once: the equations of Substitute. *)

\* The keys are words, and so is what replaces them.
Words(A, map) == \A w \in DOMAIN map : w \in Seq(A) /\ map[w] \in Seq(A)

LEMMA KeyAt ==
  ASSUME NEW A, NEW s \in Seq(A), NEW map, Words(A, map), NEW i \in Nat \ {0},
         NEW w \in KeysAt(s, map, i)
  PROVE  /\ w \in DOMAIN map /\ w \in Seq(A) /\ w # <<>> /\ StartsAt(s, w, i)
         /\ Len(w) \in Nat \ {0} /\ i + Len(w) - 1 <= Len(s)
  <1>1. w \in DOMAIN map /\ w # <<>> /\ StartsAt(s, w, i)
    BY DEF KeysAt
  <1>2. w \in Seq(A)
    BY <1>1 DEF Words
  <1>3. Len(w) \in Nat \ {0}
    BY <1>1, <1>2, EmptySeq
  <1> QED BY <1>1, <1>2, <1>3 DEF StartsAt

LEMMA LongestOf ==
  ASSUME NEW S, NEW m \in Nat, S # {}, \A w \in S : Len(w) \in Nat /\ Len(w) <= m
  PROVE  Longest(S) \in S /\ \A v \in S : Len(v) <= Len(Longest(S))
  <1> DEFINE short == {m - Len(w) : w \in S}
  <1>1. short \subseteq Nat /\ short # {}
    OBVIOUS
  <1>2. PICK n \in short : \A k \in short : n <= k
    BY <1>1, Minimum
  <1>3. PICK w \in S : n = m - Len(w)
    BY <1>2
  <1>4. \A v \in S : Len(v) <= Len(w)
    <2> TAKE v \in S
    <2>1. n <= m - Len(v)
      BY <1>2
    <2> QED BY <1>3, <2>1
  <1> QED BY <1>3, <1>4 DEF Longest

LEMMA LongestKey ==
  ASSUME NEW A, NEW s \in Seq(A), NEW map, Words(A, map), NEW i \in Nat \ {0},
         KeysAt(s, map, i) # {}
  PROVE  /\ Longest(KeysAt(s, map, i)) \in KeysAt(s, map, i)
         /\ \A v \in KeysAt(s, map, i) : Len(v) <= Len(Longest(KeysAt(s, map, i)))
  <1>1. Len(s) \in Nat
    OBVIOUS
  <1>2. \A w \in KeysAt(s, map, i) : Len(w) \in Nat /\ Len(w) <= Len(s)
    <2> TAKE w \in KeysAt(s, map, i)
    <2>1. Len(w) \in Nat \ {0} /\ i + Len(w) - 1 <= Len(s)
      BY KeyAt
    <2> QED BY <1>1, <2>1
  <1> QED BY <1>1, <1>2, LongestOf

\* The text from position i on, given what becomes of the positions behind.
From(s, map, i, f) ==
    IF i = Len(s) + 1 THEN <<>>
    ELSE IF KeysAt(s, map, i) = {} THEN <<s[i]>> \o f[i + 1]
    ELSE map[Longest(KeysAt(s, map, i))] \o f[i + Len(Longest(KeysAt(s, map, i)))]
Scan(s, map, n, f) == f = [i \in n..(Len(s) + 1) |-> From(s, map, i, f)]

LEMMA FromAgrees ==
  ASSUME NEW A, NEW s \in Seq(A), NEW map, Words(A, map), NEW i \in 1..(Len(s) + 1),
         NEW f, NEW g, \A j \in (i + 1)..(Len(s) + 1) : f[j] = g[j]
  PROVE  From(s, map, i, f) = From(s, map, i, g)
  <1>1. Len(s) \in Nat /\ i \in Nat \ {0}
    OBVIOUS
  <1>2. CASE i = Len(s) + 1
    BY <1>2 DEF From
  <1>3. CASE i # Len(s) + 1 /\ KeysAt(s, map, i) = {}
    <2>1. i + 1 \in (i + 1)..(Len(s) + 1)
      BY <1>1, <1>3
    <2>2. f[i + 1] = g[i + 1]
      BY <2>1
    <2> QED BY <1>3, <2>2 DEF From
  <1>4. CASE i # Len(s) + 1 /\ KeysAt(s, map, i) # {}
    <2>1. PICK w : w = Longest(KeysAt(s, map, i))
      OBVIOUS
    <2>2. Len(w) \in Nat \ {0} /\ i + Len(w) - 1 <= Len(s)
      BY <1>1, <1>4, <2>1, LongestKey, KeyAt
    <2>3. i + Len(w) \in (i + 1)..(Len(s) + 1)
      BY <1>1, <2>2
    <2>4. f[i + Len(w)] = g[i + Len(w)]
      BY <2>3
    <2> QED BY <1>4, <2>1, <2>4 DEF From
  <1> QED BY <1>2, <1>3, <1>4

LEMMA ScanAt ==
  ASSUME NEW s, NEW map, NEW n, NEW f, Scan(s, map, n, f)
  PROVE  \A i \in n..(Len(s) + 1) : f[i] = From(s, map, i, f)
  BY DEF Scan

LEMMA ScanExists ==
  ASSUME NEW A, NEW s \in Seq(A), NEW map, Words(A, map)
  PROVE  \E f : Scan(s, map, 1, f)
  <1> DEFINE L == Len(s)
             S == {k \in Nat : k <= L => \E f : Scan(s, map, L + 1 - k, f)}
  <1>0. L \in Nat
    OBVIOUS
  <1>1. 0 \in S
    <2> DEFINE f == [i \in (L + 1)..(L + 1) |-> <<>>]
    <2>1. \A i \in (L + 1)..(L + 1) : From(s, map, i, f) = <<>>
      BY <1>0 DEF From
    <2>2. f = [i \in (L + 1)..(L + 1) |-> From(s, map, i, f)]
      BY <2>1
    <2>3. Scan(s, map, L + 1, f)
      <3> HIDE DEF f
      <3> QED BY <2>2 DEF Scan
    <2>4. L + 1 - 0 = L + 1
      BY <1>0
    <2> HIDE DEF f
    <2>5. \E g : Scan(s, map, L + 1 - 0, g)
      BY <2>3, <2>4
    <2> QED BY <2>5
  <1>2. ASSUME NEW k \in Nat, k \in S PROVE k + 1 \in S
    <2> SUFFICES ASSUME k + 1 <= L PROVE \E f : Scan(s, map, L + 1 - (k + 1), f)
      OBVIOUS
    <2>1. PICK n : n = L + 1 - (k + 1)
      OBVIOUS
    <2>2. n \in Nat \ {0} /\ n <= L /\ L + 1 - k = n + 1 /\ k <= L
      BY <1>0, <2>1
    <2>3. PICK g : Scan(s, map, n + 1, g)
      BY <1>2, <2>2
    <2> DEFINE f == [i \in n..(L + 1) |-> From(s, map, i, g)]
    <2>4. \A i \in (n + 1)..(L + 1) : f[i] = g[i]
      BY <1>0, <2>2, <2>3, ScanAt
    <2>5. \A i \in n..(L + 1) : f[i] = From(s, map, i, g)
      OBVIOUS
    <2>6. f = [i \in n..(L + 1) |-> f[i]]
      OBVIOUS
    <2> HIDE DEF f, L
    <2>7. ASSUME NEW i \in n..(L + 1) PROVE f[i] = From(s, map, i, f)
      <3>1. i \in 1..(L + 1) /\ \A j \in (i + 1)..(L + 1) : j \in (n + 1)..(L + 1)
        BY <1>0, <2>2
      <3>2. \A j \in (i + 1)..(L + 1) : f[j] = g[j]
        BY <2>4, <3>1
      <3>3. From(s, map, i, f) = From(s, map, i, g)
        BY <3>1, <3>2, FromAgrees DEF L
      <3> QED BY <2>5, <3>3
    <2>8. f = [i \in n..(L + 1) |-> From(s, map, i, f)]
      BY <2>6, <2>7
    <2>9. Scan(s, map, n, f)
      BY <2>8 DEF Scan, L
    <2> QED BY <2>1, <2>9
  <1> HIDE DEF S
  <1>3. L \in S
    BY <1>0, <1>1, <1>2, Induction
  <1> QED BY <1>0, <1>3 DEF S

LEMMA SubstituteScan ==
  ASSUME NEW A, NEW s \in Seq(A), NEW map, Words(A, map)
  PROVE  \E f : Scan(s, map, 1, f) /\ Substitute(s, map) = f[1]
  <1>1. PICK f0 : Scan(s, map, 1, f0)
    BY ScanExists
  <1> DEFINE Eq(f) == f = [i \in 1..(Len(s) + 1) |->
                              IF i = Len(s) + 1 THEN <<>>
                              ELSE IF KeysAt(s, map, i) = {} THEN <<s[i]>> \o f[i + 1]
                              ELSE LET w == Longest(KeysAt(s, map, i))
                                   IN map[w] \o f[i + Len(w)]]
             g == CHOOSE f : Eq(f)
  <1>2. Eq(g)
    <2>1. Eq(f0)
      BY <1>1 DEF Scan, From
    <2> HIDE DEF Eq
    <2> QED BY <2>1
  <1>3. Substitute(s, map) = g[1]
    BY DEF Substitute
  <1>4. Scan(s, map, 1, g)
    <2> HIDE DEF g
    <2> QED BY <1>2 DEF Scan, From
  <1> QED BY <1>3, <1>4

\* What stands in the second part.
LEMMA StartsShift ==
  ASSUME NEW A, NEW s, NEW p, NEW r, Joins(A, s, p, r), NEW w \in Seq(A), NEW i \in Nat \ {0}
  PROVE  StartsAt(s, w, Len(p) + i) <=> StartsAt(r, w, i)
  <1>0. Len(w) \in Nat
    OBVIOUS
  <1>1. /\ Len(p) \in Nat /\ Len(r) \in Nat /\ Len(s) = Len(p) + Len(r)
        /\ \A j \in 1..Len(r) : s[Len(p) + j] = r[j]
    BY DEF Joins
  <1>2. Len(p) + i + Len(w) - 1 <= Len(s) <=> i + Len(w) - 1 <= Len(r)
    BY <1>0, <1>1
  <1>3. ASSUME i + Len(w) - 1 <= Len(r), NEW j \in 1..Len(w)
        PROVE  s[Len(p) + i + j - 1] = r[i + j - 1]
    <2>1. i + j - 1 \in 1..Len(r) /\ Len(p) + (i + j - 1) = Len(p) + i + j - 1
      BY <1>0, <1>1, <1>3
    <2> QED BY <1>1, <2>1
  <1> QED BY <1>2, <1>3 DEF StartsAt

LEMMA KeysShift ==
  ASSUME NEW A, NEW s, NEW p, NEW r, Joins(A, s, p, r), NEW map, Words(A, map),
         NEW i \in Nat \ {0}
  PROVE  KeysAt(s, map, Len(p) + i) = KeysAt(r, map, i)
  <1>1. \A w \in DOMAIN map : StartsAt(s, w, Len(p) + i) <=> StartsAt(r, w, i)
    BY StartsShift DEF Words
  <1> QED BY <1>1 DEF KeysAt

LEMMA ScanSuffix ==
  ASSUME NEW A, NEW s, NEW p, NEW r, Joins(A, s, p, r), NEW map, Words(A, map),
         NEW f, Scan(s, map, 1, f), NEW g, Scan(r, map, 1, g)
  PROVE  f[Len(p) + 1] = g[1]
  <1>1. /\ s \in Seq(A) /\ r \in Seq(A)
        /\ Len(p) \in Nat /\ Len(r) \in Nat /\ Len(s) = Len(p) + Len(r)
        /\ \A j \in 1..Len(r) : s[Len(p) + j] = r[j]
    BY DEF Joins
  <1> DEFINE S == {k \in Nat : \A i \in 1..(Len(r) + 1) :
                      Len(r) + 1 <= i + k => f[Len(p) + i] = g[i]}
  <1>2. ASSUME NEW i \in 1..(Len(r) + 1),
               \A j \in (i + 1)..(Len(r) + 1) : f[Len(p) + j] = g[j]
        PROVE  f[Len(p) + i] = g[i]
    <2>1. i \in Nat \ {0} /\ Len(p) + i \in 1..(Len(s) + 1)
      BY <1>1
    <2>2. f[Len(p) + i] = From(s, map, Len(p) + i, f) /\ g[i] = From(r, map, i, g)
      BY <1>1, <2>1, ScanAt
    <2>3. CASE i = Len(r) + 1
      <3>1. Len(p) + i = Len(s) + 1
        BY <1>1, <2>3
      <3> QED BY <2>2, <2>3, <3>1 DEF From
    <2>4. CASE i # Len(r) + 1
      <3>1. /\ Len(p) + i # Len(s) + 1 /\ i \in 1..Len(r)
            /\ i + 1 \in (i + 1)..(Len(r) + 1) /\ Len(p) + i + 1 = Len(p) + (i + 1)
        BY <1>1, <2>1, <2>4
      <3>2. s[Len(p) + i] = r[i] /\ f[Len(p) + i + 1] = g[i + 1]
        BY <1>1, <1>2, <3>1
      <3>3. KeysAt(s, map, Len(p) + i) = KeysAt(r, map, i)
        BY <2>1, KeysShift
      <3>4. CASE KeysAt(r, map, i) = {}
        BY <2>2, <2>4, <3>1, <3>2, <3>3, <3>4 DEF From
      <3>5. CASE KeysAt(r, map, i) # {}
        <4>1. PICK w : w = Longest(KeysAt(r, map, i))
          OBVIOUS
        <4>2. Len(w) \in Nat \ {0} /\ i + Len(w) - 1 <= Len(r)
          BY <1>1, <2>1, <3>5, <4>1, LongestKey, KeyAt
        <4>3. /\ i + Len(w) \in (i + 1)..(Len(r) + 1)
              /\ Len(p) + i + Len(w) = Len(p) + (i + Len(w))
          BY <1>1, <2>1, <4>2
        <4>4. f[Len(p) + i + Len(w)] = g[i + Len(w)]
          BY <1>2, <4>3
        <4> QED BY <2>2, <2>4, <3>1, <3>3, <3>5, <4>1, <4>4 DEF From
      <3> QED BY <3>4, <3>5
    <2> QED BY <2>3, <2>4
  <1>3. 0 \in S
    <2> SUFFICES ASSUME NEW i \in 1..(Len(r) + 1), Len(r) + 1 <= i + 0
                 PROVE  f[Len(p) + i] = g[i]
      OBVIOUS
    <2>1. \A j \in (i + 1)..(Len(r) + 1) : FALSE
      BY <1>1
    <2> QED BY <1>2, <2>1
  <1>4. ASSUME NEW k \in Nat, k \in S PROVE k + 1 \in S
    <2> SUFFICES ASSUME NEW i \in 1..(Len(r) + 1), Len(r) + 1 <= i + (k + 1)
                 PROVE  f[Len(p) + i] = g[i]
      OBVIOUS
    <2>1. ASSUME NEW j \in (i + 1)..(Len(r) + 1) PROVE f[Len(p) + j] = g[j]
      <3>1. j \in 1..(Len(r) + 1) /\ Len(r) + 1 <= j + k
        BY <1>1
      <3> QED BY <1>4, <3>1
    <2> QED BY <1>2, <2>1
  <1> HIDE DEF S
  <1>5. Len(r) \in S
    BY <1>1, <1>3, <1>4, Induction
  <1>6. 1 \in 1..(Len(r) + 1) /\ Len(r) + 1 <= 1 + Len(r)
    BY <1>1
  <1> QED BY <1>5, <1>6 DEF S

LEMMA SubstituteFrom ==
  ASSUME NEW A, NEW s, NEW p, NEW r, Joins(A, s, p, r), NEW map, Words(A, map),
         NEW f, Scan(s, map, 1, f), NEW n, n = Len(p) + 1
  PROVE  f[n] = Substitute(r, map)
  <1>1. r \in Seq(A)
    BY DEF Joins
  <1>2. PICK g : Scan(r, map, 1, g) /\ Substitute(r, map) = g[1]
    BY <1>1, SubstituteScan
  <1> QED BY <1>2, ScanSuffix

LEMMA SubstituteEmpty ==
  ASSUME NEW map
  PROVE  Substitute(<<>>, map) = <<>>
  <1> DEFINE A == {}
  <1>1. <<>> \in Seq(A) /\ Len(<<>>) = 0
    BY EmptySeq
  <1> DEFINE Eq(f) == f = [i \in 1..(Len(<<>>) + 1) |->
                              IF i = Len(<<>>) + 1 THEN <<>>
                              ELSE IF KeysAt(<<>>, map, i) = {} THEN <<<<>>[i]>> \o f[i + 1]
                              ELSE LET w == Longest(KeysAt(<<>>, map, i))
                                   IN map[w] \o f[i + Len(w)]]
             g == CHOOSE f : Eq(f)
  <1>2. Eq([i \in 1..1 |-> <<>>])
    BY <1>1
  <1>3. Eq(g)
    <2> HIDE DEF Eq
    <2> QED BY <1>2
  <1>4. Substitute(<<>>, map) = g[1]
    BY DEF Substitute
  <1>5. g[1] = <<>>
    <2> HIDE DEF g
    <2> QED BY <1>1, <1>3
  <1> QED BY <1>4, <1>5

\* A text whose first symbol stays, and one that begins with a key.
Skips(A, s, map, p, r) == Joins(A, s, p, r) /\ Len(p) = 1 /\ KeysAt(s, map, 1) = {}
Begins(A, s, map, p, r) ==
    /\ Joins(A, s, p, r) /\ KeysAt(s, map, 1) # {}
    /\ p = Longest(KeysAt(s, map, 1)) /\ p \in DOMAIN map /\ Len(p) \in Nat \ {0}

\* No key stands at the beginning of s: its first symbol stays.
LEMMA SubstituteSkip ==
  ASSUME NEW A, NEW s, NEW p, NEW r, NEW map, Words(A, map), Skips(A, s, map, p, r)
  PROVE  Substitute(s, map) = p \o Substitute(r, map)
  <1>0. Joins(A, s, p, r) /\ Len(p) = 1 /\ KeysAt(s, map, 1) = {}
    BY Zenon DEF Skips
  <1>1. s \in Seq(A) /\ p \in Seq(A) /\ Len(s) \in Nat \ {0} /\ s[1] = p[1]
    BY <1>0 DEF Joins
  <1>2. PICK f : Scan(s, map, 1, f) /\ Substitute(s, map) = f[1]
    BY <1>1, SubstituteScan
  <1>3. f[1] = From(s, map, 1, f)
    BY <1>1, <1>2, ScanAt
  <1>4. f[1 + 1] = Substitute(r, map)
    <2>1. PICK n : n = Len(p) + 1
      OBVIOUS
    <2>2. Joins(A, s, p, r) /\ Scan(s, map, 1, f)
      BY <1>0, <1>2
    <2>3. f[n] = Substitute(r, map)
      BY <2>1, <2>2, SubstituteFrom
    <2> QED BY <1>0, <2>1, <2>3
  <1>5. <<p[1]>> = p
    BY <1>0, <1>1
  <1>6. From(s, map, 1, f) = <<s[1]>> \o f[1 + 1]
    <2>1. 1 # Len(s) + 1
      BY <1>1
    <2> QED BY <1>0, <2>1 DEF From
  <1> QED BY <1>1, <1>2, <1>3, <1>4, <1>5, <1>6

\* A key does, the longest one: it is replaced.
LEMMA SubstituteKey ==
  ASSUME NEW A, NEW s, NEW p, NEW r, NEW map, Words(A, map), Begins(A, s, map, p, r)
  PROVE  Substitute(s, map) = map[p] \o Substitute(r, map)
  <1>0. Joins(A, s, p, r) /\ KeysAt(s, map, 1) # {} /\ p = Longest(KeysAt(s, map, 1))
    BY Zenon DEF Begins
  <1>1. s \in Seq(A) /\ Len(s) \in Nat /\ Len(p) \in Nat
    BY <1>0 DEF Joins
  <1>2. PICK f : Scan(s, map, 1, f) /\ Substitute(s, map) = f[1]
    BY <1>1, SubstituteScan
  <1>3. Len(s) # 0
    <2>1. Len(p) \in Nat \ {0} /\ 1 + Len(p) - 1 <= Len(s)
      BY <1>0, <1>1, LongestKey, KeyAt
    <2> QED BY <1>1, <2>1
  <1>4. f[1] = From(s, map, 1, f)
    BY <1>1, <1>2, ScanAt
  <1>5. f[1 + Len(p)] = Substitute(r, map)
    <2>1. 1 + Len(p) = Len(p) + 1
      BY <1>1
    <2>2. PICK n : n = Len(p) + 1
      OBVIOUS
    <2>3. Joins(A, s, p, r) /\ Scan(s, map, 1, f)
      BY <1>0, <1>2
    <2>4. f[n] = Substitute(r, map)
      BY <2>2, <2>3, SubstituteFrom
    <2> QED BY <2>1, <2>2, <2>4
  <1>6. From(s, map, 1, f) = map[p] \o f[1 + Len(p)]
    <2>1. 1 # Len(s) + 1
      BY <1>1, <1>3
    <2> QED BY <1>0, <2>1 DEF From
  <1> QED BY <1>2, <1>4, <1>5, <1>6

\* Every text is empty or one of them.
LEMMA TextCases ==
  ASSUME NEW A, NEW s \in Seq(A), NEW map, Words(A, map)
  PROVE  \/ s = <<>>
         \/ \E p, r : Skips(A, s, map, p, r)
         \/ \E p, r : Begins(A, s, map, p, r)
  <1>1. CASE KeysAt(s, map, 1) # {}
    <2>1. PICK w : w = Longest(KeysAt(s, map, 1))
      OBVIOUS
    <2>2. /\ w \in DOMAIN map /\ w \in Seq(A) /\ StartsAt(s, w, 1)
          /\ Len(w) \in Nat \ {0} /\ 1 + Len(w) - 1 <= Len(s)
      BY <1>1, <2>1, LongestKey, KeyAt
    <2>3. Len(s) \in Nat /\ Len(w) \in 0..Len(s)
      BY <2>2
    <2>4. PICK p, r : Joins(A, s, p, r) /\ Len(p) = Len(w)
      BY <2>3, CutJoins
    <2>5. p = w
      <3>1. p \in Seq(A) /\ \A i \in 1..Len(p) : s[i] = p[i]
        BY <2>4 DEF Joins
      <3>2. \A j \in 1..Len(w) : s[1 + j - 1] = w[j]
        BY <2>2 DEF StartsAt
      <3>3. \A j \in 1..Len(w) : 1 + j - 1 = j
        BY <2>2
      <3>4. \A j \in 1..Len(w) : p[j] = w[j]
        BY <2>4, <3>1, <3>2, <3>3
      <3> QED BY <2>2, <2>4, <3>1, <3>4, SeqEqual
    <2> QED BY <1>1, <2>1, <2>2, <2>4, <2>5 DEF Begins
  <1>2. CASE KeysAt(s, map, 1) = {} /\ s # <<>>
    <2>1. 1 \in 0..Len(s)
      BY <1>2, EmptySeq
    <2> QED BY <1>2, <2>1, CutJoins DEF Skips
  <1> QED BY <1>1, <1>2

\* Induction over the length of a text.
LEMMA ByLength ==
  ASSUME NEW A, NEW S,
         \A s \in Seq(A) : (\A t \in Seq(A) : Len(t) < Len(s) => t \in S) => s \in S
  PROVE  Seq(A) \subseteq S
  <1> DEFINE N == {n \in Nat : \A s \in Seq(A) : Len(s) < n => s \in S}
  <1>1. 0 \in N
    <2>1. \A s \in Seq(A) : Len(s) \in Nat
      OBVIOUS
    <2> QED BY <2>1
  <1>2. ASSUME NEW n \in Nat, n \in N PROVE n + 1 \in N
    <2> SUFFICES ASSUME NEW s \in Seq(A), Len(s) < n + 1 PROVE s \in S
      OBVIOUS
    <2>1. ASSUME NEW t \in Seq(A), Len(t) < Len(s) PROVE t \in S
      <3>1. Len(t) \in Nat /\ Len(s) \in Nat
        OBVIOUS
      <3>2. Len(t) < n
        BY <2>1, <3>1
      <3> QED BY <1>2, <3>2
    <2> QED BY <2>1
  <1> HIDE DEF N
  <1>3. Nat \subseteq N
    BY <1>1, <1>2, Induction
  <1>4. ASSUME NEW s \in Seq(A) PROVE s \in S
    <2>1. Len(s) + 1 \in N /\ Len(s) < Len(s) + 1
      BY <1>3
    <2> QED BY <2>1 DEF N
  <1> QED BY <1>4

LEMMA SubstituteType ==
  ASSUME NEW A, NEW map, Words(A, map)
  PROVE  \A s \in Seq(A) : Substitute(s, map) \in Seq(A)
  <1> DEFINE S == {s \in Seq(A) : Substitute(s, map) \in Seq(A)}
  <1>1. ASSUME NEW s \in Seq(A), \A t \in Seq(A) : Len(t) < Len(s) => t \in S
        PROVE  Substitute(s, map) \in Seq(A)
    <2>1. CASE s = <<>>
      BY <2>1, SubstituteEmpty
    <2>2. ASSUME NEW p, NEW r, Skips(A, s, map, p, r) PROVE Substitute(s, map) \in Seq(A)
      <3>1. p \in Seq(A) /\ r \in Seq(A) /\ Len(r) < Len(s)
        BY <2>2 DEF Skips, Joins
      <3>2. Substitute(s, map) = p \o Substitute(r, map)
        BY <2>2, SubstituteSkip
      <3>3. Substitute(r, map) \in Seq(A)
        BY <1>1, <3>1
      <3> QED BY <3>1, <3>2, <3>3, ConcatProperties
    <2>3. ASSUME NEW p, NEW r, Begins(A, s, map, p, r) PROVE Substitute(s, map) \in Seq(A)
      <3>1. map[p] \in Seq(A) /\ r \in Seq(A) /\ Len(r) < Len(s)
        BY <2>3 DEF Begins, Joins, Words
      <3>2. Substitute(s, map) = map[p] \o Substitute(r, map)
        BY <2>3, SubstituteKey
      <3>3. Substitute(r, map) \in Seq(A)
        BY <1>1, <3>1
      <3> QED BY <3>1, <3>2, <3>3, ConcatProperties
    <2> QED BY <2>1, <2>2, <2>3, TextCases
  <1>2. \A s \in Seq(A) : (\A t \in Seq(A) : Len(t) < Len(s) => t \in S) => s \in S
    BY <1>1
  <1> HIDE DEF S
  <1>3. Seq(A) \subseteq S
    BY <1>2, ByLength
  <1> QED BY <1>3 DEF S

---------------------------------------------------------------------------
(* What is left of a text: no word stands across the border of a replacement. *)

\* Nothing is replaced by nothing; v is clear of all replacements.
Marks(map) == \A w \in DOMAIN map : map[w] # <<>>
ClearOf(v, map) == \A w \in DOMAIN map : Clear(v, map[w])

\* No replacement begins among the first n symbols.
Foreign(out, map, n) == \A j \in 1..n : \A w \in DOMAIN map : out[j] # map[w][1]
RunOK(s, out, map) ==
    \A n \in 0..Len(out) : Foreign(out, map, n) =>
        /\ n <= Len(s)
        /\ \A j \in 1..n : s[j] = out[j]
        /\ n > 0 => KeysAt(s, map, 1) = {}

LEMMA RunSkips ==
  ASSUME NEW A, NEW s, NEW p, NEW r, NEW map, Words(A, map), Skips(A, s, map, p, r),
         NEW out, NEW rest, Joins(A, out, p, rest), RunOK(r, rest, map)
  PROVE  RunOK(s, out, map)
  <1>0. Joins(A, s, p, r) /\ Len(p) = 1 /\ KeysAt(s, map, 1) = {}
    BY Zenon DEF Skips
  <1>1. /\ Len(r) \in Nat /\ Len(s) = 1 + Len(r) /\ s[1] = p[1]
        /\ \A i \in 1..Len(r) : s[1 + i] = r[i]
    BY <1>0 DEF Joins
  <1>2. /\ Len(rest) \in Nat /\ Len(out) = 1 + Len(rest) /\ out[1] = p[1]
        /\ \A i \in 1..Len(rest) : out[1 + i] = rest[i]
    BY <1>0 DEF Joins
  <1> SUFFICES ASSUME NEW n \in 0..Len(out), Foreign(out, map, n)
               PROVE  n <= Len(s) /\ \A j \in 1..n : s[j] = out[j]
    BY <1>0 DEF RunOK
  <1>3. CASE n = 0
    BY <1>1, <1>3
  <1>4. CASE n # 0
    <2>1. PICK m : m = n - 1
      OBVIOUS
    <2>2. m \in 0..Len(rest) /\ n = m + 1 /\ m \in Nat
      BY <1>2, <1>4, <2>1
    <2>3. Foreign(rest, map, m)
      <3>1. ASSUME NEW j \in 1..m PROVE 1 + j \in 1..n /\ rest[j] = out[1 + j]
        BY <1>2, <2>2
      <3>2. \A j \in 1..n : \A w \in DOMAIN map : out[j] # map[w][1]
        BY DEF Foreign
      <3>3. \A j \in 1..m : \A w \in DOMAIN map : rest[j] # map[w][1]
        BY <3>1, <3>2
      <3> QED BY <3>3 DEF Foreign
    <2>4. m <= Len(r) /\ \A j \in 1..m : r[j] = rest[j]
      BY <2>2, <2>3 DEF RunOK
    <2>5. ASSUME NEW j \in 1..n PROVE s[j] = out[j]
      <3>1. CASE j = 1
        BY <1>1, <1>2, <3>1
      <3>2. CASE j # 1
        <4>1. PICK i : i = j - 1
          OBVIOUS
        <4>2. i \in 1..m /\ i \in 1..Len(r) /\ i \in 1..Len(rest) /\ j = 1 + i
          BY <1>1, <2>2, <2>4, <3>2, <4>1
        <4>3. s[1 + i] = r[i] /\ out[1 + i] = rest[i] /\ r[i] = rest[i]
          BY <1>1, <1>2, <2>4, <4>2
        <4> QED BY <4>2, <4>3
      <3> QED BY <3>1, <3>2
    <2> QED BY <1>1, <2>2, <2>4, <2>5
  <1> QED BY <1>3, <1>4

LEMMA RunBegins ==
  ASSUME NEW A, NEW s \in Seq(A), NEW map, Words(A, map), NEW k \in DOMAIN map, map[k] # <<>>,
         NEW out, NEW rest, Joins(A, out, map[k], rest)
  PROVE  RunOK(s, out, map)
  <1>1. map[k] \in Seq(A) /\ Len(map[k]) \in Nat \ {0}
    BY EmptySeq DEF Words
  <1>2. 1 \in 1..Len(map[k]) /\ out[1] = map[k][1]
    BY <1>1 DEF Joins
  <1>3. \A n \in 0..Len(out) : Foreign(out, map, n) => n = 0
    <2> SUFFICES ASSUME NEW n \in 0..Len(out), Foreign(out, map, n), n # 0 PROVE FALSE
      OBVIOUS
    <2>1. 1 \in 1..n
      OBVIOUS
    <2> QED BY <1>2, <2>1 DEF Foreign
  <1>4. 0 <= Len(s) /\ \A j \in 1..0 : FALSE
    OBVIOUS
  <1> QED BY <1>3, <1>4 DEF RunOK

LEMMA RunHolds ==
  ASSUME NEW A, NEW map, Words(A, map), Marks(map)
  PROVE  \A s \in Seq(A) : RunOK(s, Substitute(s, map), map)
  <1> DEFINE S == {s \in Seq(A) : RunOK(s, Substitute(s, map), map)}
  <1>1. ASSUME NEW s \in Seq(A), \A t \in Seq(A) : Len(t) < Len(s) => t \in S
        PROVE  RunOK(s, Substitute(s, map), map)
    <2>1. CASE s = <<>>
      <3>1. \A n \in 0..Len(<<>>) : n = 0 /\ n <= Len(<<>>) /\ ~(n > 0)
        OBVIOUS
      <3>2. \A n \in 0..Len(<<>>) : \A j \in 1..n : FALSE
        BY <3>1
      <3>3. RunOK(<<>>, <<>>, map)
        BY <3>1, <3>2 DEF RunOK
      <3> QED BY <2>1, <3>3, SubstituteEmpty
    <2>2. ASSUME NEW p, NEW r, Skips(A, s, map, p, r) PROVE RunOK(s, Substitute(s, map), map)
      <3>1. p \in Seq(A) /\ r \in Seq(A) /\ Len(r) < Len(s)
        BY <2>2 DEF Skips, Joins
      <3>2. Substitute(s, map) = p \o Substitute(r, map)
        BY <2>2, SubstituteSkip
      <3>3. RunOK(r, Substitute(r, map), map)
        BY <1>1, <3>1
      <3>4. Joins(A, Substitute(s, map), p, Substitute(r, map))
        BY <3>1, <3>2, SubstituteType, JoinsConcat
      <3> QED BY <2>2, <3>3, <3>4, RunSkips
    <2>3. ASSUME NEW p, NEW r, Begins(A, s, map, p, r) PROVE RunOK(s, Substitute(s, map), map)
      <3>1. p \in DOMAIN map /\ map[p] \in Seq(A) /\ map[p] # <<>> /\ r \in Seq(A)
        BY <2>3 DEF Begins, Joins, Words, Marks
      <3>2. Substitute(s, map) = map[p] \o Substitute(r, map)
        BY <2>3, SubstituteKey
      <3>3. Joins(A, Substitute(s, map), map[p], Substitute(r, map))
        BY <3>1, <3>2, SubstituteType, JoinsConcat
      <3> QED BY <3>1, <3>3, RunBegins
    <2> QED BY <2>1, <2>2, <2>3, TextCases
  <1>2. \A s \in Seq(A) : (\A t \in Seq(A) : Len(t) < Len(s) => t \in S) => s \in S
    BY <1>1
  <1> HIDE DEF S
  <1>3. Seq(A) \subseteq S
    BY <1>2, ByLength
  <1> QED BY <1>3 DEF S

\* A word clear of every replacement stood in the text before, where
\* no key stood.
Stood(s, map, v) == \E q \in 1..Len(s) : StartsAt(s, v, q) /\ KeysAt(s, map, q) = {}

LEMMA StoodShift ==
  ASSUME NEW A, NEW s, NEW p, NEW r, Joins(A, s, p, r), NEW map, Words(A, map),
         NEW v \in Seq(A), Stood(r, map, v)
  PROVE  Stood(s, map, v)
  <1>1. PICK q \in 1..Len(r) : StartsAt(r, v, q) /\ KeysAt(r, map, q) = {}
    BY DEF Stood
  <1>2. Len(p) \in Nat /\ Len(r) \in Nat /\ Len(s) = Len(p) + Len(r)
    BY DEF Joins
  <1>3. q \in Nat \ {0} /\ Len(p) + q \in 1..Len(s)
    BY <1>2
  <1>4. StartsAt(s, v, Len(p) + q) /\ KeysAt(s, map, Len(p) + q) = {}
    BY <1>1, <1>3, StartsShift, KeysShift
  <1> QED BY <1>3, <1>4 DEF Stood

\* v stands in a text of two parts: in the second, or from within the first.
LEMMA StartsParts ==
  ASSUME NEW A, NEW out, NEW p, NEW rest, Joins(A, out, p, rest), NEW v \in Seq(A),
         NEW i \in Nat \ {0}, StartsAt(out, v, i), i > Len(p)
  PROVE  \E k \in Nat \ {0} : StartsAt(rest, v, k)
  <1>1. Len(p) \in Nat
    BY DEF Joins
  <1>2. PICK k : k = i - Len(p)
    OBVIOUS
  <1>3. k \in Nat \ {0} /\ Len(p) + k = i
    BY <1>1, <1>2
  <1>4. StartsAt(rest, v, k)
    BY <1>3, StartsShift
  <1> QED BY <1>3, <1>4

\* No word clear of t stands in a text from within a t at its beginning.
LEMMA NotInside ==
  ASSUME NEW A, NEW out, NEW t, NEW rest, Joins(A, out, t, rest),
         NEW v \in Seq(A), v # <<>>, Clear(v, t), NEW i \in Nat \ {0}, StartsAt(out, v, i)
  PROVE  i > Len(t)
  <1>1. /\ t \in Seq(A) /\ Len(t) \in Nat
        /\ \A j \in 1..Len(t) : out[j] = t[j]
    BY DEF Joins
  <1>2. Len(v) \in Nat \ {0}
    BY EmptySeq
  <1>3. /\ \A j \in 1..Len(v) : out[i + j - 1] = v[j]
    BY DEF StartsAt
  <1>4. /\ \A j \in 1..Len(v) : v[j] # t[Len(t)]
        /\ \A j \in 1..Len(t) : ~StartsAt(t, v, j)
    BY DEF Clear, Occurs, Positions
  <1> SUFFICES ASSUME i <= Len(t) PROVE FALSE
    BY <1>1
  <1>5. CASE i + Len(v) - 1 <= Len(t)
    <2>1. ASSUME NEW j \in 1..Len(v) PROVE t[i + j - 1] = v[j]
      <3>1. i + j - 1 \in 1..Len(t)
        BY <1>1, <1>2, <1>5
      <3> QED BY <1>1, <1>3, <3>1
    <2>2. StartsAt(t, v, i)
      BY <1>5, <2>1 DEF StartsAt
    <2>3. i \in 1..Len(t)
      BY <1>1
    <2> QED BY <1>4, <2>2, <2>3
  <1>6. CASE i + Len(v) - 1 > Len(t)
    <2>1. PICK j : j = Len(t) - i + 1
      OBVIOUS
    <2>2. j \in 1..Len(v) /\ i + j - 1 = Len(t) /\ Len(t) \in 1..Len(t)
      BY <1>1, <1>2, <1>6, <2>1
    <2>3. out[i + j - 1] = v[j]
      BY <1>3, <2>2
    <2>4. out[Len(t)] = t[Len(t)]
      BY <1>1, <2>2
    <2>5. v[j] # t[Len(t)]
      BY <1>4, <2>2
    <2> QED BY <2>2, <2>3, <2>4, <2>5
  <1> QED BY <1>1, <1>2, <1>5, <1>6

LEMMA Survives ==
  ASSUME NEW A, NEW map, Words(A, map), Marks(map), NEW v \in Seq(A), v # <<>>,
         ClearOf(v, map)
  PROVE  \A s \in Seq(A) : \A i \in Nat \ {0} :
            StartsAt(Substitute(s, map), v, i) => Stood(s, map, v)
  <1> DEFINE S == {s \in Seq(A) : \A i \in Nat \ {0} :
                      StartsAt(Substitute(s, map), v, i) => Stood(s, map, v)}
  <1>0. Len(v) \in Nat \ {0}
    BY EmptySeq
  <1>1. ASSUME NEW s \in Seq(A), \A t \in Seq(A) : Len(t) < Len(s) => t \in S,
               NEW i \in Nat \ {0}, StartsAt(Substitute(s, map), v, i)
        PROVE  Stood(s, map, v)
    <2>0. PICK out : out = Substitute(s, map)
      OBVIOUS
    <2>1. CASE s = <<>>
      <3>1. out = <<>>
        BY <2>0, <2>1, SubstituteEmpty
      <3>2. i + Len(v) - 1 <= 0
        BY <1>1, <2>0, <3>1 DEF StartsAt
      <3> QED BY <1>0, <3>2
    <2>2. ASSUME NEW p, NEW r, Skips(A, s, map, p, r) PROVE Stood(s, map, v)
      <3>1. p \in Seq(A) /\ r \in Seq(A) /\ Len(r) < Len(s) /\ Joins(A, s, p, r)
        BY <2>2 DEF Skips, Joins
      <3>2. out = p \o Substitute(r, map) /\ Len(p) = 1 /\ KeysAt(s, map, 1) = {}
        BY <2>0, <2>2, SubstituteSkip DEF Skips
      <3>3. Joins(A, out, p, Substitute(r, map))
        BY <3>1, <3>2, SubstituteType, JoinsConcat
      <3>4. CASE i = 1
        <4>1. /\ 1 + Len(v) - 1 <= Len(out)
              /\ \A j \in 1..Len(v) : out[1 + j - 1] = v[j]
          BY <1>1, <2>0, <3>4 DEF StartsAt
        <4>2. \A j \in 1..Len(v) : 1 + j - 1 = j
          BY <1>0
        <4>3. \A j \in 1..Len(v) : out[j] = v[j]
          BY <4>1, <4>2
        <4>4. Foreign(out, map, Len(v))
          BY <4>3 DEF Foreign, ClearOf, Clear
        <4>5. Len(out) \in Nat /\ Len(v) \in 0..Len(out)
          <5>1. Len(out) \in Nat
            BY <3>3 DEF Joins
          <5> QED BY <1>0, <4>1, <5>1
        <4>6. RunOK(s, out, map)
          BY <2>0, RunHolds
        <4>7. Len(v) <= Len(s) /\ \A j \in 1..Len(v) : s[j] = out[j]
          BY <4>4, <4>5, <4>6 DEF RunOK
        <4>8. Len(s) \in Nat /\ 1 \in 1..Len(s) /\ 1 + Len(v) - 1 <= Len(s)
          BY <1>0, <4>7
        <4>9. \A j \in 1..Len(v) : s[1 + j - 1] = v[j]
          BY <4>2, <4>3, <4>7
        <4>10. StartsAt(s, v, 1)
          BY <4>8, <4>9 DEF StartsAt
        <4> QED BY <3>2, <4>8, <4>10 DEF Stood
      <3>5. CASE i # 1
        <4>1. i > Len(p) /\ StartsAt(out, v, i)
          BY <1>1, <2>0, <3>2, <3>5
        <4>2. PICK k \in Nat \ {0} : StartsAt(Substitute(r, map), v, k)
          BY <3>3, <4>1, StartsParts
        <4>3. Stood(r, map, v)
          BY <1>1, <3>1, <4>2
        <4> QED BY <3>1, <4>3, StoodShift
      <3> QED BY <3>4, <3>5
    <2>3. ASSUME NEW p, NEW r, Begins(A, s, map, p, r) PROVE Stood(s, map, v)
      <3>1. /\ p \in DOMAIN map /\ map[p] \in Seq(A) /\ r \in Seq(A)
            /\ Len(r) < Len(s) /\ Joins(A, s, p, r)
        BY <2>3 DEF Begins, Joins, Words
      <3>2. out = map[p] \o Substitute(r, map)
        BY <2>0, <2>3, SubstituteKey
      <3>3. Joins(A, out, map[p], Substitute(r, map))
        BY <3>1, <3>2, SubstituteType, JoinsConcat
      <3>4. Len(map[p]) \in Nat /\ \A j \in 1..Len(map[p]) : out[j] = map[p][j]
        BY <3>3 DEF Joins
      <3>5. i > Len(map[p])
        BY <1>1, <2>0, <3>1, <3>3, NotInside DEF ClearOf
      <3>6. StartsAt(out, v, i)
        BY <1>1, <2>0
      <3>7. PICK k \in Nat \ {0} : StartsAt(Substitute(r, map), v, k)
        BY <3>3, <3>5, <3>6, StartsParts
      <3>8. Stood(r, map, v)
        BY <1>1, <3>1, <3>7
      <3> QED BY <3>1, <3>8, StoodShift
    <2> QED BY <2>1, <2>2, <2>3, TextCases
  <1>2. \A s \in Seq(A) : (\A t \in Seq(A) : Len(t) < Len(s) => t \in S) => s \in S
    BY <1>1
  <1> HIDE DEF S
  <1>3. Seq(A) \subseteq S
    BY <1>2, ByLength
  <1> QED BY <1>3 DEF S

\* str.replace leaves no occurrence of its key, and makes none of another word.
LEMMA OneReplaced ==
  ASSUME NEW A, NEW s \in Seq(A), NEW w \in Seq(A), w # <<>>, NEW t \in Seq(A), t # <<>>,
         NEW v \in Seq(A), v # <<>>, Clear(v, t)
  PROVE  Occurs(v, Substitute(s, Single(w, t))) => v # w /\ Occurs(v, s)
  <1>1. PICK map : map = Single(w, t)
    OBVIOUS
  <1>2. DOMAIN map = {w} /\ map[w] = t
    BY <1>1 DEF Single
  <1>3. Words(A, map) /\ Marks(map) /\ ClearOf(v, map)
    BY <1>2 DEF Words, Marks, ClearOf
  <1> SUFFICES ASSUME Occurs(v, Substitute(s, map)) PROVE v # w /\ Occurs(v, s)
    BY <1>1
  <1>4. PICK i \in 1..Len(Substitute(s, map)) : StartsAt(Substitute(s, map), v, i)
    BY DEF Occurs, Positions
  <1>5. i \in Nat \ {0}
    OBVIOUS
  <1>6. Stood(s, map, v)
    BY <1>3, <1>4, <1>5, Survives
  <1>7. PICK q \in 1..Len(s) : StartsAt(s, v, q) /\ KeysAt(s, map, q) = {}
    BY <1>6 DEF Stood
  <1>8. v # w
    BY <1>2, <1>7 DEF KeysAt
  <1>9. Occurs(v, s)
    BY <1>7 DEF Occurs, Positions
  <1> QED BY <1>8, <1>9

---------------------------------------------------------------------------
(* One key after another. *)

LEMMA LongestFinite ==
  ASSUME NEW A, NEW S, IsFiniteSet(S), S \subseteq Seq(A), S # {}
  PROVE  Longest(S) \in S /\ \A v \in S : Len(v) <= Len(Longest(S))
  <1> DEFINE Bounded(T) == \E m \in Nat : \A w \in T : Len(w) <= m
             N == {n \in Nat : \A T \in SUBSET Seq(A) :
                      IsFiniteSet(T) /\ Cardinality(T) = n => Bounded(T)}
  <1>1. 0 \in N
    <2>1. ASSUME NEW T \in SUBSET Seq(A), IsFiniteSet(T), Cardinality(T) = 0 PROVE Bounded(T)
      <3>1. T = {}
        BY <2>1, FS_EmptySet
      <3> QED BY <3>1
    <2> QED BY <2>1
  <1>2. ASSUME NEW n \in Nat, n \in N PROVE n + 1 \in N
    <2>1. ASSUME NEW T \in SUBSET Seq(A), IsFiniteSet(T), Cardinality(T) = n + 1
          PROVE  Bounded(T)
      <3>1. T # {}
        BY <2>1, FS_EmptySet
      <3>2. PICK t \in T : TRUE
        BY <3>1
      <3>3. IsFiniteSet(T \ {t}) /\ Cardinality(T \ {t}) = n
        <4>1. PICK c : c = Cardinality(T) /\ c = n + 1
          BY <2>1
        <4>2. IsFiniteSet(T \ {t}) /\ Cardinality(T \ {t}) = Cardinality(T) - 1
          <5>1. IsFiniteSet(T) /\ t \in T
            BY <2>1
          <5> QED BY <5>1, FS_RemoveElement, Zenon
        <4>3. c - 1 = n
          BY <4>1
        <4> QED BY <4>1, <4>2, <4>3, Zenon
      <3>4. PICK m \in Nat : \A w \in T \ {t} : Len(w) <= m
        BY <1>2, <3>3
      <3>5. Len(t) \in Nat /\ \A w \in T : Len(w) \in Nat
        OBVIOUS
      <3>6. PICK k : k = m + Len(t)
        OBVIOUS
      <3>7. k \in Nat /\ \A w \in T : Len(w) <= k
        BY <3>4, <3>5, <3>6
      <3> QED BY <3>7
    <2> HIDE DEF Bounded
    <2> QED BY <2>1
  <1>3. Cardinality(S) \in Nat
    BY FS_CardinalityType
  <1> HIDE DEF N
  <1>4. Cardinality(S) \in N
    BY <1>1, <1>2, <1>3, Induction
  <1>5. PICK m \in Nat : \A w \in S : Len(w) <= m
    BY <1>4 DEF N
  <1>6. \A w \in S : Len(w) \in Nat /\ Len(w) <= m
    BY <1>5
  <1> QED BY <1>6, LongestOf

\* The text and the keys left: at the start, and after the turn of w.
Start(s, map) == [text |-> s, left |-> DOMAIN map]
Replaced(map, b, w) == [text |-> Substitute(b.text, Single(w, map[w])), left |-> b.left \ {w}]
NextTurn(map, b) == Replaced(map, b, Longest(b.left))
Turns(s, map, n, g) ==
    g = [k \in 0..n |-> IF k = 0 THEN Start(s, map) ELSE NextTurn(map, g[k - 1])]

LEMMA TurnFirst ==
  ASSUME NEW s, NEW map, NEW n \in Nat, NEW g, Turns(s, map, n, g)
  PROVE  g[0] = Start(s, map)
  <1>1. \A k \in 0..n : g[k] = IF k = 0 THEN Start(s, map) ELSE NextTurn(map, g[k - 1])
    BY DEF Turns
  <1> QED BY <1>1

LEMMA TurnNext ==
  ASSUME NEW s, NEW map, NEW n \in Nat, NEW g, Turns(s, map, n, g), NEW k \in 0..n,
         k + 1 \in 0..n
  PROVE  g[k + 1] = NextTurn(map, g[k])
  <1>1. \A i \in 0..n : g[i] = IF i = 0 THEN Start(s, map) ELSE NextTurn(map, g[i - 1])
    BY DEF Turns
  <1>2. k + 1 # 0 /\ (k + 1) - 1 = k
    OBVIOUS
  <1> QED BY <1>1, <1>2

LEMMA TurnsExist ==
  ASSUME NEW s, NEW map, NEW n \in Nat
  PROVE  \E g : Turns(s, map, n, g)
  <1> DEFINE S == {k \in Nat : \E g : Turns(s, map, k, g)}
  <1>1. 0 \in S
    <2> DEFINE h == [k \in 0..0 |-> Start(s, map)]
    <2>1. \A k \in 0..0 : k = 0
      OBVIOUS
    <2>2. h = [k \in 0..0 |-> IF k = 0 THEN Start(s, map) ELSE NextTurn(map, h[k - 1])]
      BY <2>1
    <2> HIDE DEF h
    <2>3. Turns(s, map, 0, h)
      BY <2>2 DEF Turns
    <2> QED BY <2>3
  <1>2. ASSUME NEW i \in Nat, i \in S PROVE i + 1 \in S
    <2>1. PICK g : Turns(s, map, i, g)
      BY <1>2
    <2>2. \A k \in 0..i : g[k] = IF k = 0 THEN Start(s, map) ELSE NextTurn(map, g[k - 1])
      BY <2>1 DEF Turns
    <2> DEFINE h == [k \in 0..(i + 1) |-> IF k = 0 THEN Start(s, map) ELSE NextTurn(map, g[k - 1])]
    <2>3. \A k \in 0..i : h[k] = g[k]
      BY <2>2
    <2>4. \A k \in 0..(i + 1) : k # 0 => k - 1 \in 0..i
      OBVIOUS
    <2>5. \A k \in 0..(i + 1) : k # 0 => h[k - 1] = g[k - 1]
      BY <2>3, <2>4
    <2>6. \A k \in 0..(i + 1) : h[k] = IF k = 0 THEN Start(s, map) ELSE NextTurn(map, h[k - 1])
      BY <2>5
    <2>7. h = [k \in 0..(i + 1) |-> h[k]]
      OBVIOUS
    <2> HIDE DEF h
    <2>8. Turns(s, map, i + 1, h)
      BY <2>6, <2>7 DEF Turns
    <2> QED BY <2>8
  <1> HIDE DEF S
  <1>3. Nat \subseteq S
    BY <1>1, <1>2, Induction
  <1> QED BY <1>3 DEF S

LEMMA ReplaceTurns ==
  ASSUME NEW s, NEW map, IsFiniteSet(DOMAIN map)
  PROVE  \E g : /\ Turns(s, map, Cardinality(DOMAIN map), g)
                /\ ReplaceInTurn(s, map) = g[Cardinality(DOMAIN map)].text
  <1>1. Cardinality(DOMAIN map) \in Nat
    BY FS_CardinalityType
  <1>2. PICK g0 : Turns(s, map, Cardinality(DOMAIN map), g0)
    BY <1>1, TurnsExist
  <1> DEFINE Eq(g) == g = [n \in 0..Cardinality(DOMAIN map) |->
                              IF n = 0 THEN [text |-> s, left |-> DOMAIN map]
                              ELSE LET before == g[n - 1]
                                       w == Longest(before.left)
                                   IN [text |-> Substitute(before.text, Single(w, map[w])),
                                       left |-> before.left \ {w}]]
             f == CHOOSE g : Eq(g)
  <1>3. Eq(f)
    <2>1. Eq(g0)
      BY <1>2 DEF Turns, Start, NextTurn, Replaced
    <2> HIDE DEF Eq
    <2> QED BY <2>1
  <1>4. ReplaceInTurn(s, map) = f[Cardinality(DOMAIN map)].text
    BY DEF ReplaceInTurn
  <1>5. Turns(s, map, Cardinality(DOMAIN map), f)
    <2> HIDE DEF f
    <2> QED BY <1>3 DEF Turns, Start, NextTurn, Replaced
  <1> QED BY <1>4, <1>5

\* What each turn keeps holds at the end, when no key is left.
Turned(A, map, b, n) ==
    /\ b.text \in Seq(A)
    /\ b.left \subseteq DOMAIN map /\ IsFiniteSet(b.left)
    /\ Cardinality(b.left) = Cardinality(DOMAIN map) - n

\* It is the turn of w.
Turn(A, map, b, w) ==
    /\ b.text \in Seq(A) /\ b.left \subseteq DOMAIN map
    /\ w \in b.left /\ \A v \in b.left : Len(v) <= Len(w)

LEMMA TurnKeeps ==
  ASSUME NEW A, NEW map, Words(A, map), IsFiniteSet(DOMAIN map), NEW b, NEW n \in Nat,
         n + 1 <= Cardinality(DOMAIN map), Turned(A, map, b, n)
  PROVE  /\ Turn(A, map, b, Longest(b.left))
         /\ Turned(A, map, NextTurn(map, b), n + 1)
  <1>1. /\ b.text \in Seq(A) /\ b.left \subseteq DOMAIN map /\ IsFiniteSet(b.left)
        /\ Cardinality(b.left) = Cardinality(DOMAIN map) - n
    BY DEF Turned
  <1>2. Cardinality(DOMAIN map) \in Nat
    BY FS_CardinalityType
  <1>3. b.left # {} /\ b.left \subseteq Seq(A)
    <2>1. Cardinality(b.left) # 0
      BY <1>1, <1>2
    <2> QED BY <1>1, <2>1, FS_EmptySet DEF Words
  <1>4. PICK w : w = Longest(b.left)
    OBVIOUS
  <1>5. w \in b.left /\ \A v \in b.left : Len(v) <= Len(w)
    BY <1>1, <1>3, <1>4, LongestFinite
  <1>6. /\ NextTurn(map, b).left = b.left \ {w}
        /\ NextTurn(map, b).text = Substitute(b.text, Single(w, map[w]))
    BY <1>4 DEF NextTurn, Replaced
  <1>7. Substitute(b.text, Single(w, map[w])) \in Seq(A)
    <2>1. Words(A, Single(w, map[w]))
      BY <1>1, <1>5 DEF Words, Single
    <2> QED BY <1>1, <2>1, SubstituteType
  <1>8. /\ IsFiniteSet(b.left \ {w})
        /\ Cardinality(b.left \ {w}) = Cardinality(DOMAIN map) - (n + 1)
    <2>1. IsFiniteSet(b.left) /\ w \in b.left
      BY <1>1, <1>5
    <2>2. IsFiniteSet(b.left \ {w}) /\ Cardinality(b.left \ {w}) = Cardinality(b.left) - 1
      BY <2>1, FS_RemoveElement, Zenon
    <2>3. PICK c, d : c = Cardinality(b.left) /\ d = Cardinality(DOMAIN map)
      OBVIOUS
    <2>4. c = d - n /\ d \in Nat
      BY <1>1, <1>2, <2>3, Zenon
    <2>5. c - 1 = d - (n + 1)
      BY <2>4
    <2> QED BY <2>2, <2>3, <2>5, Zenon
  <1>9. Turned(A, map, NextTurn(map, b), n + 1)
    BY <1>1, <1>6, <1>7, <1>8 DEF Turned
  <1> QED BY <1>1, <1>4, <1>5, <1>9 DEF Turn

\* What every turn keeps holds when no key is left.
LEMMA AllTurns ==
  ASSUME NEW A, NEW s \in Seq(A), NEW map, Words(A, map), IsFiniteSet(DOMAIN map),
         NEW Z, Start(s, map) \in Z,
         \A b \in Z : \A w : Turn(A, map, b, w) => Replaced(map, b, w) \in Z
  PROVE  \E b \in Z : b.left = {} /\ b.text = ReplaceInTurn(s, map)
  <1>0. PICK N : N = Cardinality(DOMAIN map)
    OBVIOUS
  <1>1. N \in Nat
    BY <1>0, FS_CardinalityType
  <1>2. PICK g : Turns(s, map, N, g) /\ ReplaceInTurn(s, map) = g[N].text
    BY <1>0, ReplaceTurns
  <1> DEFINE S == {n \in Nat : n <= N => Turned(A, map, g[n], n) /\ g[n] \in Z}
  <1>3. 0 \in S
    <2>1. g[0] = Start(s, map)
      BY <1>1, <1>2, TurnFirst
    <2>2. Turned(A, map, g[0], 0)
      BY <1>0, <1>1, <2>1 DEF Turned, Start
    <2> QED BY <2>1, <2>2
  <1>4. ASSUME NEW n \in Nat, n \in S PROVE n + 1 \in S
    <2> SUFFICES ASSUME n + 1 <= N PROVE Turned(A, map, g[n + 1], n + 1) /\ g[n + 1] \in Z
      OBVIOUS
    <2>1. n <= N /\ n \in 0..N /\ n + 1 \in 0..N
      BY <1>1
    <2>2. Turned(A, map, g[n], n) /\ g[n] \in Z
      BY <1>4, <2>1
    <2>3. g[n + 1] = NextTurn(map, g[n])
      BY <1>1, <1>2, <2>1, TurnNext
    <2>4. PICK b : b = g[n]
      OBVIOUS
    <2>5. /\ Turn(A, map, b, Longest(b.left))
          /\ Turned(A, map, NextTurn(map, b), n + 1)
      <3>1. n + 1 <= Cardinality(DOMAIN map)
        BY <1>0
      <3> QED BY <2>2, <2>4, <3>1, TurnKeeps
    <2>6. NextTurn(map, b) \in Z
      BY <2>2, <2>4, <2>5 DEF NextTurn
    <2> QED BY <2>3, <2>4, <2>5, <2>6
  <1> HIDE DEF S
  <1>5. N \in S
    BY <1>1, <1>3, <1>4, Induction
  <1>6. Turned(A, map, g[N], N) /\ g[N] \in Z
    BY <1>1, <1>5 DEF S
  <1>7. g[N].left = {}
    <2>1. IsFiniteSet(g[N].left) /\ Cardinality(g[N].left) = 0
      BY <1>0, <1>1, <1>6 DEF Turned
    <2> QED BY <2>1, FS_EmptySet
  <1> QED BY <1>2, <1>6, <1>7

States(A, map) == [text : Seq(A), left : SUBSET DOMAIN map]

LEMMA ReplacedState ==
  ASSUME NEW A, NEW map, Words(A, map), NEW b \in States(A, map), NEW w, Turn(A, map, b, w)
  PROVE  /\ Replaced(map, b, w) \in States(A, map)
         /\ Replaced(map, b, w).text = Substitute(b.text, Single(w, map[w]))
         /\ Replaced(map, b, w).left = b.left \ {w}
         /\ w \in DOMAIN map /\ w \in Seq(A) /\ map[w] \in Seq(A)
  <1>1. /\ w \in DOMAIN map /\ w \in Seq(A) /\ map[w] \in Seq(A)
        /\ b.text \in Seq(A) /\ b.left \subseteq DOMAIN map
    BY DEF Turn, Words
  <1>2. Words(A, Single(w, map[w]))
    BY <1>1 DEF Words, Single
  <1>3. Substitute(b.text, Single(w, map[w])) \in Seq(A)
    BY <1>1, <1>2, SubstituteType
  <1> QED BY <1>1, <1>3 DEF Replaced, States

\* A mapping of words to texts, neither of them empty.
Marked(A, map) ==
    /\ IsFiniteSet(DOMAIN map) /\ Words(A, map) /\ Marks(map)
    /\ \A w \in DOMAIN map : w # <<>>

\* No key is left of a text whose keys are replaced one after another, if it
\* is clear of what replaces the keys not longer than itself, however the
\* keys lie in the text and in one another (formats.py:120-122, 128-132).
THEOREM NoKeyIsLeft ==
  ASSUME NEW A, NEW s \in Seq(A), NEW map, Marked(A, map), NEW v \in DOMAIN map,
         \A w \in DOMAIN map : Len(w) <= Len(v) => Clear(v, map[w])
  PROVE  ~Occurs(v, ReplaceInTurn(s, map))
  <1>1. IsFiniteSet(DOMAIN map) /\ Words(A, map)
    BY DEF Marked
  <1>2. \A w \in DOMAIN map : w \in Seq(A) /\ w # <<>> /\ map[w] # <<>>
    BY DEF Marked, Words, Marks
  <1> DEFINE Gone(b) == ~Occurs(v, b.text) /\ \A u \in b.left : Len(u) <= Len(v)
             Z == {b \in States(A, map) : v \in b.left \/ Gone(b)}
  <1>3. Start(s, map) \in Z
    BY DEF Start, States
  <1>4. ASSUME NEW b \in Z, NEW w, Turn(A, map, b, w) PROVE Replaced(map, b, w) \in Z
    <2>1. PICK c : c = Replaced(map, b, w)
      OBVIOUS
    <2>2. /\ c \in States(A, map) /\ c.text = Substitute(b.text, Single(w, map[w]))
          /\ c.left = b.left \ {w} /\ w \in DOMAIN map /\ w \in Seq(A) /\ map[w] \in Seq(A)
      BY <1>1, <1>4, <2>1, ReplacedState
    <2>3. /\ b.text \in Seq(A) /\ w \in b.left /\ \A u \in b.left : Len(u) <= Len(w)
      BY <1>4 DEF Turn
    <2>4. ASSUME v \notin c.left PROVE Gone(c)
      <3>1. Len(w) <= Len(v) /\ \A u \in c.left : Len(u) <= Len(v)
        BY <1>4, <2>2, <2>3, <2>4
      <3>2. v \in Seq(A) /\ v # <<>> /\ w # <<>> /\ map[w] # <<>> /\ Clear(v, map[w])
        BY <1>2, <2>2, <3>1
      <3>3. ASSUME Occurs(v, c.text) PROVE FALSE
        <4>1. v # w /\ Occurs(v, b.text)
          BY <2>2, <2>3, <3>2, <3>3, OneReplaced
        <4> QED BY <1>4, <2>2, <2>4, <4>1
      <3> QED BY <3>1, <3>3
    <2> QED BY <2>1, <2>2, <2>4
  <1> HIDE DEF Z
  <1>5. PICK b \in Z : b.left = {} /\ b.text = ReplaceInTurn(s, map)
    BY <1>1, <1>3, <1>4, AllTurns
  <1>6. ~Occurs(v, b.text)
    BY <1>5 DEF Z
  <1> QED BY <1>5, <1>6

---------------------------------------------------------------------------
(* A part of a text where no key stands. *)

\* A text in two parts, the first of which begins with p.
LEMMA JoinsRest ==
  ASSUME NEW A, NEW s, NEW p, NEW r, Joins(A, s, p, r), NEW q, NEW q2, Joins(A, p, q, q2)
  PROVE  \E t : Joins(A, s, q, t) /\ Joins(A, t, q2, r)
  <1>1. /\ s \in Seq(A) /\ p \in Seq(A) /\ r \in Seq(A) /\ q \in Seq(A) /\ q2 \in Seq(A)
    BY DEF Joins
  <1>2. PICK t : t = q2 \o r
    OBVIOUS
  <1>3. Joins(A, t, q2, r)
    BY <1>1, <1>2, JoinsConcat
  <1>4. s = p \o r /\ p = q \o q2
    BY ConcatJoins
  <1>5. s = q \o t
    BY <1>1, <1>2, <1>4, ConcatAssociative
  <1>6. t \in Seq(A)
    BY <1>3 DEF Joins
  <1>7. Joins(A, s, q, t)
    BY <1>1, <1>5, <1>6, JoinsConcat
  <1> QED BY <1>3, <1>7

Idle(A, s, map, p, r) == Joins(A, s, p, r) /\ \A i \in 1..Len(p) : KeysAt(s, map, i) = {}

LEMMA SubstituteIdle ==
  ASSUME NEW A, NEW map, Words(A, map)
  PROVE  \A s \in Seq(A) : \A p, r \in Seq(A) :
            Idle(A, s, map, p, r) => Substitute(s, map) = p \o Substitute(r, map)
  <1> DEFINE S == {s \in Seq(A) : \A p, r \in Seq(A) :
                      Idle(A, s, map, p, r) => Substitute(s, map) = p \o Substitute(r, map)}
  <1>1. ASSUME NEW s \in Seq(A), \A t \in Seq(A) : Len(t) < Len(s) => t \in S,
               NEW p \in Seq(A), NEW r \in Seq(A), Idle(A, s, map, p, r)
        PROVE  Substitute(s, map) = p \o Substitute(r, map)
    <2>1. Joins(A, s, p, r) /\ \A i \in 1..Len(p) : KeysAt(s, map, i) = {}
      BY <1>1 DEF Idle
    <2>2. Substitute(r, map) \in Seq(A)
      BY SubstituteType
    <2>3. CASE p = <<>>
      <3>1. s = p \o r
        BY <2>1, ConcatJoins
      <3>2. s = r
        BY <2>3, <3>1, ConcatEmptySeq
      <3> QED BY <2>2, <2>3, <3>2, ConcatEmptySeq
    <2>4. CASE p # <<>>
      <3>1. Len(p) \in Nat \ {0}
        BY <2>4, EmptySeq
      <3>2. 1 \in 0..Len(p) /\ 1 \in 1..Len(p)
        BY <3>1
      <3>3. PICK q, q2 : Joins(A, p, q, q2) /\ Len(q) = 1
        BY <3>2, CutJoins
      <3>4. PICK t : Joins(A, s, q, t) /\ Joins(A, t, q2, r)
        BY <2>1, <3>3, JoinsRest
      <3>5. Skips(A, s, map, q, t)
        BY <2>1, <3>2, <3>3, <3>4 DEF Skips
      <3>6. Substitute(s, map) = q \o Substitute(t, map)
        BY <3>5, SubstituteSkip
      <3>7. /\ t \in Seq(A) /\ q \in Seq(A) /\ q2 \in Seq(A) /\ Len(q2) \in Nat
            /\ Len(p) = 1 + Len(q2) /\ Len(t) < Len(s)
        BY <3>3, <3>4 DEF Joins
      <3>8. ASSUME NEW i \in 1..Len(q2) PROVE KeysAt(t, map, i) = {}
        <4>1. i \in Nat \ {0} /\ 1 + i \in 1..Len(p)
          BY <3>7
        <4>2. KeysAt(s, map, Len(q) + i) = KeysAt(t, map, i)
          BY <3>4, <4>1, KeysShift
        <4> QED BY <2>1, <3>3, <4>1, <4>2
      <3>9. Idle(A, t, map, q2, r)
        BY <3>4, <3>8 DEF Idle
      <3>10. Substitute(t, map) = q2 \o Substitute(r, map)
        BY <1>1, <3>7, <3>9
      <3>11. p = q \o q2
        BY <3>3, ConcatJoins
      <3>12. PICK c : c = Substitute(r, map)
        OBVIOUS
      <3>13. q \in Seq(A) /\ q2 \in Seq(A) /\ c \in Seq(A)
        BY <2>2, <3>7, <3>12, Zenon
      <3>14. (q \o q2) \o c = q \o (q2 \o c)
        BY <3>13, ConcatAssociative
      <3> QED BY <3>6, <3>10, <3>11, <3>12, <3>14, Zenon
    <2> QED BY <2>3, <2>4
  <1>2. \A s \in Seq(A) : (\A t \in Seq(A) : Len(t) < Len(s) => t \in S) => s \in S
    BY <1>1
  <1> HIDE DEF S
  <1>3. Seq(A) \subseteq S
    BY <1>2, ByLength
  <1> QED BY <1>3 DEF S

\* A text that begins with a key no other key at the beginning is longer than.
LEMMA SubstituteLongest ==
  ASSUME NEW A, NEW s, NEW map, Words(A, map), NEW w \in KeysAt(s, map, 1), NEW r,
         Joins(A, s, w, r), \A v \in KeysAt(s, map, 1) : Len(v) <= Len(w)
  PROVE  Substitute(s, map) = map[w] \o Substitute(r, map)
  <1>0. s \in Seq(A)
    BY DEF Joins
  <1>1. PICK k : k = Longest(KeysAt(s, map, 1))
    OBVIOUS
  <1>2. k \in KeysAt(s, map, 1) /\ Len(w) <= Len(k)
    BY <1>0, <1>1, LongestKey
  <1>3. /\ w \in DOMAIN map /\ w \in Seq(A) /\ Len(w) \in Nat \ {0}
        /\ k \in Seq(A) /\ Len(k) \in Nat \ {0} /\ StartsAt(s, w, 1) /\ StartsAt(s, k, 1)
    BY <1>0, <1>2, KeyAt
  <1>4. Len(k) <= Len(w)
    BY <1>2
  <1>5. Len(k) = Len(w)
    BY <1>2, <1>3, <1>4
  <1>6. \A j \in 1..Len(w) : 1 + j - 1 = j
    BY <1>3
  <1>7. \A j \in 1..Len(w) : k[j] = w[j]
    BY <1>3, <1>5, <1>6 DEF StartsAt
  <1>8. k = w
    BY <1>3, <1>5, <1>7, SeqEqual
  <1>9. Begins(A, s, map, w, r)
    BY <1>1, <1>3, <1>8 DEF Begins
  <1> QED BY <1>9, SubstituteKey

---------------------------------------------------------------------------
(* One key more. *)

LEMMA WordJoins ==
  ASSUME NEW A, NEW s \in Seq(A), NEW w \in Seq(A)
  PROVE  /\ StartsAt(s, w, 1) => \E r : Joins(A, s, w, r)
         /\ \A r : Joins(A, s, w, r) => StartsAt(s, w, 1)
  <1>1. Len(w) \in Nat /\ Len(s) \in Nat /\ \A j \in 1..Len(w) : 1 + j - 1 = j
    OBVIOUS
  <1>2. ASSUME StartsAt(s, w, 1) PROVE \E r : Joins(A, s, w, r)
    <2>1. 1 + Len(w) - 1 <= Len(s) /\ \A j \in 1..Len(w) : s[1 + j - 1] = w[j]
      BY <1>2 DEF StartsAt
    <2>2. Len(w) \in 0..Len(s)
      BY <1>1, <2>1
    <2>3. PICK p, r : Joins(A, s, p, r) /\ Len(p) = Len(w)
      BY <2>2, CutJoins
    <2>4. p \in Seq(A) /\ \A i \in 1..Len(p) : s[i] = p[i]
      BY <2>3 DEF Joins
    <2>5. \A j \in 1..Len(w) : p[j] = w[j]
      BY <1>1, <2>1, <2>3, <2>4
    <2>6. p = w
      BY <2>3, <2>4, <2>5, SeqEqual
    <2> QED BY <2>3, <2>6
  <1>3. ASSUME NEW r, Joins(A, s, w, r) PROVE StartsAt(s, w, 1)
    <2>1. Len(r) \in Nat /\ Len(s) = Len(w) + Len(r) /\ \A i \in 1..Len(w) : s[i] = w[i]
      BY <1>3 DEF Joins
    <2>2. 1 + Len(w) - 1 <= Len(s)
      BY <1>1, <2>1
    <2> QED BY <1>1, <2>1, <2>2 DEF StartsAt
  <1> QED BY <1>2, <1>3

\* No word of M stands across the end of w.
Apart(w, M, s) == \A v \in DOMAIN M : ~Overlapping(w, v, s)

LEMMA ApartRest ==
  ASSUME NEW A, NEW s, NEW p, NEW r, Joins(A, s, p, r), NEW M, Words(A, M), NEW w \in Seq(A),
         Apart(w, M, s)
  PROVE  Apart(w, M, r)
  <1>1. Len(p) \in Nat /\ Len(r) \in Nat /\ Len(s) = Len(p) + Len(r) /\ Len(w) \in Nat
    BY DEF Joins
  <1> SUFFICES ASSUME NEW v \in DOMAIN M, Overlapping(w, v, r) PROVE FALSE
    BY DEF Apart
  <1>2. v \in Seq(A) /\ Len(v) \in Nat
    BY DEF Words
  <1>3. PICK i \in Positions(w, r), j \in Positions(v, r) :
           i < j /\ j < i + Len(w) /\ i + Len(w) < j + Len(v)
    BY DEF Overlapping
  <1>4. i \in 1..Len(r) /\ StartsAt(r, w, i) /\ j \in 1..Len(r) /\ StartsAt(r, v, j)
    BY DEF Positions
  <1>5. PICK a, b : a = Len(p) + i /\ b = Len(p) + j
    OBVIOUS
  <1>6. /\ a \in 1..Len(s) /\ b \in 1..Len(s)
        /\ a < b /\ b < a + Len(w) /\ a + Len(w) < b + Len(v)
    BY <1>1, <1>2, <1>3, <1>4, <1>5
  <1>7. StartsAt(s, w, a) /\ StartsAt(s, v, b)
    BY <1>2, <1>4, <1>5, StartsShift
  <1>8. Overlapping(w, v, s)
    BY <1>6, <1>7 DEF Overlapping, Positions
  <1> QED BY <1>8 DEF Apart

\* In a replacement a key clear of it does not stand.
LEMMA IdleMark ==
  ASSUME NEW A, NEW out, NEW t, NEW rest, Joins(A, out, t, rest), NEW w \in Seq(A),
         w # <<>>, Clear(w, t), NEW x
  PROVE  Idle(A, out, Single(w, x), t, rest)
  <1>1. ASSUME NEW i \in 1..Len(t), StartsAt(out, w, i) PROVE FALSE
    <2>1. i \in Nat \ {0} /\ ~(i > Len(t))
      BY DEF Joins
    <2> QED BY <1>1, <2>1, NotInside
  <1> QED BY <1>1 DEF Idle, KeysAt, Single

LEMMA SingleWords ==
  ASSUME NEW A, NEW w \in Seq(A), NEW t \in Seq(A)
  PROVE  Words(A, Single(w, t))
  BY DEF Words, Single

\* A word clear of every replacement that begins a text begins the text before.
LEMMA BeganBefore ==
  ASSUME NEW A, NEW s \in Seq(A), NEW M, Words(A, M), Marks(M), NEW w \in Seq(A), w # <<>>,
         \A v \in DOMAIN M : \A i \in 1..Len(w) : w[i] # M[v][1],
         StartsAt(Substitute(s, M), w, 1)
  PROVE  StartsAt(s, w, 1)
  <1>1. PICK out : out = Substitute(s, M)
    OBVIOUS
  <1>2. out \in Seq(A) /\ RunOK(s, out, M)
    BY <1>1, SubstituteType, RunHolds
  <1>3. Len(w) \in Nat /\ Len(s) \in Nat /\ Len(out) \in Nat
    BY <1>2
  <1>4. \A j \in 1..Len(w) : 1 + j - 1 = j
    BY <1>3
  <1>5. 1 + Len(w) - 1 <= Len(out) /\ \A j \in 1..Len(w) : out[1 + j - 1] = w[j]
    BY <1>1 DEF StartsAt
  <1>6. \A j \in 1..Len(w) : out[j] = w[j]
    BY <1>4, <1>5
  <1>7. Foreign(out, M, Len(w))
    BY <1>6 DEF Foreign
  <1>8. Len(w) \in 0..Len(out)
    BY <1>3, <1>5
  <1>9. Len(w) <= Len(s) /\ \A j \in 1..Len(w) : s[j] = out[j]
    BY <1>2, <1>7, <1>8 DEF RunOK
  <1>10. 1 + Len(w) - 1 <= Len(s) /\ \A j \in 1..Len(w) : s[1 + j - 1] = w[j]
    BY <1>3, <1>4, <1>6, <1>9
  <1> QED BY <1>10 DEF StartsAt

\* K has the keys of M, and w, which is none of them and not longer than any.
OneMore(A, M, w, t, K) ==
    /\ Words(A, M) /\ Marks(M) /\ w \in Seq(A) /\ w # <<>> /\ t \in Seq(A)
    /\ w \notin DOMAIN M /\ ClearOf(w, M)
    /\ \A v \in DOMAIN M : v # <<>> /\ Len(w) <= Len(v)
    /\ DOMAIN K = DOMAIN M \cup {w} /\ K[w] = t /\ \A v \in DOMAIN M : K[v] = M[v]
Same(s, M, w, t, K) == Substitute(Substitute(s, M), Single(w, t)) = Substitute(s, K)

LEMMA OneMoreWords ==
  ASSUME NEW A, NEW M, NEW w, NEW t, NEW K, OneMore(A, M, w, t, K)
  PROVE  Words(A, K) /\ Words(A, M) /\ Words(A, Single(w, t))
  <1>1. Words(A, M) /\ w \in Seq(A) /\ t \in Seq(A)
    BY DEF OneMore
  <1>2. Words(A, K)
    BY DEF OneMore, Words
  <1> QED BY <1>1, <1>2, SingleWords

LEMMA OneMoreKeys ==
  ASSUME NEW A, NEW M, NEW w, NEW t, NEW K, OneMore(A, M, w, t, K), NEW s, NEW i
  PROVE  KeysAt(s, K, i) = KeysAt(s, M, i) \cup {v \in {w} : StartsAt(s, w, i)}
  BY DEF OneMore, KeysAt

\* The text begins with a key of M.
LEMMA OneMoreKey ==
  ASSUME NEW A, NEW M, NEW w, NEW t, NEW K, OneMore(A, M, w, t, K), NEW s, NEW k, NEW r,
         Begins(A, s, M, k, r), Same(r, M, w, t, K)
  PROVE  Same(s, M, w, t, K)
  <1>0. Words(A, K) /\ Words(A, M) /\ Words(A, Single(w, t))
    BY OneMoreWords
  <1>1. Joins(A, s, k, r) /\ k = Longest(KeysAt(s, M, 1)) /\ k \in DOMAIN M
    BY Zenon DEF Begins
  <1>2. s \in Seq(A) /\ r \in Seq(A)
    BY <1>1 DEF Joins
  <1>3. k \in KeysAt(s, M, 1) /\ \A v \in KeysAt(s, M, 1) : Len(v) <= Len(k)
    <2>1. KeysAt(s, M, 1) # {}
      BY Zenon DEF Begins
    <2> QED BY <1>0, <1>1, <1>2, <2>1, LongestKey
  <1>4. k \in KeysAt(s, K, 1) /\ \A v \in KeysAt(s, K, 1) : Len(v) <= Len(k)
    <2>1. Len(w) <= Len(k)
      BY <1>1 DEF OneMore
    <2> QED BY <1>3, <2>1, OneMoreKeys
  <1>5. Substitute(s, K) = K[k] \o Substitute(r, K)
    <2>1. Words(A, K) /\ Joins(A, s, k, r)
      BY <1>0, <1>1
    <2>2. k \in KeysAt(s, K, 1)
      BY <1>4
    <2>3. \A v \in KeysAt(s, K, 1) : Len(v) <= Len(k)
      BY <1>4
    <2> QED BY <2>1, <2>2, <2>3, SubstituteLongest
  <1>6. K[k] = M[k] /\ M[k] \in Seq(A) /\ Clear(w, M[k]) /\ w \in Seq(A) /\ w # <<>>
    BY <1>1 DEF OneMore, Words, ClearOf
  <1>7. Substitute(s, M) = M[k] \o Substitute(r, M)
    BY <1>0, SubstituteKey
  <1>8. PICK out, rest, m : out = Substitute(s, M) /\ rest = Substitute(r, M) /\ m = M[k]
    OBVIOUS
  <1>9. rest \in Seq(A) /\ out \in Seq(A) /\ m \in Seq(A) /\ out = m \o rest
    BY <1>0, <1>2, <1>6, <1>7, <1>8, SubstituteType
  <1>10. Joins(A, out, m, rest)
    BY <1>9, JoinsConcat
  <1>11. Idle(A, out, Single(w, t), m, rest)
    BY <1>6, <1>8, <1>10, IdleMark
  <1>12. Substitute(out, Single(w, t)) = m \o Substitute(rest, Single(w, t))
    BY <1>0, <1>9, <1>11, SubstituteIdle
  <1> QED BY <1>5, <1>6, <1>8, <1>12, Zenon DEF Same

\* It begins with w.
LEMMA OneMoreWord ==
  ASSUME NEW A, NEW M, NEW w, NEW t, NEW K, OneMore(A, M, w, t, K), NEW s, NEW r,
         Joins(A, s, w, r), KeysAt(s, M, 1) = {}, Apart(w, M, s), Same(r, M, w, t, K)
  PROVE  Same(s, M, w, t, K)
  <1>0. Words(A, K) /\ Words(A, M) /\ Words(A, Single(w, t))
    BY OneMoreWords
  <1>1. w \in Seq(A) /\ w # <<>> /\ t \in Seq(A) /\ w \in DOMAIN K /\ K[w] = t
    BY DEF OneMore
  <1>2. s \in Seq(A) /\ r \in Seq(A)
    BY DEF Joins
  <1>3. StartsAt(s, w, 1)
    BY <1>1, <1>2, WordJoins
  <1>4. w \in KeysAt(s, K, 1) /\ \A v \in KeysAt(s, K, 1) : v = w
    <2>1. w \in KeysAt(s, K, 1)
      BY <1>1, <1>3 DEF KeysAt
    <2> QED BY <2>1, OneMoreKeys
  <1>5. Substitute(s, K) = t \o Substitute(r, K)
    <2>1. Len(w) <= Len(w)
      BY <1>1
    <2>2. \A v \in KeysAt(s, K, 1) : Len(v) <= Len(w)
      BY <1>4, <2>1
    <2>3. Substitute(s, K) = K[w] \o Substitute(r, K)
      BY <1>0, <1>4, <2>2, SubstituteLongest
    <2> QED BY <1>1, <2>3
  <1>6. ASSUME NEW i \in 1..Len(w) PROVE KeysAt(s, M, i) = {}
    <2>1. SUFFICES ASSUME i # 1, NEW v \in KeysAt(s, M, i) PROVE FALSE
      OBVIOUS
    <2>2. Len(w) \in Nat /\ i \in Nat \ {0}
      BY <1>1
    <2>3. /\ v \in DOMAIN M /\ v \in Seq(A) /\ StartsAt(s, v, i)
          /\ Len(v) \in Nat \ {0} /\ i + Len(v) - 1 <= Len(s)
      BY <1>0, <1>2, <2>2, KeyAt
    <2>4. Len(w) <= Len(v)
      BY <2>3 DEF OneMore
    <2>5. Len(s) \in Nat /\ 1 \in 1..Len(s) /\ i \in 1..Len(s)
      BY <1>2, <2>2, <2>3
    <2>6. 1 < i /\ i < 1 + Len(w) /\ 1 + Len(w) < i + Len(v)
      BY <2>1, <2>2, <2>3, <2>4
    <2>7. Overlapping(w, v, s)
      BY <1>3, <2>3, <2>5, <2>6 DEF Overlapping, Positions
    <2> QED BY <2>3, <2>7 DEF Apart
  <1>7. Idle(A, s, M, w, r)
    BY <1>6 DEF Idle
  <1>8. PICK out, rest : out = Substitute(s, M) /\ rest = Substitute(r, M)
    OBVIOUS
  <1>9. out = w \o rest
    BY <1>0, <1>1, <1>2, <1>7, <1>8, SubstituteIdle
  <1>10. rest \in Seq(A)
    BY <1>0, <1>2, <1>8, SubstituteType
  <1>11. Joins(A, out, w, rest)
    BY <1>1, <1>9, <1>10, JoinsConcat
  <1>12. Substitute(out, Single(w, t)) = t \o Substitute(rest, Single(w, t))
    <2>1. w \in Seq(A) /\ w # <<>> /\ t \in Seq(A)
      BY <1>1
    <2>2. PICK T : T = Single(w, t)
      OBVIOUS
    <2>3. StartsAt(out, w, 1)
      <3>1. out \in Seq(A)
        BY <1>11 DEF Joins
      <3> QED BY <1>11, <2>1, <3>1, WordJoins
    <2>4. DOMAIN T = {w} /\ T[w] = t /\ Words(A, T)
      BY <1>0, <2>2 DEF Single
    <2>5. w \in KeysAt(out, T, 1) /\ \A v \in KeysAt(out, T, 1) : Len(v) <= Len(w)
      BY <2>1, <2>3, <2>4 DEF KeysAt
    <2>6. Substitute(out, T) = T[w] \o Substitute(rest, T)
      BY <1>11, <2>4, <2>5, SubstituteLongest
    <2> QED BY <2>2, <2>4, <2>6
  <1> QED BY <1>5, <1>8, <1>12, Zenon DEF Same

\* It begins with neither.
LEMMA OneMoreSkip ==
  ASSUME NEW A, NEW M, NEW w, NEW t, NEW K, OneMore(A, M, w, t, K), NEW s, NEW p, NEW r,
         Skips(A, s, M, p, r), ~StartsAt(s, w, 1), Same(r, M, w, t, K)
  PROVE  Same(s, M, w, t, K)
  <1>0. Words(A, K) /\ Words(A, M) /\ Words(A, Single(w, t))
    BY OneMoreWords
  <1>1. Joins(A, s, p, r) /\ Len(p) = 1 /\ KeysAt(s, M, 1) = {}
    BY Zenon DEF Skips
  <1>2. s \in Seq(A) /\ r \in Seq(A) /\ p \in Seq(A)
    BY <1>1 DEF Joins
  <1>3. KeysAt(s, K, 1) = {}
    BY <1>1, OneMoreKeys
  <1>4. Substitute(s, K) = p \o Substitute(r, K)
    BY <1>0, <1>1, <1>3, SubstituteSkip DEF Skips
  <1>5. PICK out, rest : out = Substitute(s, M) /\ rest = Substitute(r, M)
    OBVIOUS
  <1>6. out = p \o rest
    BY <1>0, <1>5, SubstituteSkip
  <1>7. rest \in Seq(A)
    BY <1>0, <1>2, <1>5, SubstituteType
  <1>8. Joins(A, out, p, rest)
    BY <1>2, <1>6, <1>7, JoinsConcat
  <1>9. ~StartsAt(out, w, 1)
    <2>1. Marks(M) /\ w \in Seq(A) /\ w # <<>>
      BY DEF OneMore
    <2>2. \A v \in DOMAIN M : \A i \in 1..Len(w) : w[i] # M[v][1]
      BY DEF OneMore, ClearOf, Clear
    <2> QED BY <1>0, <1>2, <1>5, <2>1, <2>2, BeganBefore
  <1>10. KeysAt(out, Single(w, t), 1) = {}
    BY <1>9 DEF KeysAt, Single
  <1>11. Skips(A, out, Single(w, t), p, rest)
    BY <1>1, <1>8, <1>10 DEF Skips
  <1>12. Substitute(out, Single(w, t)) = p \o Substitute(rest, Single(w, t))
    BY <1>0, <1>11, SubstituteSkip
  <1> QED BY <1>4, <1>5, <1>12, Zenon DEF Same

LEMMA OneMoreSame ==
  ASSUME NEW A, NEW M, NEW w, NEW t, NEW K, OneMore(A, M, w, t, K)
  PROVE  \A s \in Seq(A) : Apart(w, M, s) => Same(s, M, w, t, K)
  <1>0. Words(A, K) /\ Words(A, M) /\ w \in Seq(A)
    BY OneMoreWords DEF OneMore
  <1> DEFINE S == {s \in Seq(A) : Apart(w, M, s) => Same(s, M, w, t, K)}
  <1>1. ASSUME NEW s \in Seq(A), \A u \in Seq(A) : Len(u) < Len(s) => u \in S, Apart(w, M, s)
        PROVE  Same(s, M, w, t, K)
    <2>1. ASSUME NEW p, NEW r, Joins(A, s, p, r), Len(p) \in Nat \ {0}
          PROVE  Same(r, M, w, t, K)
      <3>1. r \in Seq(A) /\ Len(r) < Len(s)
        BY <2>1 DEF Joins
      <3>2. Apart(w, M, r)
        BY <1>0, <1>1, <2>1, ApartRest
      <3> QED BY <1>1, <3>1, <3>2
    <2>2. CASE s = <<>>
      BY <2>2, SubstituteEmpty DEF Same
    <2>3. ASSUME NEW k, NEW r, Begins(A, s, M, k, r) PROVE Same(s, M, w, t, K)
      <3>1. Joins(A, s, k, r) /\ Len(k) \in Nat \ {0}
        BY <2>3, Zenon DEF Begins
      <3> QED BY <2>1, <2>3, <3>1, OneMoreKey
    <2>4. ASSUME NEW p, NEW r, Skips(A, s, M, p, r) PROVE Same(s, M, w, t, K)
      <3>1. Joins(A, s, p, r) /\ Len(p) = 1 /\ KeysAt(s, M, 1) = {}
        BY <2>4, Zenon DEF Skips
      <3>2. CASE StartsAt(s, w, 1)
        <4>1. PICK x : Joins(A, s, w, x)
          BY <1>0, <3>2, WordJoins
        <4>2. Len(w) \in Nat \ {0}
          BY <1>0, EmptySeq DEF OneMore
        <4>3. Same(x, M, w, t, K)
          BY <2>1, <4>1, <4>2
        <4> QED BY <1>1, <3>1, <4>1, <4>3, OneMoreWord
      <3>3. CASE ~StartsAt(s, w, 1)
        <4>1. Len(p) \in Nat \ {0}
          BY <3>1
        <4>2. Same(r, M, w, t, K)
          BY <2>1, <3>1, <4>1
        <4> QED BY <2>4, <3>3, <4>2, OneMoreSkip
      <3> QED BY <3>2, <3>3
    <2> QED BY <1>0, <2>2, <2>3, <2>4, TextCases
  <1>2. \A s \in Seq(A) : (\A u \in Seq(A) : Len(u) < Len(s) => u \in S) => s \in S
    BY <1>1
  <1> HIDE DEF S
  <1>3. Seq(A) \subseteq S
    BY <1>2, ByLength
  <1> QED BY <1>3 DEF S

---------------------------------------------------------------------------
(* One key after another is every key at once. *)

LEMMA NothingReplaced ==
  ASSUME NEW A, NEW s \in Seq(A), NEW map, Words(A, map),
         \A i \in 1..Len(s) : KeysAt(s, map, i) = {}
  PROVE  Substitute(s, map) = s
  <1>1. <<>> \in Seq(A) /\ s \o <<>> = s
    BY EmptySeq, ConcatEmptySeq
  <1>2. PICK e : e = <<>>
    OBVIOUS
  <1>3. Joins(A, s, s, e)
    <2>1. e \in Seq(A) /\ s \o e = s
      BY <1>1, <1>2, Zenon
    <2>2. Joins(A, s \o e, s, e)
      BY <2>1, JoinsConcat
    <2> QED BY <2>1, <2>2, Zenon
  <1>4. Idle(A, s, map, s, e)
    BY <1>3 DEF Idle
  <1>5. e \in Seq(A)
    BY <1>1, <1>2, Zenon
  <1>6. Substitute(s, map) = s \o Substitute(e, map)
    BY <1>4, <1>5, SubstituteIdle
  <1>7. Substitute(e, map) = e
    BY <1>2, SubstituteEmpty, Zenon
  <1> QED BY <1>1, <1>2, <1>6, <1>7, Zenon

\* A word that stands in the rest of a text stands in the text.
LEMMA OccursRest ==
  ASSUME NEW A, NEW s, NEW p, NEW r, Joins(A, s, p, r), NEW w \in Seq(A), Occurs(w, r)
  PROVE  Occurs(w, s)
  <1>1. PICK i \in 1..Len(r) : StartsAt(r, w, i)
    BY DEF Occurs, Positions
  <1>2. Len(p) \in Nat /\ Len(r) \in Nat /\ Len(s) = Len(p) + Len(r)
    BY DEF Joins
  <1>3. i \in Nat \ {0} /\ Len(p) + i \in 1..Len(s)
    BY <1>2
  <1>4. StartsAt(s, w, Len(p) + i)
    BY <1>1, <1>3, StartsShift
  <1> QED BY <1>3, <1>4 DEF Occurs, Positions

\* What a text becomes depends on the entries of the words that stand in it.
LEMMA SameMapping ==
  ASSUME NEW A, NEW map, Words(A, map), NEW M,
         \A w \in DOMAIN M : w \in DOMAIN map /\ M[w] = map[w]
  PROVE  \A s \in Seq(A) : (\A w \in DOMAIN map \ DOMAIN M : ~Occurs(w, s)) =>
            Substitute(s, M) = Substitute(s, map)
  <1> DEFINE Absent(s) == \A w \in DOMAIN map \ DOMAIN M : ~Occurs(w, s)
             S == {s \in Seq(A) : Absent(s) => Substitute(s, M) = Substitute(s, map)}
  <1>0. Words(A, M)
    BY DEF Words
  <1>1. ASSUME NEW s \in Seq(A), \A t \in Seq(A) : Len(t) < Len(s) => t \in S, Absent(s)
        PROVE  Substitute(s, M) = Substitute(s, map)
    <2>1. CASE s = <<>>
      BY <2>1, SubstituteEmpty
    <2>2. CASE s # <<>>
      <3>0. KeysAt(s, M, 1) = KeysAt(s, map, 1)
        <4>1. 1 \in 1..Len(s)
          BY <2>2, EmptySeq
        <4>2. \A w \in DOMAIN map \ DOMAIN M : ~StartsAt(s, w, 1)
          BY <1>1, <4>1 DEF Occurs, Positions
        <4> QED BY <4>2 DEF KeysAt
      <3>1. ASSUME NEW p, NEW r, Joins(A, s, p, r), Len(p) > 0
            PROVE  r \in Seq(A) /\ Substitute(r, M) = Substitute(r, map)
        <4>1. r \in Seq(A) /\ Len(r) < Len(s)
          BY <3>1 DEF Joins
        <4>2. Absent(r)
          <5> SUFFICES ASSUME NEW w \in DOMAIN map \ DOMAIN M, Occurs(w, r) PROVE FALSE
            OBVIOUS
          <5>1. w \in Seq(A)
            BY DEF Words
          <5>2. Occurs(w, s)
            BY <3>1, <5>1, OccursRest
          <5> QED BY <1>1, <5>2
        <4> QED BY <1>1, <4>1, <4>2
      <3>2. ASSUME NEW p, NEW r, Skips(A, s, map, p, r)
            PROVE  Substitute(s, M) = Substitute(s, map)
        <4>1. Joins(A, s, p, r) /\ Len(p) > 0 /\ Skips(A, s, M, p, r)
          BY <3>0, <3>2 DEF Skips
        <4>2. Substitute(r, M) = Substitute(r, map)
          BY <3>1, <4>1
        <4>3. Substitute(s, M) = p \o Substitute(r, M)
          BY <1>0, <4>1, SubstituteSkip
        <4>4. Substitute(s, map) = p \o Substitute(r, map)
          BY <3>2, SubstituteSkip
        <4> QED BY <4>2, <4>3, <4>4
      <3>3. ASSUME NEW p, NEW r, Begins(A, s, map, p, r)
            PROVE  Substitute(s, M) = Substitute(s, map)
        <4>0. p \in KeysAt(s, M, 1)
          <5>1. p \in KeysAt(s, map, 1)
            BY <3>3, LongestKey DEF Begins, Joins
          <5> QED BY <3>0, <5>1
        <4>1. Joins(A, s, p, r) /\ Len(p) > 0 /\ Begins(A, s, M, p, r) /\ M[p] = map[p]
          <5>1. p \in DOMAIN M
            BY <4>0 DEF KeysAt
          <5>2. Begins(A, s, M, p, r)
            BY <3>0, <3>3, <5>1 DEF Begins
          <5> QED BY <3>3, <5>1, <5>2 DEF Begins
        <4>2. Substitute(r, M) = Substitute(r, map)
          BY <3>1, <4>1
        <4>3. Substitute(s, M) = M[p] \o Substitute(r, M)
          <5>1. Begins(A, s, M, p, r)
            BY <4>1
          <5> QED BY <1>0, <5>1, SubstituteKey
        <4>4. Substitute(s, map) = map[p] \o Substitute(r, map)
          BY <3>3, SubstituteKey
        <4> QED BY <4>1, <4>2, <4>3, <4>4
      <3> QED BY <2>2, <3>2, <3>3, TextCases
    <2> QED BY <2>1, <2>2
  <1>2. \A s \in Seq(A) : (\A t \in Seq(A) : Len(t) < Len(s) => t \in S) => s \in S
    BY <1>1
  <1> HIDE DEF S
  <1>3. Seq(A) \subseteq S
    BY <1>2, ByLength
  <1> QED BY <1>3 DEF S

Of(map, D) == [v \in D |-> map[v]]

\* A text no two of whose keys overlap by halves becomes, one key after
\* another, what it becomes with all of them replaced at once, the longest
\* first: no shorter key is replaced inside a longer one (formats.py:120-122).
\* The keys outside O do not stand in the text, nor in what replaces those
\* in O.
THEOREM InTurnIsAtOnce ==
  ASSUME NEW A, NEW s \in Seq(A), NEW map, Marked(A, map), NEW O, O \subseteq DOMAIN map,
         \A w \in DOMAIN map : \A u \in O : Clear(w, map[u]),
         \A w \in DOMAIN map \ O : ~Occurs(w, s)
  PROVE  SameAtOnce(s, map)
  <1> SUFFICES ASSUME \A v, w \in DOMAIN map : ~Overlapping(v, w, s)
               PROVE  ReplaceInTurn(s, map) = Substitute(s, map)
    BY DEF SameAtOnce
  <1>1. IsFiniteSet(DOMAIN map) /\ Words(A, map)
    BY DEF Marked
  <1>2. \A w \in DOMAIN map : w \in Seq(A) /\ map[w] \in Seq(A) /\ w # <<>> /\ map[w] # <<>>
    BY DEF Marked, Words, Marks
  <1> DEFINE Taken(b) == O \ b.left
             Z == {b \in States(A, map) :
                     /\ \A v \in Taken(b) : \A u \in b.left : Len(u) <= Len(v)
                     /\ b.text = Substitute(s, Of(map, Taken(b)))}
  <1>3. Start(s, map) \in Z
    <2>1. PICK M : M = Of(map, {})
      OBVIOUS
    <2>2. DOMAIN M = {}
      BY <2>1 DEF Of
    <2>3. Words(A, M) /\ \A i \in 1..Len(s) : KeysAt(s, M, i) = {}
      BY <2>2 DEF Words, KeysAt
    <2>4. Substitute(s, M) = s
      BY <2>3, NothingReplaced
    <2>5. Start(s, map) \in States(A, map) /\ Start(s, map).text = s /\ Taken(Start(s, map)) = {}
      BY DEF Start, States
    <2> QED BY <2>1, <2>4, <2>5
  <1>4. ASSUME NEW b \in Z, NEW w, Turn(A, map, b, w) PROVE Replaced(map, b, w) \in Z
    <2>1. PICK c : c = Replaced(map, b, w)
      OBVIOUS
    <2>2. /\ c \in States(A, map) /\ c.text = Substitute(b.text, Single(w, map[w]))
          /\ c.left = b.left \ {w} /\ w \in DOMAIN map /\ w \in Seq(A) /\ map[w] \in Seq(A)
      BY <1>1, <1>4, <2>1, ReplacedState
    <2>3. w \in b.left /\ (\A u \in b.left : Len(u) <= Len(w)) /\ b.text \in Seq(A)
      BY <1>4 DEF Turn
    <2>4. /\ \A v \in Taken(b) : \A u \in b.left : Len(u) <= Len(v)
          /\ b.text = Substitute(s, Of(map, Taken(b)))
      BY <1>4
    <2>7. PICK D, M, K : D = Taken(b) /\ M = Of(map, D) /\ K = Of(map, D \cup {w})
      OBVIOUS
    <2>8. /\ DOMAIN M = D /\ DOMAIN K = D \cup {w} /\ K[w] = map[w] /\ D \subseteq O
          /\ D \subseteq DOMAIN map /\ w \notin D
          /\ \A v \in D : M[v] = map[v] /\ K[v] = map[v]
      BY <2>3, <2>7 DEF Of
    <2>9. Words(A, M) /\ Marks(M) /\ w # <<>> /\ ClearOf(w, M)
      BY <1>2, <2>2, <2>8 DEF Words, Marks, ClearOf
    <2>10. CASE w \in O
      <3>1. Taken(c) = Taken(b) \cup {w}
        BY <2>2, <2>3, <2>10
      <3>2. \A v \in Taken(c) : \A u \in c.left : Len(u) <= Len(v)
        BY <2>2, <2>3, <2>4, <3>1
      <3>3. OneMore(A, M, w, map[w], K)
        <4>1. \A v \in DOMAIN M : v # <<>> /\ Len(w) <= Len(v)
          BY <1>2, <2>3, <2>4, <2>7, <2>8
        <4>2. DOMAIN K = DOMAIN M \cup {w} /\ \A v \in DOMAIN M : K[v] = M[v]
          BY <2>8
        <4>3. w \notin DOMAIN M
          BY <2>8
        <4> QED BY <2>2, <2>8, <2>9, <4>1, <4>2, <4>3 DEF OneMore
      <3>4. Apart(w, M, s)
        BY <2>2, <2>8 DEF Apart
      <3>5. Same(s, M, w, map[w], K)
        BY <3>3, <3>4, OneMoreSame
      <3>6. c.text = Substitute(s, K)
        BY <2>2, <2>4, <2>7, <3>5 DEF Same
      <3>7. K = Of(map, Taken(c))
        BY <2>7, <3>1
      <3> QED BY <2>1, <2>2, <3>2, <3>6, <3>7
    <2>11. CASE w \notin O
      <3>1. Taken(c) = Taken(b) /\ c.left \subseteq b.left
        BY <2>2, <2>11
      <3>2. ASSUME NEW i \in 1..Len(b.text), StartsAt(b.text, w, i) PROVE FALSE
        <4>1. b.text = Substitute(s, M)
          BY <2>4, <2>7
        <4>2. i \in Nat \ {0} /\ StartsAt(Substitute(s, M), w, i)
          BY <3>2, <4>1
        <4>3. Stood(s, M, w)
          BY <2>2, <2>9, <4>2, Survives
        <4> QED BY <2>2, <2>11, <4>3 DEF Stood, Occurs, Positions
      <3>3. \A i \in 1..Len(b.text) : KeysAt(b.text, Single(w, map[w]), i) = {}
        BY <3>2 DEF KeysAt, Single
      <3>4. Words(A, Single(w, map[w]))
        BY <2>2, SingleWords
      <3>5. c.text = b.text
        BY <2>2, <2>3, <3>3, <3>4, NothingReplaced
      <3> QED BY <2>1, <2>2, <2>4, <3>1, <3>5
    <2> QED BY <2>10, <2>11
  <1> HIDE DEF Z
  <1>5. PICK b \in Z : b.left = {} /\ b.text = ReplaceInTurn(s, map)
    BY <1>1, <1>3, <1>4, AllTurns
  <1>6. b.text = Substitute(s, Of(map, O))
    BY <1>5 DEF Z
  <1>7. PICK M : M = Of(map, O)
    OBVIOUS
  <1>8. DOMAIN M = O /\ \A w \in O : M[w] = map[w]
    BY <1>7 DEF Of
  <1>9. Substitute(s, M) = Substitute(s, map)
    BY <1>1, <1>8, SameMapping
  <1> QED BY <1>5, <1>6, <1>7, <1>9

---------------------------------------------------------------------------
(* The tokens taken back. *)

\* o stands at the beginning of t and c at its end, and nowhere else in it.
Bracketed(o, c, t) ==
    /\ t # <<>> /\ t[1] = o /\ t[Len(t)] = c
    /\ \A i \in 1..Len(t) : (t[i] = o => i = 1) /\ (t[i] = c => i = Len(t))
Without(o, s) == \A i \in 1..Len(s) : s[i] # o

LEMMA WithoutParts ==
  ASSUME NEW A, NEW p \in Seq(A), NEW r \in Seq(A), NEW o, Without(o, p \o r)
  PROVE  Without(o, p) /\ Without(o, r)
  <1>1. PICK s : s = p \o r
    OBVIOUS
  <1>2. Joins(A, s, p, r)
    BY <1>1, JoinsConcat
  <1>3. /\ Len(p) \in Nat /\ Len(r) \in Nat /\ Len(s) = Len(p) + Len(r)
        /\ \A i \in 1..Len(p) : s[i] = p[i]
        /\ \A i \in 1..Len(r) : s[Len(p) + i] = r[i]
    BY <1>2 DEF Joins
  <1>4. \A i \in 1..Len(s) : s[i] # o
    BY <1>1 DEF Without
  <1>5. \A i \in 1..Len(p) : i \in 1..Len(s)
    BY <1>3
  <1>6. \A i \in 1..Len(r) : Len(p) + i \in 1..Len(s)
    BY <1>3
  <1>7. Without(o, p)
    BY <1>3, <1>4, <1>5 DEF Without
  <1>8. Without(o, r)
    BY <1>3, <1>4, <1>6 DEF Without
  <1> QED BY <1>7, <1>8

\* No key of M begins where there is no o.
LEMMA NoneBegins ==
  ASSUME NEW A, NEW M, Words(A, M), NEW o, NEW c, \A t \in DOMAIN M : Bracketed(o, c, t),
         NEW s \in Seq(A), NEW i \in 1..Len(s), s[i] # o
  PROVE  KeysAt(s, M, i) = {}
  <1> SUFFICES ASSUME NEW k \in KeysAt(s, M, i) PROVE FALSE
    OBVIOUS
  <1>1. i \in Nat \ {0}
    OBVIOUS
  <1>2. k \in DOMAIN M /\ StartsAt(s, k, i) /\ Len(k) \in Nat \ {0}
    BY <1>1, KeyAt
  <1>3. 1 \in 1..Len(k) /\ i + 1 - 1 = i
    BY <1>1, <1>2
  <1>4. s[i + 1 - 1] = k[1]
    BY <1>2, <1>3 DEF StartsAt
  <1> QED BY <1>2, <1>3, <1>4 DEF Bracketed

\* One token at most begins a text.
LEMMA OneBegins ==
  ASSUME NEW A, NEW o, NEW c, NEW s \in Seq(A),
         NEW t \in Seq(A), Bracketed(o, c, t), StartsAt(s, t, 1),
         NEW k \in Seq(A), Bracketed(o, c, k), StartsAt(s, k, 1)
  PROVE  t = k
  <1>1. Len(t) \in Nat \ {0} /\ Len(k) \in Nat \ {0}
    BY EmptySeq DEF Bracketed
  <1>2. \A j \in 1..Len(t) : 1 + j - 1 = j
    BY <1>1
  <1>3. \A j \in 1..Len(k) : 1 + j - 1 = j
    BY <1>1
  <1>4. \A j \in 1..Len(t) : s[j] = t[j]
    BY <1>2 DEF StartsAt
  <1>5. \A j \in 1..Len(k) : s[j] = k[j]
    BY <1>3 DEF StartsAt
  <1>6. ASSUME Len(t) < Len(k) PROVE FALSE
    <2>1. Len(t) \in 1..Len(t) /\ Len(t) \in 1..Len(k) /\ Len(t) # Len(k)
      BY <1>1, <1>6
    <2>2. k[Len(t)] = c
      BY <1>4, <1>5, <2>1 DEF Bracketed
    <2> QED BY <2>1, <2>2 DEF Bracketed
  <1>7. ASSUME Len(k) < Len(t) PROVE FALSE
    <2>1. Len(k) \in 1..Len(t) /\ Len(k) \in 1..Len(k) /\ Len(t) # Len(k)
      BY <1>1, <1>7
    <2>2. t[Len(k)] = c
      BY <1>4, <1>5, <2>1 DEF Bracketed
    <2> QED BY <2>1, <2>2 DEF Bracketed
  <1>8. Len(t) = Len(k)
    BY <1>1, <1>6, <1>7
  <1>9. \A j \in 1..Len(t) : t[j] = k[j]
    BY <1>4, <1>5, <1>8
  <1> QED BY <1>8, <1>9, SeqEqual

\* The keys of M are tokens, and no o stands in what they stand for.
Tokens(A, o, c, M) ==
    /\ Words(A, M)
    /\ \A t \in DOMAIN M : Bracketed(o, c, t) /\ Without(o, M[t])

\* A text that begins with a token.
LEMMA TokenFirst ==
  ASSUME NEW A, NEW o, NEW c, NEW M, Tokens(A, o, c, M), NEW k \in DOMAIN M,
         NEW s, NEW r, Joins(A, s, k, r)
  PROVE  Substitute(s, M) = M[k] \o Substitute(r, M)
  <1>1. Words(A, M) /\ k \in Seq(A) /\ Bracketed(o, c, k) /\ k # <<>> /\ s \in Seq(A)
    BY DEF Tokens, Words, Bracketed, Joins
  <1>2. StartsAt(s, k, 1)
    BY <1>1, WordJoins
  <1>3. k \in KeysAt(s, M, 1)
    BY <1>1, <1>2 DEF KeysAt
  <1>4. ASSUME NEW v \in KeysAt(s, M, 1) PROVE Len(v) <= Len(k)
    <2>1. v \in DOMAIN M /\ StartsAt(s, v, 1)
      BY DEF KeysAt
    <2>2. v \in Seq(A) /\ Bracketed(o, c, v)
      BY <2>1 DEF Tokens, Words
    <2>3. v = k
      BY <1>1, <1>2, <2>1, <2>2, OneBegins
    <2>4. Len(k) \in Nat
      BY <1>1
    <2> QED BY <2>3, <2>4
  <1> QED BY <1>1, <1>3, <1>4, SubstituteLongest

\* A text that begins with a part without tokens.
LEMMA TokensBehind ==
  ASSUME NEW A, NEW o, NEW c, NEW M, Tokens(A, o, c, M),
         NEW s, NEW p, NEW r, Joins(A, s, p, r), Without(o, p)
  PROVE  Substitute(s, M) = p \o Substitute(r, M)
  <1>1. /\ s \in Seq(A) /\ p \in Seq(A) /\ r \in Seq(A) /\ Len(p) \in Nat /\ Len(r) \in Nat
        /\ Len(s) = Len(p) + Len(r) /\ \A i \in 1..Len(p) : s[i] = p[i]
    BY DEF Joins
  <1>2. ASSUME NEW i \in 1..Len(p) PROVE KeysAt(s, M, i) = {}
    <2>1. i \in 1..Len(s) /\ s[i] # o
      BY <1>1 DEF Without
    <2>2. Words(A, M) /\ \A t \in DOMAIN M : Bracketed(o, c, t)
      BY DEF Tokens
    <2> QED BY <1>1, <2>1, <2>2, NoneBegins
  <1>3. Idle(A, s, M, p, r)
    BY <1>2 DEF Idle
  <1>4. Words(A, M)
    BY DEF Tokens
  <1> QED BY <1>1, <1>3, <1>4, SubstituteIdle

\* Single(w, t) puts t where w stood.
LEMMA SingleFirst ==
  ASSUME NEW A, NEW s, NEW w, NEW r, Joins(A, s, w, r), w # <<>>, NEW t \in Seq(A)
  PROVE  Substitute(s, Single(w, t)) = t \o Substitute(r, Single(w, t))
  <1>0. s \in Seq(A) /\ w \in Seq(A)
    BY DEF Joins
  <1>1. PICK T : T = Single(w, t)
    OBVIOUS
  <1>2. DOMAIN T = {w} /\ T[w] = t /\ Words(A, T)
    BY <1>0, <1>1 DEF Single, Words
  <1>3. StartsAt(s, w, 1)
    BY <1>0, WordJoins
  <1>4. Len(w) <= Len(w)
    BY <1>0
  <1>5. w \in KeysAt(s, T, 1) /\ \A v \in KeysAt(s, T, 1) : Len(v) <= Len(w)
    BY <1>2, <1>3, <1>4 DEF KeysAt
  <1>6. Substitute(s, T) = T[w] \o Substitute(r, T)
    <2>1. Words(A, T)
      BY <1>2
    <2>2. w \in KeysAt(s, T, 1)
      BY <1>5
    <2>3. \A v \in KeysAt(s, T, 1) : Len(v) <= Len(w)
      BY <1>5
    <2> QED BY <2>1, <2>2, <2>3, SubstituteLongest
  <1> QED BY <1>1, <1>2, <1>6

\* Taking one token back, and then the others.
Undone(M, M2, t, u) == Substitute(Substitute(u, Single(t, M[t])), M2) = Substitute(u, M)
OneLess(A, o, c, M, t, M2) ==
    /\ Tokens(A, o, c, M) /\ t \in DOMAIN M
    /\ DOMAIN M2 = DOMAIN M \ {t} /\ \A k \in DOMAIN M2 : M2[k] = M[k]

LEMMA OneLessTokens ==
  ASSUME NEW A, NEW o, NEW c, NEW M, NEW t, NEW M2, OneLess(A, o, c, M, t, M2)
  PROVE  /\ Tokens(A, o, c, M) /\ Tokens(A, o, c, M2) /\ Words(A, M) /\ Words(A, M2)
         /\ t \in DOMAIN M /\ t \in Seq(A) /\ M[t] \in Seq(A) /\ Bracketed(o, c, t)
         /\ t # <<>> /\ Without(o, M[t]) /\ Words(A, Single(t, M[t]))
  <1>1. Tokens(A, o, c, M) /\ t \in DOMAIN M
    BY DEF OneLess
  <1>2. /\ Words(A, M) /\ t \in Seq(A) /\ M[t] \in Seq(A) /\ Bracketed(o, c, t)
        /\ Without(o, M[t])
    BY <1>1 DEF Tokens, Words
  <1>3. Tokens(A, o, c, M2) /\ Words(A, M2)
    BY DEF OneLess, Tokens, Words
  <1>4. t # <<>>
    BY <1>2 DEF Bracketed
  <1>5. Words(A, Single(t, M[t]))
    BY <1>2, SingleWords
  <1> QED BY <1>1, <1>2, <1>3, <1>4, <1>5

\* The text begins with t.
LEMMA UndoneToken ==
  ASSUME NEW A, NEW o, NEW c, NEW M, NEW t, NEW M2, OneLess(A, o, c, M, t, M2),
         NEW u, NEW r, Joins(A, u, t, r), Undone(M, M2, t, r)
  PROVE  Undone(M, M2, t, u)
  <1>0. /\ Tokens(A, o, c, M) /\ Tokens(A, o, c, M2) /\ t \in DOMAIN M /\ M[t] \in Seq(A)
        /\ t # <<>> /\ Without(o, M[t]) /\ Words(A, Single(t, M[t]))
    BY OneLessTokens
  <1>1. r \in Seq(A)
    BY DEF Joins
  <1>2. PICK w : w = M[t]
    OBVIOUS
  <1>3. PICK out, rest : out = Substitute(u, Single(t, w)) /\ rest = Substitute(r, Single(t, w))
    OBVIOUS
  <1>4. out = w \o rest
    <2>1. t # <<>> /\ w \in Seq(A)
      BY <1>0, <1>2
    <2> QED BY <1>3, <2>1, SingleFirst
  <1>5. rest \in Seq(A) /\ w \in Seq(A)
    BY <1>0, <1>1, <1>2, <1>3, SubstituteType
  <1>6. Joins(A, out, w, rest)
    BY <1>4, <1>5, JoinsConcat
  <1>7. Substitute(out, M2) = w \o Substitute(rest, M2)
    <2>1. Tokens(A, o, c, M2) /\ Without(o, w)
      BY <1>0, <1>2
    <2> QED BY <1>6, <2>1, TokensBehind
  <1>8. Substitute(u, M) = M[t] \o Substitute(r, M)
    <2>1. Tokens(A, o, c, M) /\ t \in DOMAIN M
      BY <1>0
    <2> QED BY <2>1, TokenFirst
  <1> QED BY <1>2, <1>3, <1>7, <1>8, Zenon DEF Undone

\* It begins with another token.
LEMMA UndoneOther ==
  ASSUME NEW A, NEW o, NEW c, NEW M, NEW t, NEW M2, OneLess(A, o, c, M, t, M2),
         NEW u, NEW k \in DOMAIN M, k # t, NEW r, Joins(A, u, k, r), Undone(M, M2, t, r)
  PROVE  Undone(M, M2, t, u)
  <1>0. /\ Tokens(A, o, c, M) /\ Tokens(A, o, c, M2) /\ t \in Seq(A) /\ M[t] \in Seq(A)
        /\ Bracketed(o, c, t) /\ Words(A, Single(t, M[t])) /\ Words(A, M)
    BY OneLessTokens
  <1>1. /\ u \in Seq(A) /\ r \in Seq(A) /\ k \in Seq(A) /\ Len(k) \in Nat /\ Len(r) \in Nat
        /\ Len(u) = Len(k) + Len(r) /\ \A i \in 1..Len(k) : u[i] = k[i]
    BY DEF Joins
  <1>2. Bracketed(o, c, k)
    BY <1>0 DEF Tokens
  <1>3. PICK T : T = Single(t, M[t])
    OBVIOUS
  <1>4. DOMAIN T = {t} /\ Words(A, T)
    BY <1>0, <1>3 DEF Single
  <1>5. ~StartsAt(u, t, 1)
    <2>1. StartsAt(u, k, 1)
      BY <1>1, WordJoins
    <2> QED BY <1>0, <1>1, <1>2, <2>1, OneBegins
  <1>6. ASSUME NEW i \in 1..Len(k) PROVE KeysAt(u, T, i) = {}
    <2>1. CASE i = 1
      BY <1>4, <1>5, <2>1 DEF KeysAt
    <2>2. CASE i # 1
      <3>1. i \in 1..Len(u) /\ u[i] # o
        BY <1>1, <1>2, <2>2 DEF Bracketed
      <3>2. \A v \in DOMAIN T : Bracketed(o, c, v)
        BY <1>0, <1>4
      <3>3. Words(A, T) /\ u \in Seq(A)
        BY <1>1, <1>4
      <3> QED BY <3>1, <3>2, <3>3, NoneBegins
    <2> QED BY <2>1, <2>2
  <1>7. Idle(A, u, T, k, r)
    BY <1>6 DEF Idle
  <1>8. PICK out, rest : out = Substitute(u, T) /\ rest = Substitute(r, T)
    OBVIOUS
  <1>9. out = k \o rest
    BY <1>1, <1>4, <1>7, <1>8, SubstituteIdle
  <1>10. rest \in Seq(A)
    BY <1>1, <1>4, <1>8, SubstituteType
  <1>11. Joins(A, out, k, rest)
    BY <1>1, <1>9, <1>10, JoinsConcat
  <1>12. k \in DOMAIN M2 /\ M2[k] = M[k]
    BY DEF OneLess
  <1>13. Substitute(out, M2) = M2[k] \o Substitute(rest, M2)
    <2>1. Tokens(A, o, c, M2) /\ k \in DOMAIN M2
      BY <1>0, <1>12
    <2> QED BY <1>11, <2>1, TokenFirst
  <1>14. Substitute(u, M) = M[k] \o Substitute(r, M)
    BY <1>0, TokenFirst
  <1> QED BY <1>3, <1>8, <1>12, <1>13, <1>14, Zenon DEF Undone

\* It begins with no token, and not with an o either.
LEMMA UndoneSkip ==
  ASSUME NEW A, NEW o, NEW c, NEW M, NEW t, NEW M2, OneLess(A, o, c, M, t, M2),
         NEW u, NEW p, NEW r, Skips(A, u, M, p, r), p[1] # o, Undone(M, M2, t, r)
  PROVE  Undone(M, M2, t, u)
  <1>0. /\ Tokens(A, o, c, M2) /\ Words(A, M) /\ Words(A, M2) /\ t \in DOMAIN M
        /\ Words(A, Single(t, M[t]))
    BY OneLessTokens
  <1>1. Joins(A, u, p, r) /\ Len(p) = 1 /\ KeysAt(u, M, 1) = {}
    BY Zenon DEF Skips
  <1>2. r \in Seq(A) /\ p \in Seq(A)
    BY <1>1 DEF Joins
  <1>3. PICK T : T = Single(t, M[t])
    OBVIOUS
  <1>4. DOMAIN T = {t} /\ Words(A, T)
    BY <1>0, <1>3 DEF Single
  <1>5. KeysAt(u, T, 1) = {}
    BY <1>0, <1>1, <1>4 DEF KeysAt
  <1>6. Skips(A, u, T, p, r)
    BY <1>1, <1>5 DEF Skips
  <1>7. PICK out, rest : out = Substitute(u, T) /\ rest = Substitute(r, T)
    OBVIOUS
  <1>8. out = p \o rest
    <2>1. Words(A, T)
      BY <1>4
    <2> QED BY <1>6, <1>7, <2>1, SubstituteSkip
  <1>9. rest \in Seq(A)
    BY <1>2, <1>4, <1>7, SubstituteType
  <1>10. Joins(A, out, p, rest)
    BY <1>2, <1>8, <1>9, JoinsConcat
  <1>11. Substitute(out, M2) = p \o Substitute(rest, M2)
    <2>1. Without(o, p)
      BY <1>1 DEF Without
    <2> QED BY <1>0, <1>10, <2>1, TokensBehind
  <1>12. Substitute(u, M) = p \o Substitute(r, M)
    BY <1>0, SubstituteSkip
  <1> QED BY <1>3, <1>7, <1>11, <1>12, Zenon DEF Undone

LEMMA UndoneAlways ==
  ASSUME NEW A, NEW o, NEW c, NEW M, NEW t, NEW M2, OneLess(A, o, c, M, t, M2)
  PROVE  \A u \in Seq(A) : Without(o, Substitute(u, M)) => Undone(M, M2, t, u)
  <1>0. Words(A, M) /\ Tokens(A, o, c, M) /\ t \in DOMAIN M
    BY OneLessTokens
  <1> DEFINE S == {u \in Seq(A) : Without(o, Substitute(u, M)) => Undone(M, M2, t, u)}
  <1>1. ASSUME NEW u \in Seq(A), \A v \in Seq(A) : Len(v) < Len(u) => v \in S,
               Without(o, Substitute(u, M))
        PROVE  Undone(M, M2, t, u)
    <2>1. CASE u = <<>>
      BY <2>1, SubstituteEmpty DEF Undone
    <2>2. ASSUME NEW k, NEW r, Begins(A, u, M, k, r) PROVE Undone(M, M2, t, u)
      <3>1. /\ Joins(A, u, k, r) /\ k \in DOMAIN M
        BY <2>2, Zenon DEF Begins
      <3>2. r \in Seq(A) /\ Len(r) < Len(u) /\ M[k] \in Seq(A)
        BY <1>0, <2>2, <3>1 DEF Joins, Begins, Words
      <3>3. Substitute(u, M) = M[k] \o Substitute(r, M)
        BY <1>0, <2>2, SubstituteKey
      <3>4. PICK a, b : a = M[k] /\ b = Substitute(r, M)
        OBVIOUS
      <3>5. a \in Seq(A) /\ b \in Seq(A) /\ Without(o, a \o b)
        BY <1>0, <1>1, <3>2, <3>3, <3>4, SubstituteType
      <3>6. Without(o, b)
        BY <3>5, WithoutParts
      <3>7. Undone(M, M2, t, r)
        BY <1>1, <3>2, <3>4, <3>6
      <3>8. CASE k = t
        BY <3>1, <3>7, <3>8, UndoneToken
      <3>9. CASE k # t
        BY <3>1, <3>7, <3>9, UndoneOther
      <3> QED BY <3>8, <3>9
    <2>3. ASSUME NEW p, NEW r, Skips(A, u, M, p, r) PROVE Undone(M, M2, t, u)
      <3>1. Joins(A, u, p, r) /\ Len(p) = 1
        BY <2>3, Zenon DEF Skips
      <3>2. r \in Seq(A) /\ p \in Seq(A) /\ Len(r) < Len(u)
        BY <3>1 DEF Joins
      <3>3. Substitute(u, M) = p \o Substitute(r, M)
        BY <1>0, <2>3, SubstituteSkip
      <3>4. PICK b : b = Substitute(r, M)
        OBVIOUS
      <3>5. b \in Seq(A) /\ Without(o, p \o b)
        BY <1>0, <1>1, <3>2, <3>3, <3>4, SubstituteType
      <3>6. Without(o, p) /\ Without(o, b)
        BY <3>2, <3>5, WithoutParts
      <3>7. Undone(M, M2, t, r)
        BY <1>1, <3>2, <3>4, <3>6
      <3>8. p[1] # o
        BY <3>1, <3>6 DEF Without
      <3> QED BY <2>3, <3>7, <3>8, UndoneSkip
    <2> QED BY <1>0, <2>1, <2>2, <2>3, TextCases
  <1>2. \A u \in Seq(A) : (\A v \in Seq(A) : Len(v) < Len(u) => v \in S) => u \in S
    BY <1>1
  <1> HIDE DEF S
  <1>3. Seq(A) \subseteq S
    BY <1>2, ByLength
  <1> QED BY <1>3 DEF S

\* Tokens that can be taken back at once can be taken back one after another.
LEMMA BackInTurn ==
  ASSUME NEW A, NEW o, NEW c, NEW back, Tokens(A, o, c, back), IsFiniteSet(DOMAIN back),
         NEW u \in Seq(A), Without(o, Substitute(u, back))
  PROVE  ReplaceInTurn(u, back) = Substitute(u, back)
  <1>1. Words(A, back)
    BY DEF Tokens
  <1>2. PICK s : s = Substitute(u, back)
    OBVIOUS
  <1>3. Without(o, s) /\ s \in Seq(A)
    BY <1>1, <1>2, SubstituteType
  <1> DEFINE Z == {b \in States(A, back) : Substitute(b.text, Of(back, b.left)) = s}
  <1>4. Start(u, back) \in Z
    <2>1. PICK M : M = Of(back, DOMAIN back)
      OBVIOUS
    <2>2. DOMAIN M = DOMAIN back /\ \A w \in DOMAIN back : M[w] = back[w]
      BY <2>1 DEF Of
    <2>3. Substitute(u, M) = s
      <3>1. \A w \in DOMAIN M : w \in DOMAIN back /\ M[w] = back[w]
        BY <2>2
      <3>2. \A w \in DOMAIN back \ DOMAIN M : ~Occurs(w, u)
        BY <2>2
      <3> QED BY <1>1, <1>2, <3>1, <3>2, SameMapping
    <2>4. /\ Start(u, back) \in States(A, back) /\ Start(u, back).text = u
          /\ Start(u, back).left = DOMAIN back
      BY DEF Start, States
    <2> QED BY <2>1, <2>3, <2>4
  <1>5. ASSUME NEW b \in Z, NEW t, Turn(A, back, b, t) PROVE Replaced(back, b, t) \in Z
    <2>1. PICK d : d = Replaced(back, b, t)
      OBVIOUS
    <2>2. /\ d \in States(A, back) /\ d.text = Substitute(b.text, Single(t, back[t]))
          /\ d.left = b.left \ {t} /\ t \in DOMAIN back
      BY <1>1, <1>5, <2>1, ReplacedState
    <2>3. b.text \in Seq(A) /\ b.left \subseteq DOMAIN back /\ t \in b.left
      BY <1>5 DEF Turn
    <2>4. PICK M, M2 : M = Of(back, b.left) /\ M2 = Of(back, d.left)
      OBVIOUS
    <2>5. /\ DOMAIN M = b.left /\ DOMAIN M2 = b.left \ {t} /\ M[t] = back[t]
          /\ \A k \in b.left : M[k] = back[k] /\ (k # t => M2[k] = back[k])
      BY <2>2, <2>3, <2>4 DEF Of
    <2>6. Tokens(A, o, c, M)
      BY <2>3, <2>5 DEF Tokens, Words
    <2>7. OneLess(A, o, c, M, t, M2)
      BY <2>3, <2>5, <2>6 DEF OneLess
    <2>8. Substitute(b.text, M) = s
      BY <1>5, <2>4
    <2>9. Undone(M, M2, t, b.text)
      BY <1>3, <2>3, <2>7, <2>8, UndoneAlways
    <2>10. Substitute(d.text, M2) = s
      BY <2>2, <2>5, <2>8, <2>9 DEF Undone
    <2> QED BY <2>1, <2>2, <2>4, <2>10
  <1> HIDE DEF Z
  <1>6. PICK b \in Z : b.left = {} /\ b.text = ReplaceInTurn(u, back)
    BY <1>1, <1>4, <1>5, AllTurns
  <1>7. PICK M : M = Of(back, {})
    OBVIOUS
  <1>8. DOMAIN M = {}
    BY <1>7 DEF Of
  <1>9. Substitute(b.text, M) = s /\ b.text \in Seq(A)
    BY <1>6, <1>7 DEF Z, States
  <1>10. Words(A, M) /\ \A i \in 1..Len(b.text) : KeysAt(b.text, M, i) = {}
    BY <1>8 DEF Words, KeysAt
  <1>11. Substitute(b.text, M) = b.text
    BY <1>9, <1>10, NothingReplaced
  <1> QED BY <1>2, <1>6, <1>9, <1>11

LEMMA Regroup ==
  ASSUME NEW A, NEW s \in Seq(A), NEW t \in Seq(A), NEW u \in Seq(A)
  PROVE  s \o (t \o u) = (s \o t) \o u /\ s \o t \in Seq(A) /\ t \o u \in Seq(A)
  <1>1. s \o (t \o u) = (s \o t) \o u
    OBVIOUS
  <1>2. s \o t \in Seq(A) /\ t \o u \in Seq(A)
    BY ConcatProperties
  <1> QED BY <1>1, <1>2, Zenon

\* Two ways to cut a text after its first symbol.
LEMMA SameHead ==
  ASSUME NEW A, NEW k \in Seq(A), NEW r \in Seq(A), NEW k2 \in Seq(A), NEW r2 \in Seq(A),
         Len(k) = 1, Len(k2) = 1, k \o r = k2 \o r2
  PROVE  k = k2 /\ r = r2
  <1>1. PICK s : s = k \o r
    OBVIOUS
  <1>2. Joins(A, s, k, r) /\ Joins(A, s, k2, r2)
    BY <1>1, JoinsConcat
  <1>3. k[1] = s[1] /\ k2[1] = s[1]
    BY <1>2 DEF Joins
  <1>4. k = k2
    BY <1>3, SeqEqual
  <1>5. Len(r) = Len(r2) /\ \A i \in 1..Len(r) : r[i] = r2[i]
    BY <1>2 DEF Joins
  <1>6. r = r2
    BY <1>5, SeqEqual
  <1> QED BY <1>4, <1>6

---------------------------------------------------------------------------
(* What a text with tokens stands for: token by token of a book of pairs, *)
(* and symbol by symbol where there is no o.  It is the least relation    *)
(* that begins with the empty text and may always put one more of them in *)
(* front; what every such relation has is said of it without counting.    *)

Book(A, o, c, P) == P \subseteq Seq(A) \X Seq(A) /\ \A p \in P : Bracketed(o, c, p[1])
Builds(A, o, P, Z) ==
    /\ Z \subseteq Seq(A) \X Seq(A)
    /\ \A e \in Seq(A) : Len(e) = 0 => <<e, e>> \in Z
    /\ \A z \in Z : \A k \in Seq(A) :
          Len(k) = 1 /\ k[1] # o => <<k \o z[1], k \o z[2]>> \in Z
    /\ \A z \in Z : \A p \in P : <<p[1] \o z[1], p[2] \o z[2]>> \in Z
Reads(A, o, P, u, x) ==
    /\ u \in Seq(A) /\ x \in Seq(A)
    /\ \A Z : Builds(A, o, P, Z) => <<u, x>> \in Z

\* It is such a relation itself.
LEMMA ReadsEmpty ==
  ASSUME NEW A, NEW o, NEW P, NEW e \in Seq(A), Len(e) = 0
  PROVE  Reads(A, o, P, e, e)
  BY DEF Reads, Builds

LEMMA ReadsSymbol ==
  ASSUME NEW A, NEW o, NEW P, NEW k \in Seq(A), Len(k) = 1, k[1] # o,
         NEW u, NEW x, Reads(A, o, P, u, x)
  PROVE  Reads(A, o, P, k \o u, k \o x)
  <1>1. u \in Seq(A) /\ x \in Seq(A)
    BY DEF Reads
  <1>2. k \o u \in Seq(A) /\ k \o x \in Seq(A)
    BY <1>1, ConcatProperties
  <1>3. ASSUME NEW Z, Builds(A, o, P, Z) PROVE <<k \o u, k \o x>> \in Z
    <2>1. PICK z \in Z : z = <<u, x>>
      BY <1>3 DEF Reads
    <2>2. <<k \o z[1], k \o z[2]>> \in Z
      BY <1>3 DEF Builds
    <2> QED BY <2>1, <2>2
  <1> QED BY <1>2, <1>3 DEF Reads

LEMMA ReadsToken ==
  ASSUME NEW A, NEW o, NEW c, NEW P, Book(A, o, c, P), NEW p \in P,
         NEW u, NEW x, Reads(A, o, P, u, x)
  PROVE  Reads(A, o, P, p[1] \o u, p[2] \o x)
  <1>1. u \in Seq(A) /\ x \in Seq(A) /\ p[1] \in Seq(A) /\ p[2] \in Seq(A)
    BY DEF Reads, Book
  <1>2. p[1] \o u \in Seq(A) /\ p[2] \o x \in Seq(A)
    BY <1>1, ConcatProperties
  <1>3. ASSUME NEW Z, Builds(A, o, P, Z) PROVE <<p[1] \o u, p[2] \o x>> \in Z
    <2>1. PICK z \in Z : z = <<u, x>>
      BY <1>3 DEF Reads
    <2>2. <<p[1] \o z[1], p[2] \o z[2]>> \in Z
      BY <1>3 DEF Builds
    <2> QED BY <2>1, <2>2
  <1> QED BY <1>2, <1>3 DEF Reads

\* How a pair of texts begins.
BothEmpty(u, x) == Len(u) = 0 /\ Len(x) = 0
BySymbol(A, o, P, u, x) ==
    \E k, r, y \in Seq(A) : /\ Len(k) = 1 /\ k[1] # o
                            /\ u = k \o r /\ x = k \o y /\ Reads(A, o, P, r, y)
ByToken(A, o, P, u, x) ==
    \E p \in P : \E r, y \in Seq(A) : u = p[1] \o r /\ x = p[2] \o y /\ Reads(A, o, P, r, y)

LEMMA ReadsCases ==
  ASSUME NEW A, NEW o, NEW c, NEW P, Book(A, o, c, P), NEW u, NEW x, Reads(A, o, P, u, x)
  PROVE  BothEmpty(u, x) \/ BySymbol(A, o, P, u, x) \/ ByToken(A, o, P, u, x)
  <1> DEFINE Fine(v, y) == BothEmpty(v, y) \/ BySymbol(A, o, P, v, y) \/ ByToken(A, o, P, v, y)
             Z == {z \in Seq(A) \X Seq(A) : Reads(A, o, P, z[1], z[2]) /\ Fine(z[1], z[2])}
  <1>1. ASSUME NEW e \in Seq(A), Len(e) = 0 PROVE <<e, e>> \in Z
    <2>1. Reads(A, o, P, e, e) /\ Fine(e, e)
      BY <1>1, ReadsEmpty DEF BothEmpty
    <2> HIDE DEF Fine
    <2> QED BY <2>1
  <1>2. ASSUME NEW z \in Z, NEW k \in Seq(A), Len(k) = 1, k[1] # o
        PROVE  <<k \o z[1], k \o z[2]>> \in Z
    <2>1. PICK r, y \in Seq(A) : r = z[1] /\ y = z[2] /\ Reads(A, o, P, r, y)
      OBVIOUS
    <2>2. Reads(A, o, P, k \o r, k \o y)
      BY <1>2, <2>1, ReadsSymbol
    <2>3. BySymbol(A, o, P, k \o r, k \o y)
      BY <1>2, <2>1 DEF BySymbol
    <2>4. k \o r \in Seq(A) /\ k \o y \in Seq(A) /\ Fine(k \o r, k \o y)
      BY <2>2, <2>3 DEF Reads
    <2> HIDE DEF Fine
    <2> QED BY <2>1, <2>2, <2>4
  <1>3. ASSUME NEW z \in Z, NEW p \in P PROVE <<p[1] \o z[1], p[2] \o z[2]>> \in Z
    <2>1. PICK r, y \in Seq(A) : r = z[1] /\ y = z[2] /\ Reads(A, o, P, r, y)
      OBVIOUS
    <2>2. Reads(A, o, P, p[1] \o r, p[2] \o y)
      BY <2>1, ReadsToken
    <2>3. ByToken(A, o, P, p[1] \o r, p[2] \o y)
      BY <2>1 DEF ByToken
    <2>4. p[1] \o r \in Seq(A) /\ p[2] \o y \in Seq(A) /\ Fine(p[1] \o r, p[2] \o y)
      BY <2>2, <2>3 DEF Reads
    <2> HIDE DEF Fine
    <2> QED BY <2>1, <2>2, <2>4
  <1>4. Z \subseteq Seq(A) \X Seq(A)
    OBVIOUS
  <1>5. \A z \in Z : Fine(z[1], z[2])
    OBVIOUS
  <1> HIDE DEF Z, Fine
  <1>6. Builds(A, o, P, Z)
    BY <1>1, <1>2, <1>3, <1>4 DEF Builds
  <1>7. <<u, x>> \in Z
    BY <1>6 DEF Reads
  <1>8. Fine(<<u, x>>[1], <<u, x>>[2])
    BY <1>5, <1>7
  <1> QED BY <1>8 DEF Fine

\* A text without o stands for itself.
LEMMA ReadsPlain ==
  ASSUME NEW A, NEW o, NEW P
  PROVE  \A s \in Seq(A) : Without(o, s) => Reads(A, o, P, s, s)
  <1> DEFINE S == {s \in Seq(A) : Without(o, s) => Reads(A, o, P, s, s)}
  <1>1. ASSUME NEW s \in Seq(A), \A t \in Seq(A) : Len(t) < Len(s) => t \in S, Without(o, s)
        PROVE  Reads(A, o, P, s, s)
    <2>1. CASE Len(s) = 0
      BY <2>1, ReadsEmpty
    <2>2. CASE Len(s) # 0
      <3>1. 1 \in 0..Len(s)
        BY <2>2
      <3>2. PICK k, r : Joins(A, s, k, r) /\ Len(k) = 1
        BY <3>1, CutJoins
      <3>3. k \in Seq(A) /\ r \in Seq(A) /\ Len(r) < Len(s) /\ s = k \o r
        <4>1. k \in Seq(A) /\ r \in Seq(A) /\ Len(r) < Len(s)
          BY <3>2 DEF Joins
        <4>2. s = k \o r
          BY <3>2, ConcatJoins
        <4> QED BY <4>1, <4>2
      <3>4. Without(o, k) /\ Without(o, r)
        BY <1>1, <3>3, WithoutParts
      <3>5. k[1] # o
        BY <3>2, <3>4 DEF Without
      <3>6. Reads(A, o, P, r, r)
        BY <1>1, <3>3, <3>4
      <3>7. Reads(A, o, P, k \o r, k \o r)
        BY <3>2, <3>3, <3>5, <3>6, ReadsSymbol
      <3> QED BY <3>3, <3>7
    <2> QED BY <2>1, <2>2
  <1>2. \A s \in Seq(A) : (\A t \in Seq(A) : Len(t) < Len(s) => t \in S) => s \in S
    BY <1>1
  <1> HIDE DEF S
  <1>3. Seq(A) \subseteq S
    BY <1>2, ByLength
  <1> QED BY <1>3 DEF S

\* In a larger book it stands for the same.
LEMMA ReadsMore ==
  ASSUME NEW A, NEW o, NEW P, NEW Q, P \subseteq Q, NEW u, NEW x, Reads(A, o, P, u, x)
  PROVE  Reads(A, o, Q, u, x)
  <1>1. ASSUME NEW Z, Builds(A, o, Q, Z) PROVE <<u, x>> \in Z
    <2>1. Builds(A, o, P, Z)
      BY <1>1 DEF Builds
    <2> QED BY <2>1 DEF Reads
  <1> QED BY <1>1 DEF Reads

\* One text after another.
LEMMA ReadsJoin ==
  ASSUME NEW A, NEW o, NEW c, NEW P, Book(A, o, c, P), NEW t, NEW y, Reads(A, o, P, t, y),
         NEW u, NEW x, Reads(A, o, P, u, x)
  PROVE  Reads(A, o, P, u \o t, x \o y)
  <1>0. t \in Seq(A) /\ y \in Seq(A)
    BY DEF Reads
  <1> DEFINE Z == {z \in Seq(A) \X Seq(A) : Reads(A, o, P, z[1] \o t, z[2] \o y)}
  <1>1. ASSUME NEW e \in Seq(A), Len(e) = 0 PROVE <<e, e>> \in Z
    <2>1. e \o t = t /\ e \o y = y
      BY <1>0, <1>1, EmptySeq, ConcatEmptySeq
    <2> QED BY <2>1
  <1>2. ASSUME NEW z \in Z, NEW k \in Seq(A), Len(k) = 1, k[1] # o
        PROVE  <<k \o z[1], k \o z[2]>> \in Z
    <2>1. PICK r, q \in Seq(A) : r = z[1] /\ q = z[2] /\ Reads(A, o, P, r \o t, q \o y)
      OBVIOUS
    <2>2. Reads(A, o, P, k \o (r \o t), k \o (q \o y))
      BY <1>2, <2>1, ReadsSymbol
    <2>3. k \o (r \o t) = (k \o r) \o t /\ k \o r \in Seq(A)
      BY <1>0, <2>1, Regroup
    <2>4. k \o (q \o y) = (k \o q) \o y /\ k \o q \in Seq(A)
      BY <1>0, <2>1, Regroup
    <2> QED BY <2>1, <2>2, <2>3, <2>4
  <1>3. ASSUME NEW z \in Z, NEW p \in P PROVE <<p[1] \o z[1], p[2] \o z[2]>> \in Z
    <2>1. PICK r, q \in Seq(A) : r = z[1] /\ q = z[2] /\ Reads(A, o, P, r \o t, q \o y)
      OBVIOUS
    <2>2. PICK a, b : a = p[1] /\ b = p[2]
      OBVIOUS
    <2>6. a \in Seq(A) /\ b \in Seq(A)
      BY <2>2 DEF Book
    <2>3. Reads(A, o, P, a \o (r \o t), b \o (q \o y))
      BY <2>1, <2>2, ReadsToken
    <2>4. a \o (r \o t) = (a \o r) \o t /\ a \o r \in Seq(A)
      BY <1>0, <2>1, <2>6
    <2>5. b \o (q \o y) = (b \o q) \o y /\ b \o q \in Seq(A)
      BY <1>0, <2>1, <2>6
    <2> QED BY <2>1, <2>2, <2>3, <2>4, <2>5
  <1>4. Z \subseteq Seq(A) \X Seq(A) /\ \A z \in Z : Reads(A, o, P, z[1] \o t, z[2] \o y)
    OBVIOUS
  <1> HIDE DEF Z
  <1>5. Builds(A, o, P, Z)
    BY <1>1, <1>2, <1>3, <1>4 DEF Builds
  <1>6. <<u, x>> \in Z
    BY <1>5 DEF Reads
  <1>7. Reads(A, o, P, <<u, x>>[1] \o t, <<u, x>>[2] \o y)
    BY <1>4, <1>6
  <1> QED BY <1>7

\* What stands for something and begins without o stands for the same
\* beginning and the rest.
LEMMA ReadsRest ==
  ASSUME NEW A, NEW o, NEW c, NEW P, Book(A, o, c, P)
  PROVE  \A w \in Seq(A) : Without(o, w) =>
            \A r, x \in Seq(A) : Reads(A, o, P, w \o r, x) =>
               \E y \in Seq(A) : x = w \o y /\ Reads(A, o, P, r, y)
  <1> DEFINE Strips(w) == \A r, x \in Seq(A) : Reads(A, o, P, w \o r, x) =>
                             \E y \in Seq(A) : x = w \o y /\ Reads(A, o, P, r, y)
             S == {w \in Seq(A) : Without(o, w) => Strips(w)}
  <1>1. ASSUME NEW w \in Seq(A), \A t \in Seq(A) : Len(t) < Len(w) => t \in S, Without(o, w),
               NEW r \in Seq(A), NEW x \in Seq(A), Reads(A, o, P, w \o r, x)
        PROVE  \E y \in Seq(A) : x = w \o y /\ Reads(A, o, P, r, y)
    <2>1. CASE Len(w) = 0
      <3>1. w \o r = r /\ w \o x = x
        BY <2>1, EmptySeq, ConcatEmptySeq
      <3> QED BY <1>1, <3>1
    <2>2. CASE Len(w) # 0
      <3>1. PICK u : u = w \o r
        OBVIOUS
      <3>2. 1 \in 0..Len(w)
        BY <2>2
      <3>3. PICK k, v : Joins(A, w, k, v) /\ Len(k) = 1
        BY <3>2, CutJoins
      <3>4. k \in Seq(A) /\ v \in Seq(A) /\ Len(v) < Len(w) /\ w = k \o v
        <4>1. k \in Seq(A) /\ v \in Seq(A) /\ Len(v) < Len(w)
          BY <3>3 DEF Joins
        <4>2. w = k \o v
          BY <3>3, ConcatJoins
        <4> QED BY <4>1, <4>2
      <3>5. Without(o, k) /\ Without(o, v)
        BY <1>1, <3>4, WithoutParts
      <3>6. k[1] # o
        BY <3>3, <3>5 DEF Without
      <3>7. v \o r \in Seq(A) /\ u = k \o (v \o r)
        BY <3>1, <3>4, Regroup
      <3>8. Len(u) # 0 /\ u[1] = k[1]
        BY <3>3, <3>4, <3>7, ConcatProperties
      <3>9. ~BothEmpty(u, x)
        BY <3>8 DEF BothEmpty
      <3>10. ASSUME NEW p \in P, NEW q \in Seq(A), u = p[1] \o q PROVE FALSE
        <4>1. p[1] \in Seq(A) /\ Bracketed(o, c, p[1])
          BY DEF Book
        <4>2. Len(p[1]) \in Nat \ {0} /\ p[1][1] = o
          BY <4>1, EmptySeq DEF Bracketed
        <4>3. u[1] = o
          BY <3>10, <4>1, <4>2, ConcatProperties
        <4> QED BY <3>6, <3>8, <4>3
      <3>11. ~ByToken(A, o, P, u, x)
        BY <3>10 DEF ByToken
      <3>12. BySymbol(A, o, P, u, x)
        BY <1>1, <3>1, <3>9, <3>11, ReadsCases
      <3>13. PICK k2, q, z \in Seq(A) : /\ Len(k2) = 1 /\ u = k2 \o q /\ x = k2 \o z
                                        /\ Reads(A, o, P, q, z)
        BY <3>12 DEF BySymbol
      <3>14. k2 = k /\ q = v \o r
        BY <3>3, <3>4, <3>7, <3>13, SameHead
      <3>15. PICK y \in Seq(A) : z = v \o y /\ Reads(A, o, P, r, y)
        <4>1. v \in S /\ Reads(A, o, P, v \o r, z)
          BY <1>1, <3>4, <3>13, <3>14
        <4> QED BY <3>5, <4>1
      <3>16. x = w \o y
        <4>1. x = k \o (v \o y)
          BY <3>13, <3>14, <3>15
        <4>2. k \o (v \o y) = (k \o v) \o y
          <5>1. k \in Seq(A) /\ v \in Seq(A) /\ y \in Seq(A)
            BY <3>4, <3>15
          <5> QED BY <5>1
        <4> QED BY <3>4, <4>1, <4>2
      <3> QED BY <3>15, <3>16
    <2> QED BY <2>1, <2>2
  <1>2. \A w \in Seq(A) : (\A t \in Seq(A) : Len(t) < Len(w) => t \in S) => w \in S
    BY <1>1
  <1> HIDE DEF S
  <1>3. Seq(A) \subseteq S
    BY <1>2, ByLength
  <1> QED BY <1>3 DEF S

\* Putting t, which stands for w, in the place of w changes nothing.
Fits(A, o, c, P, w, t) ==
    /\ w \in Seq(A) /\ w # <<>> /\ Without(o, w) /\ \A p \in P : Clear(w, p[1])
    /\ t \in Seq(A) /\ Reads(A, o, P, t, w)

LEMMA ReadsReplace ==
  ASSUME NEW A, NEW o, NEW c, NEW P, Book(A, o, c, P), NEW w, NEW t, Fits(A, o, c, P, w, t)
  PROVE  \A u \in Seq(A) : \A x : Reads(A, o, P, u, x) =>
            Reads(A, o, P, Substitute(u, Single(w, t)), x)
  <1>0. /\ w \in Seq(A) /\ w # <<>> /\ Without(o, w) /\ t \in Seq(A) /\ Reads(A, o, P, t, w)
        /\ \A p \in P : Clear(w, p[1])
    BY DEF Fits
  <1> DEFINE T == Single(w, t)
             Kept(u) == \A x : Reads(A, o, P, u, x) => Reads(A, o, P, Substitute(u, T), x)
             S == {u \in Seq(A) : Kept(u)}
  <1>1. Words(A, T)
    BY <1>0, SingleWords
  <1>2. ASSUME NEW u \in Seq(A), \A v \in Seq(A) : Len(v) < Len(u) => v \in S,
               NEW x, Reads(A, o, P, u, x)
        PROVE  Reads(A, o, P, Substitute(u, T), x)
    <2>0. x \in Seq(A)
      BY <1>2 DEF Reads
    <2>1. CASE StartsAt(u, w, 1)
      <3>1. PICK r : Joins(A, u, w, r)
        BY <1>0, <2>1, WordJoins
      <3>2. r \in Seq(A) /\ Len(r) < Len(u)
        BY <1>0, <3>1, EmptySeq DEF Joins
      <3>3. u = w \o r
        BY <3>1, ConcatJoins
      <3>4. PICK y \in Seq(A) : x = w \o y /\ Reads(A, o, P, r, y)
        BY <1>0, <1>2, <2>0, <3>2, <3>3, ReadsRest
      <3>5. Substitute(u, T) = t \o Substitute(r, T)
        BY <1>0, <3>1, SingleFirst
      <3>6. Reads(A, o, P, Substitute(r, T), y)
        BY <1>2, <3>2, <3>4
      <3> HIDE DEF T
      <3>7. Reads(A, o, P, t \o Substitute(r, T), w \o y)
        BY <1>0, <3>6, ReadsJoin
      <3> QED BY <3>4, <3>5, <3>7
    <2>2. CASE ~StartsAt(u, w, 1)
      <3>1. CASE BothEmpty(u, x)
        <4>1. u = <<>>
          BY <3>1, EmptySeq DEF BothEmpty
        <4>2. Substitute(u, T) = u
          BY <4>1, SubstituteEmpty
        <4> QED BY <1>2, <4>2
      <3>2. CASE BySymbol(A, o, P, u, x)
        <4>1. PICK k, r, y \in Seq(A) : /\ Len(k) = 1 /\ k[1] # o /\ u = k \o r /\ x = k \o y
                                        /\ Reads(A, o, P, r, y)
          BY <3>2 DEF BySymbol
        <4>2. Joins(A, u, k, r) /\ Len(r) < Len(u)
          <5>1. Joins(A, u, k, r)
            BY <4>1, JoinsConcat
          <5> QED BY <4>1, <5>1 DEF Joins
        <4>3. KeysAt(u, T, 1) = {}
          BY <2>2 DEF KeysAt, Single
        <4>4. Skips(A, u, T, k, r)
          BY <4>1, <4>2, <4>3 DEF Skips
        <4>5. Substitute(u, T) = k \o Substitute(r, T)
          BY <1>1, <4>4, SubstituteSkip
        <4>6. Reads(A, o, P, Substitute(r, T), y)
          BY <1>2, <4>1, <4>2
        <4> HIDE DEF T
        <4>7. Reads(A, o, P, k \o Substitute(r, T), k \o y)
          BY <4>1, <4>6, ReadsSymbol
        <4> QED BY <4>1, <4>5, <4>7
      <3>3. CASE ByToken(A, o, P, u, x)
        <4>1. PICK p \in P : \E r, y \in Seq(A) : /\ u = p[1] \o r /\ x = p[2] \o y
                                                  /\ Reads(A, o, P, r, y)
          BY <3>3 DEF ByToken
        <4>2. PICK r, y \in Seq(A) : u = p[1] \o r /\ x = p[2] \o y /\ Reads(A, o, P, r, y)
          BY <4>1
        <4>3. PICK k : k = p[1]
          OBVIOUS
        <4>4. k \in Seq(A) /\ Bracketed(o, c, k) /\ k # <<>> /\ Clear(w, k)
          BY <1>0, <4>3 DEF Book, Bracketed
        <4>5. u = k \o r
          BY <4>2, <4>3
        <4>6. Joins(A, u, k, r)
          BY <4>4, <4>5, JoinsConcat
        <4>7. Len(r) < Len(u)
          BY <4>4, <4>6, EmptySeq DEF Joins
        <4>8. Idle(A, u, T, k, r)
          BY <1>0, <4>4, <4>6, IdleMark
        <4>9. Substitute(u, T) = k \o Substitute(r, T)
          BY <1>1, <4>4, <4>8, SubstituteIdle
        <4>10. Reads(A, o, P, Substitute(r, T), y)
          BY <1>2, <4>2, <4>7
        <4> HIDE DEF T
        <4>11. Reads(A, o, P, p[1] \o Substitute(r, T), p[2] \o y)
          BY <4>10, ReadsToken
        <4> QED BY <4>2, <4>3, <4>9, <4>11
      <3> QED BY <1>2, <3>1, <3>2, <3>3, ReadsCases
    <2> QED BY <2>1, <2>2
  <1>3. \A u \in Seq(A) : (\A v \in Seq(A) : Len(v) < Len(u) => v \in S) => u \in S
    BY <1>2
  <1> HIDE DEF S
  <1>4. Seq(A) \subseteq S
    BY <1>3, ByLength
  <1> QED BY <1>4 DEF S

\* What a text stands for is what it stood for before its keys were replaced.
LEMMA ReadsInTurn ==
  ASSUME NEW A, NEW o, NEW c, NEW P, Book(A, o, c, P), NEW map, Marked(A, map),
         \A w \in DOMAIN map : Fits(A, o, c, P, w, map[w]),
         NEW u, NEW x, Reads(A, o, P, u, x)
  PROVE  Reads(A, o, P, ReplaceInTurn(u, map), x)
  <1>1. IsFiniteSet(DOMAIN map) /\ Words(A, map) /\ u \in Seq(A)
    BY DEF Marked, Reads
  <1> DEFINE Z == {b \in States(A, map) : Reads(A, o, P, b.text, x)}
  <1>2. Start(u, map) \in Z
    BY <1>1 DEF Start, States
  <1>3. ASSUME NEW b \in Z, NEW w, Turn(A, map, b, w) PROVE Replaced(map, b, w) \in Z
    <2>1. PICK d : d = Replaced(map, b, w)
      OBVIOUS
    <2>2. /\ d \in States(A, map) /\ d.text = Substitute(b.text, Single(w, map[w]))
          /\ w \in DOMAIN map
      BY <1>1, <1>3, <2>1, ReplacedState
    <2>3. b.text \in Seq(A) /\ Reads(A, o, P, b.text, x)
      BY <1>3 DEF Turn
    <2>4. Reads(A, o, P, d.text, x)
      BY <2>2, <2>3, ReadsReplace
    <2> QED BY <2>1, <2>2, <2>4
  <1> HIDE DEF Z
  <1>4. PICK b \in Z : b.left = {} /\ b.text = ReplaceInTurn(u, map)
    BY <1>1, <1>2, <1>3, AllTurns
  <1> QED BY <1>4 DEF Z

\* Replacing the tokens of the book at once gives what the text stands for.
LEMMA ReadsBack ==
  ASSUME NEW A, NEW o, NEW c, NEW P, Book(A, o, c, P), NEW back, Tokens(A, o, c, back),
         \A p \in P : p[1] \in DOMAIN back /\ back[p[1]] = p[2],
         NEW u, NEW x, Reads(A, o, P, u, x)
  PROVE  Substitute(u, back) = x
  <1>0. Words(A, back)
    BY DEF Tokens
  <1> DEFINE Z == {z \in Seq(A) \X Seq(A) : Substitute(z[1], back) = z[2]}
  <1>1. ASSUME NEW e \in Seq(A), Len(e) = 0 PROVE <<e, e>> \in Z
    <2>1. e = <<>>
      BY <1>1, EmptySeq
    <2>2. Substitute(e, back) = e
      BY <2>1, SubstituteEmpty
    <2> QED BY <2>2
  <1>2. ASSUME NEW z \in Z, NEW k \in Seq(A), Len(k) = 1, k[1] # o
        PROVE  <<k \o z[1], k \o z[2]>> \in Z
    <2>1. PICK r, y : /\ r \in Seq(A) /\ y \in Seq(A)
                      /\ r = z[1] /\ y = z[2] /\ Substitute(r, back) = y
      OBVIOUS
    <2>2. Joins(A, k \o r, k, r) /\ Without(o, k)
      BY <1>2, <2>1, JoinsConcat DEF Without
    <2>3. Substitute(k \o r, back) = k \o Substitute(r, back)
      BY <2>2, TokensBehind
    <2>4. k \o r \in Seq(A) /\ k \o y \in Seq(A)
      BY <2>1, ConcatProperties
    <2> QED BY <2>1, <2>3, <2>4
  <1>3. ASSUME NEW z \in Z, NEW p \in P PROVE <<p[1] \o z[1], p[2] \o z[2]>> \in Z
    <2>1. PICK r, y : /\ r \in Seq(A) /\ y \in Seq(A)
                      /\ r = z[1] /\ y = z[2] /\ Substitute(r, back) = y
      OBVIOUS
    <2>2. PICK k, w : k = p[1] /\ w = p[2] /\ k \in Seq(A) /\ w \in Seq(A)
      BY DEF Book
    <2>3. k \in DOMAIN back /\ back[k] = w
      <3>1. p[1] \in DOMAIN back /\ back[p[1]] = p[2]
        OBVIOUS
      <3> QED BY <2>2, <3>1
    <2>7. PICK s : s = k \o r
      OBVIOUS
    <2>4. Joins(A, s, k, r)
      BY <2>1, <2>2, <2>7, JoinsConcat
    <2>8. Substitute(s, back) = back[k] \o Substitute(r, back)
      <3>1. Tokens(A, o, c, back) /\ k \in DOMAIN back
        BY <2>3
      <3> HIDE DEF Z
      <3> QED BY <2>4, <3>1, TokenFirst
    <2>5. Substitute(k \o r, back) = w \o Substitute(r, back)
      BY <2>3, <2>7, <2>8
    <2>6. k \o r \in Seq(A) /\ w \o y \in Seq(A)
      BY <2>1, <2>2, ConcatProperties
    <2> QED BY <2>1, <2>2, <2>5, <2>6
  <1>4. Z \subseteq Seq(A) \X Seq(A) /\ \A z \in Z : Substitute(z[1], back) = z[2]
    OBVIOUS
  <1> HIDE DEF Z
  <1>5. Builds(A, o, P, Z)
    BY <1>1, <1>2, <1>3, <1>4 DEF Builds
  <1>6. <<u, x>> \in Z
    BY <1>5 DEF Reads
  <1>7. Substitute(<<u, x>>[1], back) = <<u, x>>[2]
    BY <1>4, <1>6
  <1> QED BY <1>7

\* Where nothing without o is put in the place of anything else, a text that
\* ends up without o is the text it was.
LEMMA NothingChanged ==
  ASSUME NEW A, NEW o, NEW map, Words(A, map),
         \A w \in DOMAIN map : Without(o, map[w]) => map[w] = w
  PROVE  \A s \in Seq(A) : Without(o, Substitute(s, map)) => Substitute(s, map) = s
  <1> DEFINE S == {s \in Seq(A) : Without(o, Substitute(s, map)) => Substitute(s, map) = s}
  <1>1. ASSUME NEW s \in Seq(A), \A t \in Seq(A) : Len(t) < Len(s) => t \in S,
               Without(o, Substitute(s, map))
        PROVE  Substitute(s, map) = s
    <2>1. ASSUME NEW p, NEW r, NEW q, Joins(A, s, p, r), Len(p) > 0, q \in Seq(A),
                 Substitute(s, map) = q \o Substitute(r, map), Without(o, q) => q = p
          PROVE  Substitute(s, map) = s
      <3>1. r \in Seq(A) /\ Len(r) < Len(s) /\ p \in Seq(A)
        BY <2>1 DEF Joins
      <3>2. Substitute(r, map) \in Seq(A)
        BY <3>1, SubstituteType
      <3>3. Without(o, q) /\ Without(o, Substitute(r, map))
        BY <1>1, <2>1, <3>2, WithoutParts
      <3>4. Substitute(r, map) = r
        BY <1>1, <3>1, <3>3
      <3>5. s = p \o r
        BY <2>1, ConcatJoins
      <3> QED BY <2>1, <3>3, <3>4, <3>5
    <2>2. CASE s = <<>>
      BY <2>2, SubstituteEmpty
    <2>3. ASSUME NEW p, NEW r, Skips(A, s, map, p, r) PROVE Substitute(s, map) = s
      <3>1. Joins(A, s, p, r) /\ Len(p) > 0 /\ p \in Seq(A)
        BY <2>3 DEF Skips, Joins
      <3>2. Substitute(s, map) = p \o Substitute(r, map)
        BY <2>3, SubstituteSkip
      <3> QED BY <2>1, <3>1, <3>2
    <2>4. ASSUME NEW p, NEW r, Begins(A, s, map, p, r) PROVE Substitute(s, map) = s
      <3>1. Joins(A, s, p, r) /\ Len(p) > 0 /\ p \in DOMAIN map
        BY <2>4 DEF Begins
      <3>2. map[p] \in Seq(A) /\ (Without(o, map[p]) => map[p] = p)
        BY <3>1 DEF Words
      <3>3. Substitute(s, map) = map[p] \o Substitute(r, map)
        BY <2>4, SubstituteKey
      <3> QED BY <2>1, <3>1, <3>2, <3>3
    <2> QED BY <2>2, <2>3, <2>4, TextCases
  <1>2. \A s \in Seq(A) : (\A t \in Seq(A) : Len(t) < Len(s) => t \in S) => s \in S
    BY <1>1
  <1> HIDE DEF S
  <1>3. Seq(A) \subseteq S
    BY <1>2, ByLength
  <1> QED BY <1>3 DEF S

LEMMA NothingChangedInTurn ==
  ASSUME NEW A, NEW o, NEW map, Words(A, map), IsFiniteSet(DOMAIN map), NEW s \in Seq(A),
         \A w \in DOMAIN map : Without(o, map[w]) => map[w] = w,
         Without(o, ReplaceInTurn(s, map))
  PROVE  ReplaceInTurn(s, map) = s
  <1> DEFINE Z == {b \in States(A, map) : Without(o, b.text) => b.text = s}
  <1>1. Start(s, map) \in Z
    BY DEF Start, States
  <1>2. ASSUME NEW b \in Z, NEW w, Turn(A, map, b, w) PROVE Replaced(map, b, w) \in Z
    <2>1. PICK d : d = Replaced(map, b, w)
      OBVIOUS
    <2>2. /\ d \in States(A, map) /\ d.text = Substitute(b.text, Single(w, map[w]))
          /\ w \in DOMAIN map /\ w \in Seq(A) /\ map[w] \in Seq(A)
      BY <1>2, <2>1, ReplacedState
    <2>3. b.text \in Seq(A)
      BY <1>2 DEF Turn
    <2>4. PICK M : M = Single(w, map[w])
      OBVIOUS
    <2>5. Words(A, M) /\ \A v \in DOMAIN M : Without(o, M[v]) => M[v] = v
      BY <2>2, <2>4, SingleWords DEF Single
    <2>6. Without(o, Substitute(b.text, M)) => Substitute(b.text, M) = b.text
      BY <2>3, <2>5, NothingChanged
    <2>7. Without(o, d.text) => d.text = s
      BY <1>2, <2>2, <2>4, <2>6
    <2> QED BY <2>1, <2>2, <2>7
  <1> HIDE DEF Z
  <1>3. PICK b \in Z : b.left = {} /\ b.text = ReplaceInTurn(s, map)
    BY <1>1, <1>2, AllTurns
  <1> QED BY <1>3 DEF Z

\* What replacing one after another gives is a text, and an empty one only
\* if it was empty before.
LEMMA InTurnType ==
  ASSUME NEW A, NEW map, Words(A, map), IsFiniteSet(DOMAIN map), NEW s \in Seq(A)
  PROVE  /\ ReplaceInTurn(s, map) \in Seq(A)
         /\ Marks(map) /\ s # <<>> => ReplaceInTurn(s, map) # <<>>
  <1> DEFINE Full(b) == Marks(map) /\ Len(s) > 0 => Len(b.text) > 0
             Z == {b \in States(A, map) : Full(b)}
  <1>1. Start(s, map) \in Z
    BY DEF Start, States
  <1>2. ASSUME NEW b \in Z, NEW w, Turn(A, map, b, w) PROVE Replaced(map, b, w) \in Z
    <2>1. PICK d : d = Replaced(map, b, w)
      OBVIOUS
    <2>2. /\ d \in States(A, map) /\ d.text = Substitute(b.text, Single(w, map[w]))
          /\ w \in DOMAIN map /\ w \in Seq(A) /\ map[w] \in Seq(A)
      BY <1>2, <2>1, ReplacedState
    <2>3. PICK M : M = Single(w, map[w])
      OBVIOUS
    <2>4. b.text \in Seq(A) /\ Words(A, M) /\ M[w] = map[w] /\ DOMAIN M = {w}
      BY <1>2, <2>2, <2>3, SingleWords DEF Turn, Single
    <2>5. ASSUME Marks(map), Len(b.text) > 0 PROVE Len(Substitute(b.text, M)) > 0
      <3>1. map[w] # <<>>
        BY <2>2, <2>5 DEF Marks
      <3>2. Len(map[w]) > 0
        BY <2>2, <3>1, EmptySeq
      <3>3. b.text # <<>>
        BY <2>5, EmptySeq
      <3>4. ASSUME NEW p, NEW r, NEW q, Joins(A, b.text, p, r), q \in Seq(A), Len(q) > 0,
                   Substitute(b.text, M) = q \o Substitute(r, M)
            PROVE  Len(Substitute(b.text, M)) > 0
        <4>1. r \in Seq(A)
          BY <3>4 DEF Joins
        <4>2. Substitute(r, M) \in Seq(A)
          BY <2>4, <4>1, SubstituteType
        <4>3. Len(q \o Substitute(r, M)) = Len(q) + Len(Substitute(r, M))
          BY <3>4, <4>2, ConcatProperties
        <4> QED BY <3>4, <4>2, <4>3
      <3>5. ASSUME NEW p, NEW r, Skips(A, b.text, M, p, r)
            PROVE  Len(Substitute(b.text, M)) > 0
        <4>1. Joins(A, b.text, p, r) /\ Len(p) > 0 /\ p \in Seq(A)
          BY <3>5 DEF Skips, Joins
        <4>2. Substitute(b.text, M) = p \o Substitute(r, M)
          BY <2>4, <3>5, SubstituteSkip
        <4> QED BY <3>4, <4>1, <4>2
      <3>6. ASSUME NEW p, NEW r, Begins(A, b.text, M, p, r)
            PROVE  Len(Substitute(b.text, M)) > 0
        <4>1. Joins(A, b.text, p, r) /\ p = w
          BY <2>4, <3>6 DEF Begins
        <4>2. Substitute(b.text, M) = M[p] \o Substitute(r, M)
          BY <2>4, <3>6, SubstituteKey
        <4>3. M[p] \in Seq(A) /\ Len(M[p]) > 0
          BY <2>2, <2>4, <3>2, <4>1
        <4> QED BY <3>4, <4>1, <4>2, <4>3
      <3> QED BY <2>4, <3>3, <3>5, <3>6, TextCases
    <2>6. Full(d)
      BY <1>2, <2>2, <2>3, <2>5
    <2> QED BY <2>1, <2>2, <2>6
  <1> HIDE DEF Z
  <1>3. PICK b \in Z : b.left = {} /\ b.text = ReplaceInTurn(s, map)
    BY <1>1, <1>2, AllTurns
  <1>4. b.text \in Seq(A) /\ Full(b)
    BY DEF Z, States
  <1>5. s # <<>> => Len(s) > 0
    BY EmptySeq
  <1>6. Len(b.text) > 0 => b.text # <<>>
    BY EmptySeq
  <1> QED BY <1>3, <1>4, <1>5, <1>6

\* The pairs handed back take a text with tokens back to the text it stands
\* for: no token of the book has two values, and there is no o in what the
\* text stands for (anonymizer.py:279-283).
THEOREM TakenBack ==
  ASSUME NEW A, NEW o, NEW c, NEW P, Book(A, o, c, P), IsFiniteSet(P),
         \A p \in P : Without(o, p[2]), \A p, q \in P : p[1] = q[1] => p = q,
         NEW u, NEW x, Reads(A, o, P, u, x), Without(o, x)
  PROVE  Deanonymize(u, P) = x
  <1>1. PICK back : back = [t \in {p[1] : p \in P} |-> (CHOOSE p \in P : p[1] = t)[2]]
    OBVIOUS
  <1>2. DOMAIN back = {p[1] : p \in P}
    BY <1>1
  <1>3. ASSUME NEW p \in P PROVE p[1] \in DOMAIN back /\ back[p[1]] = p[2]
    <2>1. p[1] \in {q[1] : q \in P}
      OBVIOUS
    <2>2. (CHOOSE q \in P : q[1] = p[1]) = p
      OBVIOUS
    <2>3. back[p[1]] = (CHOOSE q \in P : q[1] = p[1])[2]
      BY <1>1, <2>1
    <2> QED BY <1>2, <2>1, <2>2, <2>3
  <1>4. Tokens(A, o, c, back)
    BY <1>2, <1>3 DEF Tokens, Words, Book
  <1>5. IsFiniteSet(DOMAIN back)
    <2>1. PICK f : f = [p \in P |-> p[1]]
      OBVIOUS
    <2>2. f \in Surjection(P, DOMAIN back)
      BY <1>2, <2>1 DEF Surjection
    <2> QED BY <2>2, FS_Surjection
  <1>6. Substitute(u, back) = x
    BY <1>3, <1>4, ReadsBack
  <1>7. ReplaceInTurn(u, back) = x
    <2>1. Without(o, Substitute(u, back)) /\ u \in Seq(A)
      BY <1>6 DEF Reads
    <2> QED BY <1>4, <1>5, <1>6, <2>1, BackInTurn
  <1>8. Deanonymize(u, P) = ReplaceInTurn(u, back)
    BY <1>1 DEF Deanonymize
  <1> QED BY <1>7, <1>8

---------------------------------------------------------------------------
(* The event bus. *)
Above(q, k) == \A i \in 1..Len(q) : q[i] > k
Before(p, q) == \A i \in 1..Len(p) : \A j \in 1..Len(q) : p[i] < q[j]
Holds(q, e) == \E i \in 1..Len(q) : q[i] = e

Typed(n, st, r, q, k, d) ==
    /\ st \in Stages
    /\ r \in Seq(1..n)
    /\ q \in Seq(1..n) /\ Len(q) <= MaxQueue
    /\ k \in 0..n
    /\ d \in SUBSET (1..n)

Sorted(r, q, k) ==
    /\ Increasing(r) /\ Above(r, k)
    /\ Increasing(q) /\ Above(q, k)
    /\ Before(r, q)

Resting(st, r, q) ==
    /\ st = "live" => Len(r) = 0
    /\ st = "away" => Len(r) = 0 /\ Len(q) = 0

Covered(n, r, q, k, d) ==
    \A e \in (k + 1)..n : e \in d \/ Holds(r, e) \/ Holds(q, e)

Sound(n, st, r, q, k, d) ==
    /\ Typed(n, st, r, q, k, d)
    /\ Sorted(r, q, k)
    /\ Resting(st, r, q)
    /\ st \in Registered => Covered(n, r, q, k, d)

\* The buffer holds the last events, without a hole.
LastOnes(n, b) ==
    /\ b \in Seq(1..n) /\ Len(b) <= n /\ Len(b) <= MaxBuffer
    /\ \A i \in 1..Len(b) : b[i] = n - Len(b) + i

SoundAt(s) ==
    Sound(emitted, stage[s], replay[s], queue[s], seen[s], dropped[s])

Functions ==
    /\ stage = [s \in Subscribers |-> stage[s]]
    /\ replay = [s \in Subscribers |-> replay[s]]
    /\ queue = [s \in Subscribers |-> queue[s]]
    /\ seen = [s \in Subscribers |-> seen[s]]
    /\ dropped = [s \in Subscribers |-> dropped[s]]

BusInv ==
    /\ emitted \in Nat
    /\ sessions \in 0..MaxSessions
    /\ LastOnes(emitted, buffer)
    /\ Functions
    /\ \A s \in Subscribers : SoundAt(s)

---------------------------------------------------------------------------
\* What Append, Head and Tail do to a sequence of numbers.
LEMMA TailFacts ==
    ASSUME NEW n \in Nat, NEW q \in Seq(1..n), q # <<>>
    PROVE  /\ Tail(q) \in Seq(1..n) /\ Head(q) \in 1..n
           /\ Len(q) \in Nat \ {0}
           /\ Len(Tail(q)) = Len(q) - 1
           /\ Head(q) = q[1]
           /\ \A i \in 1..(Len(q) - 1) : Tail(q)[i] = q[i + 1]
           /\ \A i \in 1..Len(q) : q[i] \in 1..n
  OBVIOUS

LEMMA Wider ==
    ASSUME NEW n \in Nat, NEW q \in Seq(1..n)
    PROVE  q \in Seq(1..(n + 1))
  <1>1. 1..n \subseteq 1..(n + 1)
    OBVIOUS
  <1> QED BY <1>1

LEMMA AppendFacts ==
    ASSUME NEW n \in Nat, NEW q \in Seq(1..n)
    PROVE  /\ Append(q, n + 1) \in Seq(1..(n + 1))
           /\ Len(q) \in Nat
           /\ Len(Append(q, n + 1)) = Len(q) + 1
           /\ \A i \in 1..Len(q) : Append(q, n + 1)[i] = q[i] /\ q[i] \in 1..n
           /\ Append(q, n + 1)[Len(q) + 1] = n + 1
  <1>1. q \in Seq(1..(n + 1))
    BY Wider
  <1> QED BY <1>1

LEMMA EmptyFacts == /\ \A n \in Nat : <<>> \in Seq(1..n)
                    /\ Len(<<>>) = 0
  OBVIOUS

\* The rest of an increasing sequence is increasing and above its head.
LEMMA TailSorted ==
    ASSUME NEW n \in Nat, NEW q \in Seq(1..n), q # <<>>, Increasing(q)
    PROVE  Increasing(Tail(q)) /\ Above(Tail(q), Head(q))
  <1> DEFINE p == Tail(q)
             h == Head(q)
  <1>1. /\ Len(q) \in Nat \ {0} /\ Len(p) = Len(q) - 1 /\ h = q[1]
        /\ \A i \in 1..(Len(q) - 1) : p[i] = q[i + 1]
        /\ \A i \in 1..Len(q) : q[i] \in 1..n
    BY TailFacts
  <1> HIDE DEF p, h
  <1>2. Increasing(p)
    <2> SUFFICES ASSUME NEW i \in 1..Len(p), NEW j \in 1..(i - 1)
                 PROVE  p[j] < p[i]
      BY DEF Increasing
    <2>0. i \in 1..(Len(q) - 1) /\ j \in 1..(Len(q) - 1)
      BY <1>1
    <2>1. /\ p[j] = q[j + 1] /\ p[i] = q[i + 1]
          /\ i + 1 \in 1..Len(q) /\ j + 1 \in 1..((i + 1) - 1)
      BY <1>1, <2>0
    <2>2. \A k \in 1..Len(q) : \A c \in 1..(k - 1) : q[c] < q[k]
      BY DEF Increasing
    <2>3. \A c \in 1..((i + 1) - 1) : q[c] < q[i + 1]
      BY <2>1, <2>2
    <2>4. q[j + 1] < q[i + 1]
      BY <2>1, <2>3
    <2> QED BY <2>1, <2>4
  <1>3. Above(p, h)
    <2> SUFFICES ASSUME NEW i \in 1..Len(p) PROVE p[i] > h
      BY DEF Above
    <2>1. /\ p[i] = q[i + 1] /\ i + 1 \in 1..Len(q) /\ 1 \in 1..((i + 1) - 1)
          /\ q[1] \in 1..n /\ q[i + 1] \in 1..n
      BY <1>1
    <2>2. q[1] < q[i + 1]
      BY <2>1 DEF Increasing
    <2> QED BY <1>1, <2>1, <2>2
  <1> QED BY <1>2, <1>3 DEF p, h

---------------------------------------------------------------------------
\* A registered subscriber receives event n + 1.
LEMMA SoundAppend ==
    ASSUME NEW n \in Nat, NEW st, NEW r, NEW q, NEW k, NEW d,
           Sound(n, st, r, q, k, d), st \in Registered, Len(q) < MaxQueue
    PROVE  Sound(n + 1, st, r, Append(q, n + 1), k, d)
  <1> DEFINE p == Append(q, n + 1)
  <1>t. /\ r \in Seq(1..n) /\ q \in Seq(1..n) /\ k \in 0..n
        /\ d \in SUBSET (1..n) /\ st \in Stages /\ MaxQueue \in Nat
    BY BusAssumption DEF Sound, Typed
  <1>1. /\ p \in Seq(1..(n + 1)) /\ Len(q) \in Nat /\ Len(p) = Len(q) + 1
        /\ \A i \in 1..Len(q) : p[i] = q[i] /\ q[i] \in 1..n
        /\ p[Len(q) + 1] = n + 1
    BY <1>t, AppendFacts
  <1>2. /\ r \in Seq(1..(n + 1)) /\ Len(r) \in Nat
        /\ \A i \in 1..Len(r) : r[i] \in 1..n
    BY <1>t, Wider
  <1> HIDE DEF p
  <1>3. Typed(n + 1, st, r, p, k, d)
    BY <1>t, <1>1, <1>2 DEF Typed
  <1>4. Sorted(r, p, k)
    <2>0. /\ Increasing(q) /\ Above(q, k) /\ Before(r, q)
          /\ Increasing(r) /\ Above(r, k)
      BY DEF Sound, Sorted
    <2>1. Increasing(p)
      <3> SUFFICES ASSUME NEW i \in 1..Len(p), NEW j \in 1..(i - 1)
                   PROVE  p[j] < p[i]
        BY DEF Increasing
      <3>1. j \in 1..Len(q) /\ p[j] = q[j] /\ q[j] \in 1..n
        BY <1>1
      <3>2. CASE i = Len(q) + 1
        BY <1>1, <3>1, <3>2
      <3>3. CASE i # Len(q) + 1
        <4>0. i \in 1..Len(q)
          BY <1>1, <3>3
        <4>1. p[i] = q[i]
          BY <1>1, <4>0
        <4> QED BY <2>0, <3>1, <4>0, <4>1 DEF Increasing
      <3> QED BY <3>2, <3>3
    <2>2. Above(p, k)
      <3> SUFFICES ASSUME NEW i \in 1..Len(p) PROVE p[i] > k
        BY DEF Above
      <3>1. CASE i = Len(q) + 1
        BY <1>t, <1>1, <3>1
      <3>2. CASE i # Len(q) + 1
        <4>1. i \in 1..Len(q) /\ p[i] = q[i]
          BY <1>1, <3>2
        <4> QED BY <2>0, <4>1 DEF Above
      <3> QED BY <3>1, <3>2
    <2>3. Before(r, p)
      <3> SUFFICES ASSUME NEW i \in 1..Len(r), NEW j \in 1..Len(p)
                   PROVE  r[i] < p[j]
        BY DEF Before
      <3>1. CASE j = Len(q) + 1
        BY <1>1, <1>2, <3>1
      <3>2. CASE j # Len(q) + 1
        <4>1. j \in 1..Len(q) /\ p[j] = q[j]
          BY <1>1, <3>2
        <4> QED BY <2>0, <4>1 DEF Before
      <3> QED BY <3>1, <3>2
    <2> QED BY <2>0, <2>1, <2>2, <2>3 DEF Sorted
  <1>5. Resting(st, r, p)
    BY DEF Sound, Resting, Registered
  <1>6. Covered(n + 1, r, p, k, d)
    <2> SUFFICES ASSUME NEW e \in (k + 1)..(n + 1)
                 PROVE  e \in d \/ Holds(r, e) \/ Holds(p, e)
      BY DEF Covered
    <2>1. CASE e = n + 1
      BY <2>1, <1>1 DEF Holds
    <2>2. CASE e # n + 1
      <3>1. e \in (k + 1)..n
        BY <2>2, <1>t
      <3>2. e \in d \/ Holds(r, e) \/ Holds(q, e)
        BY <3>1 DEF Sound, Covered
      <3>3. Holds(q, e) => Holds(p, e)
        BY <1>1 DEF Holds
      <3> QED BY <3>2, <3>3
    <2> QED BY <2>1, <2>2
  <1> QED BY <1>3, <1>4, <1>5, <1>6 DEF Sound, p

\* A registered subscriber with a full queue loses event n + 1.
LEMMA SoundDrop ==
    ASSUME NEW n \in Nat, NEW st, NEW r, NEW q, NEW k, NEW d,
           Sound(n, st, r, q, k, d)
    PROVE  Sound(n + 1, st, r, q, k, d \cup {n + 1})
  <1>t. /\ r \in Seq(1..(n + 1)) /\ q \in Seq(1..(n + 1)) /\ k \in 0..n
        /\ d \in SUBSET (1..n) /\ st \in Stages /\ Len(q) <= MaxQueue
    BY Wider DEF Sound, Typed
  <1>1. Typed(n + 1, st, r, q, k, d \cup {n + 1})
    BY <1>t DEF Typed
  <1>2. st \in Registered => Covered(n + 1, r, q, k, d \cup {n + 1})
    <2> SUFFICES ASSUME st \in Registered, NEW e \in (k + 1)..(n + 1)
                 PROVE  e \in d \cup {n + 1} \/ Holds(r, e) \/ Holds(q, e)
      BY DEF Covered
    <2>1. e = n + 1 \/ e \in (k + 1)..n
      BY <1>t
    <2> QED BY <2>1 DEF Sound, Covered
  <1> QED BY <1>1, <1>2 DEF Sound

\* Someone who is away is not concerned.
LEMMA SoundAway ==
    ASSUME NEW n \in Nat, NEW st, NEW r, NEW q, NEW k, NEW d,
           Sound(n, st, r, q, k, d), st \notin Registered
    PROVE  Sound(n + 1, st, r, q, k, d)
  <1>t. /\ r \in Seq(1..(n + 1)) /\ q \in Seq(1..(n + 1)) /\ k \in 0..n
        /\ d \in SUBSET (1..n) /\ st \in Stages /\ Len(q) <= MaxQueue
    BY Wider DEF Sound, Typed
  <1>1. Typed(n + 1, st, r, q, k, d)
    BY <1>t DEF Typed
  <1> QED BY <1>1 DEF Sound

\* A new subscriber starts from a copy of the buffer.
LEMMA SoundCopy ==
    ASSUME NEW n \in Nat, NEW b, LastOnes(n, b), NEW q, NEW d \in SUBSET (1..n),
           q \in Seq(1..n), Len(q) = 0
    PROVE  Sound(n, "replaying", b, q, n - Len(b), d)
  <1>1. /\ b \in Seq(1..n) /\ Len(b) \in Nat /\ Len(b) <= n
        /\ \A i \in 1..Len(b) : b[i] = n - Len(b) + i
    BY DEF LastOnes
  <1>2. Typed(n, "replaying", b, q, n - Len(b), d)
    BY <1>1, BusAssumption DEF Typed, Stages, Registered
  <1>3. Sorted(b, q, n - Len(b))
    <2>1. Increasing(b)
      <3> SUFFICES ASSUME NEW i \in 1..Len(b), NEW j \in 1..(i - 1)
                   PROVE  b[j] < b[i]
        BY DEF Increasing
      <3>1. j \in 1..Len(b)
        BY <1>1
      <3> QED BY <1>1, <3>1
    <2>2. Above(b, n - Len(b))
      BY <1>1 DEF Above
    <2>3. Increasing(q) /\ Above(q, n - Len(b)) /\ Before(b, q)
      BY DEF Increasing, Above, Before
    <2> QED BY <2>1, <2>2, <2>3 DEF Sorted
  <1>4. Resting("replaying", b, q)
    BY DEF Resting
  <1>5. Covered(n, b, q, n - Len(b), d)
    <2> SUFFICES ASSUME NEW e \in (n - Len(b) + 1)..n PROVE Holds(b, e)
      BY DEF Covered
    <2>1. e - (n - Len(b)) \in 1..Len(b)
      BY <1>1
    <2>2. b[e - (n - Len(b))] = e
      BY <1>1, <2>1
    <2> QED BY <2>1, <2>2 DEF Holds
  <1> QED BY <1>2, <1>3, <1>4, <1>5 DEF Sound

\* The next event of the replay is sent.
LEMMA SoundReplay ==
    ASSUME NEW n \in Nat, NEW st, NEW r, NEW q, NEW k, NEW d,
           Sound(n, st, r, q, k, d), st = "replaying", r # <<>>
    PROVE  Sound(n, st, Tail(r), q, Head(r), d)
  <1> DEFINE p == Tail(r)
             h == Head(r)
  <1>t. /\ r \in Seq(1..n) /\ q \in Seq(1..n) /\ k \in 0..n
        /\ \A i \in 1..Len(q) : q[i] \in 1..n
    BY DEF Sound, Typed
  <1>1. /\ p \in Seq(1..n) /\ h \in 1..n /\ Len(r) \in Nat \ {0}
        /\ Len(p) = Len(r) - 1 /\ h = r[1]
        /\ \A i \in 1..(Len(r) - 1) : p[i] = r[i + 1]
        /\ \A i \in 1..Len(r) : r[i] \in 1..n
    BY <1>t, TailFacts
  <1> HIDE DEF p, h
  <1>2. Typed(n, st, p, q, h, d)
    BY <1>1 DEF Sound, Typed
  <1>3. Sorted(p, q, h)
    <2>1. Increasing(p) /\ Above(p, h)
      BY <1>t, TailSorted DEF Sound, Sorted, p, h
    <2>0. Before(r, q)
      BY DEF Sound, Sorted
    <2>2. Above(q, h)
      <3> SUFFICES ASSUME NEW j \in 1..Len(q) PROVE q[j] > h
        BY DEF Above
      <3>1. r[1] < q[j] /\ q[j] \in 1..n
        BY <1>t, <1>1, <2>0 DEF Before
      <3> QED BY <1>1, <3>1
    <2>3. Before(p, q)
      <3> SUFFICES ASSUME NEW i \in 1..Len(p), NEW j \in 1..Len(q)
                   PROVE  p[i] < q[j]
        BY DEF Before
      <3>1. i + 1 \in 1..Len(r) /\ p[i] = r[i + 1]
        BY <1>1
      <3> QED BY <2>0, <3>1 DEF Before
    <2> QED BY <2>1, <2>2, <2>3 DEF Sound, Sorted
  <1>4. Resting(st, p, q)
    BY DEF Resting
  <1>5. Covered(n, p, q, h, d)
    <2> SUFFICES ASSUME NEW e \in (h + 1)..n
                 PROVE  e \in d \/ Holds(p, e) \/ Holds(q, e)
      BY DEF Covered
    <2>1. h > k
      BY <1>1 DEF Sound, Sorted, Above
    <2>2. e \in d \/ Holds(r, e) \/ Holds(q, e)
      BY <1>t, <1>1, <2>1 DEF Sound, Covered, Registered
    <2>3. ASSUME NEW i \in 1..Len(r), r[i] = e PROVE Holds(p, e)
      <3>1. i # 1 /\ i - 1 \in 1..Len(p) /\ p[i - 1] = e
        BY <1>1, <2>3
      <3> QED BY <3>1 DEF Holds
    <2> QED BY <2>2, <2>3 DEF Holds
  <1> QED BY <1>2, <1>3, <1>4, <1>5 DEF Sound, p, h

\* The next event of the queue is sent, the replay being over.
LEMMA SoundLive ==
    ASSUME NEW n \in Nat, NEW st, NEW r, NEW q, NEW k, NEW d,
           Sound(n, st, r, q, k, d), st = "live", q # <<>>
    PROVE  Sound(n, st, r, Tail(q), Head(q), d)
  <1> DEFINE p == Tail(q)
             h == Head(q)
  <1>t. /\ r \in Seq(1..n) /\ q \in Seq(1..n) /\ k \in 0..n /\ Len(r) = 0
        /\ Len(q) <= MaxQueue /\ MaxQueue \in Nat
    BY BusAssumption DEF Sound, Typed, Resting
  <1>1. /\ p \in Seq(1..n) /\ h \in 1..n /\ Len(q) \in Nat \ {0}
        /\ Len(p) = Len(q) - 1 /\ h = q[1]
        /\ \A i \in 1..(Len(q) - 1) : p[i] = q[i + 1]
        /\ \A i \in 1..Len(q) : q[i] \in 1..n
    BY <1>t, TailFacts
  <1> HIDE DEF p, h
  <1>2. Typed(n, st, r, p, h, d)
    BY <1>t, <1>1 DEF Sound, Typed
  <1>3. Sorted(r, p, h)
    <2>1. Increasing(p) /\ Above(p, h)
      BY <1>t, TailSorted DEF Sound, Sorted, p, h
    <2>2. Increasing(r) /\ Above(r, h) /\ Before(r, p)
      BY <1>t DEF Increasing, Above, Before
    <2> QED BY <2>1, <2>2 DEF Sorted
  <1>4. Resting(st, r, p)
    BY <1>t DEF Resting
  <1>5. Covered(n, r, p, h, d)
    <2> SUFFICES ASSUME NEW e \in (h + 1)..n
                 PROVE  e \in d \/ Holds(r, e) \/ Holds(p, e)
      BY DEF Covered
    <2>1. h > k
      BY <1>1 DEF Sound, Sorted, Above
    <2>2. e \in d \/ Holds(r, e) \/ Holds(q, e)
      BY <1>t, <1>1, <2>1 DEF Sound, Covered, Registered
    <2>3. ASSUME NEW i \in 1..Len(q), q[i] = e PROVE Holds(p, e)
      <3>1. i # 1 /\ i - 1 \in 1..Len(p) /\ p[i - 1] = e
        BY <1>1, <2>3
      <3> QED BY <3>1 DEF Holds
    <2> QED BY <2>2, <2>3 DEF Holds
  <1> QED BY <1>2, <1>3, <1>4, <1>5 DEF Sound, p, h

\* The client left and its generator is closed.
LEMMA SoundGone ==
    ASSUME NEW n \in Nat
    PROVE  Sound(n, "away", <<>>, <<>>, 0, {})
  <1> DEFINE e == <<>>
  <1>1. e \in Seq(1..n) /\ Len(e) = 0
    BY EmptyFacts, Zenon
  <1> HIDE DEF e
  <1>2. Sound(n, "away", e, e, 0, {})
    BY <1>1, BusAssumption DEF Sound, Typed, Sorted, Resting, Registered,
       Stages, Increasing, Above, Before
  <1> QED BY <1>2 DEF e

\* The ring after an emit.
LEMMA RingPushed ==
    ASSUME NEW n \in Nat, NEW b, LastOnes(n, b)
    PROVE  LastOnes(n + 1, Pushed(b, n + 1))
  <1> DEFINE p == Append(b, n + 1)
             t == Tail(p)
  <1>m. MaxBuffer \in Nat /\ b \in Seq(1..n) /\ n + 1 \in Nat
    BY BusAssumption DEF LastOnes
  <1>1. /\ p \in Seq(1..(n + 1)) /\ Len(b) \in Nat /\ Len(p) = Len(b) + 1
        /\ \A i \in 1..Len(b) : p[i] = b[i]
        /\ p[Len(b) + 1] = n + 1
    BY <1>m, AppendFacts
  <1>0. \A i \in 1..Len(b) : b[i] = n - Len(b) + i
    BY DEF LastOnes
  <1>2. ASSUME NEW i \in 1..Len(p) PROVE p[i] = n - Len(b) + i
    <2> HIDE DEF p
    <2>1. CASE i = Len(b) + 1
      BY <1>1, <2>1
    <2>2. CASE i # Len(b) + 1
      <3>1. i \in 1..Len(b)
        BY <1>1, <2>2
      <3> QED BY <1>0, <1>1, <3>1
    <2> QED BY <2>1, <2>2
  <1>3. p # <<>>
    <2> SUFFICES ASSUME p = <<>> PROVE FALSE
      OBVIOUS
    <2>1. Len(p) = 0
      BY EmptyFacts, Zenon
    <2> HIDE DEF p
    <2> QED BY <1>1, <2>1
  <1>4. /\ t \in Seq(1..(n + 1)) /\ Len(t) = Len(b)
        /\ \A i \in 1..Len(b) : t[i] = p[i + 1]
    <2> HIDE DEF p
    <2> QED BY <1>m, <1>1, <1>3, TailFacts
  <1>5. Pushed(b, n + 1) = IF Len(p) > MaxBuffer THEN t ELSE p
    BY DEF Pushed
  <1> HIDE DEF p, t
  <1>6. CASE Len(p) > MaxBuffer
    <2>1. ASSUME NEW i \in 1..Len(t) PROVE t[i] = (n + 1) - Len(t) + i
      <3>1. i + 1 \in 1..Len(p) /\ t[i] = p[i + 1]
        BY <1>1, <1>4
      <3>2. p[i + 1] = n - Len(b) + (i + 1)
        BY <1>2, <3>1
      <3> QED BY <1>1, <1>4, <3>1, <3>2
    <2>2. Len(b) <= n /\ Len(b) <= MaxBuffer
      BY DEF LastOnes
    <2>3. LastOnes(n + 1, t)
      BY <1>m, <1>1, <1>4, <2>1, <2>2 DEF LastOnes
    <2> QED BY <1>5, <1>6, <2>3
  <1>7. CASE ~(Len(p) > MaxBuffer)
    <2>1. ASSUME NEW i \in 1..Len(p) PROVE p[i] = (n + 1) - Len(p) + i
      BY <1>1, <1>2
    <2>2. Len(b) <= n
      BY DEF LastOnes
    <2>3. LastOnes(n + 1, p)
      BY <1>m, <1>1, <1>7, <2>1, <2>2 DEF LastOnes
    <2> QED BY <1>5, <1>7, <2>3
  <1> QED BY <1>6, <1>7

---------------------------------------------------------------------------
THEOREM BusInitOK == BusInit => BusInv
  <1> SUFFICES ASSUME BusInit PROVE BusInv
    OBVIOUS
  <1>0. 0 \in Nat /\ Sound(0, "away", <<>>, <<>>, 0, {})
    BY SoundGone
  <1>1. ASSUME NEW s \in Subscribers PROVE SoundAt(s)
    <2>1. /\ emitted = 0 /\ stage[s] = "away" /\ replay[s] = <<>>
          /\ queue[s] = <<>> /\ seen[s] = 0 /\ dropped[s] = {}
      BY Zenon DEF BusInit
    <2> QED BY <1>0, <2>1, Zenon DEF SoundAt
  <1>2. Functions
    BY Zenon DEF BusInit, Functions
  <1>3. buffer \in Seq(1..0) /\ Len(buffer) = 0
    BY EmptyFacts, Zenon DEF BusInit
  <1>4. LastOnes(emitted, buffer)
    BY <1>3, BusAssumption DEF BusInit, LastOnes
  <1> QED BY <1>1, <1>2, <1>4, BusAssumption DEF BusInit, BusInv

\* emit: each subscriber receives the event, loses it or is away.
LEMMA EmitKeeps ==
    ASSUME BusInv, Emit
    PROVE  BusInv'
  <1>1. emitted \in Nat /\ emitted' = emitted + 1 /\ emitted' \in Nat
    BY DEF BusInv, Emit
  <1>2. ASSUME NEW s \in Subscribers PROVE SoundAt(s)'
    <2>1. /\ SoundAt(s) /\ stage'[s] = stage[s] /\ replay'[s] = replay[s]
          /\ seen'[s] = seen[s]
      BY DEF BusInv, Emit
    <2>2. CASE stage[s] \in Registered /\ HasRoom(s)
      <3>1. queue'[s] = Append(queue[s], emitted + 1) /\ dropped'[s] = dropped[s]
        BY <1>1, <2>2 DEF Emit
      <3>2. Sound(emitted + 1, stage[s], replay[s], Append(queue[s], emitted + 1),
                  seen[s], dropped[s])
        BY <1>1, <2>1, <2>2, SoundAppend DEF SoundAt, HasRoom
      <3> QED BY <1>1, <2>1, <3>1, <3>2 DEF SoundAt
    <2>3. CASE stage[s] \in Registered /\ ~HasRoom(s)
      <3>1. queue'[s] = queue[s] /\ dropped'[s] = dropped[s] \cup {emitted + 1}
        BY <1>1, <2>3 DEF Emit
      <3>2. Sound(emitted + 1, stage[s], replay[s], queue[s],
                  seen[s], dropped[s] \cup {emitted + 1})
        BY <1>1, <2>1, SoundDrop DEF SoundAt
      <3> QED BY <1>1, <2>1, <3>1, <3>2 DEF SoundAt
    <2>4. CASE stage[s] \notin Registered
      <3>1. queue'[s] = queue[s] /\ dropped'[s] = dropped[s]
        BY <2>4 DEF Emit
      <3>2. Sound(emitted + 1, stage[s], replay[s], queue[s], seen[s], dropped[s])
        BY <1>1, <2>1, <2>4, SoundAway DEF SoundAt
      <3> QED BY <1>1, <2>1, <3>1, <3>2 DEF SoundAt
    <2> QED BY <2>2, <2>3, <2>4
  <1>3. Functions'
    BY DEF BusInv, Functions, Emit
  <1>4. LastOnes(emitted, buffer)'
    <2>1. LastOnes(emitted + 1, Pushed(buffer, emitted + 1))
      BY <1>1, RingPushed DEF BusInv
    <2> QED BY <1>1, <2>1 DEF Emit
  <1> QED BY <1>1, <1>2, <1>3, <1>4 DEF BusInv, Emit

\* A step of one subscriber: it is sound afterwards, the others are as they
\* were.
LEMMA OneChanges ==
    ASSUME BusInv, NEW s \in Subscribers,
           emitted' = emitted, buffer' = buffer,
           sessions' \in 0..MaxSessions,
           Functions',
           \A r \in Subscribers \ {s} :
               /\ stage'[r] = stage[r] /\ replay'[r] = replay[r]
               /\ queue'[r] = queue[r] /\ seen'[r] = seen[r]
               /\ dropped'[r] = dropped[r],
           SoundAt(s)'
    PROVE  BusInv'
  <1>1. ASSUME NEW r \in Subscribers PROVE SoundAt(r)'
    <2>1. CASE r = s
      BY <2>1
    <2>2. CASE r # s
      BY <2>2 DEF BusInv, SoundAt
    <2> QED BY <2>1, <2>2
  <1> QED BY <1>1 DEF BusInv

LEMMA StepKeeps ==
    ASSUME BusInv, NEW s \in Subscribers, BusStep(s)
    PROVE  BusInv'
  <1>0. /\ emitted \in Nat /\ SoundAt(s) /\ LastOnes(emitted, buffer)
        /\ Functions /\ sessions \in 0..MaxSessions /\ MaxSessions \in Nat
    BY BusAssumption DEF BusInv
  <1>1. CASE Subscribe(s)
    <2>1. stage[s] = "away" /\ Len(queue[s]) = 0
          /\ queue[s] \in Seq(1..emitted) /\ dropped[s] \in SUBSET (1..emitted)
      BY <1>0, <1>1 DEF Subscribe, SoundAt, Sound, Typed, Resting
    <2>2. Sound(emitted, "replaying", buffer, queue[s], emitted - Len(buffer),
                dropped[s])
      BY <1>0, <2>1, SoundCopy
    <2>3. SoundAt(s)'
      BY <1>0, <1>1, <2>2 DEF Subscribe, SoundAt, Functions
    <2>4. sessions' \in 0..MaxSessions
      BY <1>0, <1>1 DEF Subscribe
    <2> QED BY <1>0, <1>1, <2>3, <2>4, OneChanges DEF Subscribe, Functions
  <1>2. CASE Replay(s)
    <2>1. Sound(emitted, stage[s], Tail(replay[s]), queue[s], Head(replay[s]),
                dropped[s])
      BY <1>0, <1>2, SoundReplay DEF Replay, SoundAt
    <2>2. SoundAt(s)'
      BY <1>0, <1>2, <2>1 DEF Replay, SoundAt, Functions
    <2> QED BY <1>0, <1>2, <2>2, OneChanges DEF Replay, Functions
  <1>3. CASE GoLive(s)
    <2>1. Len(replay[s]) = 0
      BY <1>3, EmptyFacts, Zenon DEF GoLive
    <2>2. Sound(emitted, "live", replay[s], queue[s], seen[s], dropped[s])
      BY <1>0, <1>3, <2>1
         DEF GoLive, SoundAt, Sound, Typed, Resting, Stages, Registered
    <2>3. SoundAt(s)'
      BY <1>0, <1>3, <2>2 DEF GoLive, SoundAt, Functions
    <2> QED BY <1>0, <1>3, <2>3, OneChanges DEF GoLive, Functions
  <1>4. CASE Live(s)
    <2>1. Sound(emitted, stage[s], replay[s], Tail(queue[s]), Head(queue[s]),
                dropped[s])
      BY <1>0, <1>4, SoundLive DEF Live, SoundAt
    <2>2. SoundAt(s)'
      BY <1>0, <1>4, <2>1 DEF Live, SoundAt, Functions
    <2> QED BY <1>0, <1>4, <2>2, OneChanges DEF Live, Functions
  <1>5. CASE Disconnect(s)
    <2>1. stage[s] \in Registered
      BY <1>5 DEF Disconnect, Registered
    <2>2. Sound(emitted, "closing", replay[s], queue[s], seen[s], dropped[s])
      BY <1>0, <2>1 DEF SoundAt, Sound, Typed, Resting, Stages, Registered
    <2>3. SoundAt(s)'
      BY <1>0, <1>5, <2>2 DEF Disconnect, SoundAt, Functions
    <2> QED BY <1>0, <1>5, <2>3, OneChanges DEF Disconnect, Functions
  <1>6. CASE Unregister(s)
    <2>1. Sound(emitted, "away", <<>>, <<>>, 0, {})
      BY <1>0, SoundGone
    <2>2. /\ stage'[s] = "away" /\ replay'[s] = <<>> /\ queue'[s] = <<>>
          /\ seen'[s] = 0 /\ dropped'[s] = {} /\ emitted' = emitted
      BY <1>0, <1>6, Zenon DEF Unregister, Functions
    <2>3. SoundAt(s)'
      BY <2>1, <2>2, Zenon DEF SoundAt
    <2> QED BY <1>0, <1>6, <2>3, OneChanges DEF Unregister, Functions
  <1> QED BY <1>1, <1>2, <1>3, <1>4, <1>5, <1>6 DEF BusStep, Delivery

\* What the bus does not do leaves it as it is.
LEMMA BusUnchanged ==
    ASSUME BusInv, UNCHANGED busVars
    PROVE  BusInv'
  BY DEF BusInv, busVars, streams, Functions, SoundAt

\* The conjunction BusInv is an invariant of the bus.
THEOREM BusInvariance == BusSpec => []BusInv
  <1>1. BusInv /\ [BusNext]_busVars => BusInv'
    BY EmitKeeps, StepKeeps, BusUnchanged DEF BusNext
  <1> QED BY BusInitOK, <1>1, PTL DEF BusSpec

---------------------------------------------------------------------------
\* Types, and the limits of the ring and the queues: BusTypeOK.
THEOREM BusTypeCorrect == BusSpec => []BusTypeOK
  <1>1. BusInv => BusTypeOK
    <2> SUFFICES ASSUME BusInv PROVE BusTypeOK
      OBVIOUS
    <2>1. \A s \in Subscribers :
             Typed(emitted, stage[s], replay[s], queue[s], seen[s], dropped[s])
      BY DEF BusInv, SoundAt, Sound
    <2>2. Functions
      BY DEF BusInv
    <2>3. /\ stage \in [Subscribers -> Stages]
          /\ replay \in [Subscribers -> Seq(1..emitted)]
          /\ queue \in [Subscribers -> Seq(1..emitted)]
          /\ seen \in [Subscribers -> 0..emitted]
          /\ dropped \in [Subscribers -> SUBSET (1..emitted)]
      BY <2>1, <2>2 DEF Functions, Typed
    <2> QED BY <2>1, <2>3 DEF BusInv, BusTypeOK, LastOnes, Typed
  <1> QED BY <1>1, BusInvariance, PTL

\* The elements of a concatenation.
LEMMA ConcatFacts ==
    ASSUME NEW n \in Nat, NEW p \in Seq(1..n), NEW q \in Seq(1..n)
    PROVE  /\ Len(p) \in Nat /\ Len(q) \in Nat
           /\ Len(p \o q) = Len(p) + Len(q)
           /\ \A i \in 1..Len(p) : (p \o q)[i] = p[i]
           /\ \A i \in (Len(p) + 1)..(Len(p) + Len(q)) :
                  (p \o q)[i] = q[i - Len(p)]
  OBVIOUS

\* Events reach a subscriber in order and none twice: InOrder.
THEOREM DeliveredInOrder == BusSpec => []InOrder
  <1>1. BusInv => InOrder
    <2> SUFFICES ASSUME BusInv, NEW s \in Subscribers
                 PROVE  /\ Increasing(Due(s))
                        /\ \A i \in 1..Len(Due(s)) : Due(s)[i] > seen[s]
      BY DEF InOrder
    <2> DEFINE n == emitted
               p == replay[s]
               q == queue[s]
               u == p \o q
    <2>0. /\ n \in Nat /\ p \in Seq(1..n) /\ q \in Seq(1..n)
          /\ Sorted(p, q, seen[s])
      BY DEF BusInv, SoundAt, Sound, Typed
    <2>1. /\ Len(p) \in Nat /\ Len(q) \in Nat /\ Len(u) = Len(p) + Len(q)
          /\ \A i \in 1..Len(p) : u[i] = p[i]
          /\ \A i \in (Len(p) + 1)..(Len(p) + Len(q)) : u[i] = q[i - Len(p)]
      BY <2>0, ConcatFacts
    <2>2. u = Due(s)
      BY DEF Due
    <2>s. /\ \A i \in 1..Len(p) : \A j \in 1..(i - 1) : p[j] < p[i]
          /\ \A i \in 1..Len(q) : \A j \in 1..(i - 1) : q[j] < q[i]
          /\ \A i \in 1..Len(p) : \A j \in 1..Len(q) : p[i] < q[j]
          /\ \A i \in 1..Len(p) : p[i] > seen[s]
          /\ \A i \in 1..Len(q) : q[i] > seen[s]
      BY <2>0 DEF Sorted, Increasing, Above, Before
    <2> HIDE DEF n, p, q, u
    <2>3. ASSUME NEW i \in 1..Len(u), NEW j \in 1..(i - 1)
          PROVE  u[j] < u[i]
      <3>1. CASE i <= Len(p)
        <4>1. i \in 1..Len(p) /\ j \in 1..Len(p) /\ u[i] = p[i] /\ u[j] = p[j]
          BY <2>1, <3>1
        <4> QED BY <2>s, <4>1
      <3>2. CASE i > Len(p) /\ j <= Len(p)
        <4>1. /\ i - Len(p) \in 1..Len(q) /\ j \in 1..Len(p)
              /\ u[i] = q[i - Len(p)] /\ u[j] = p[j]
          BY <2>1, <3>2
        <4> QED BY <2>s, <4>1
      <3>3. CASE j > Len(p)
        <4>1. /\ i - Len(p) \in 1..Len(q)
              /\ j - Len(p) \in 1..((i - Len(p)) - 1)
              /\ u[i] = q[i - Len(p)] /\ u[j] = q[j - Len(p)]
          BY <2>1, <3>3
        <4>2. \A c \in 1..((i - Len(p)) - 1) : q[c] < q[i - Len(p)]
          BY <2>s, <4>1
        <4>3. q[j - Len(p)] < q[i - Len(p)]
          BY <4>1, <4>2
        <4> QED BY <4>1, <4>3
      <3> QED BY <2>1, <3>1, <3>2, <3>3
    <2>4. ASSUME NEW i \in 1..Len(u) PROVE u[i] > seen[s]
      <3>1. CASE i <= Len(p)
        BY <2>1, <2>s, <3>1
      <3>2. CASE i > Len(p)
        <4>1. i - Len(p) \in 1..Len(q) /\ u[i] = q[i - Len(p)]
          BY <2>1, <3>2
        <4> QED BY <2>s, <4>1
      <3> QED BY <2>1, <3>1, <3>2
    <2> QED BY <2>2, <2>3, <2>4 DEF Increasing
  <1> QED BY <1>1, BusInvariance, PTL

\* No event falls between the replay and the live ones: NoSilentGap.
THEOREM NothingFallsBetween == BusSpec => []NoSilentGap
  <1>1. BusInv => NoSilentGap
    <2> SUFFICES ASSUME BusInv, NEW s \in Subscribers, stage[s] \in Registered,
                        NEW e \in (seen[s] + 1)..emitted, e \notin dropped[s]
                 PROVE  \E i \in 1..Len(Due(s)) : Due(s)[i] = e
      BY DEF NoSilentGap
    <2> DEFINE p == replay[s]
               q == queue[s]
               u == p \o q
    <2>0. /\ emitted \in Nat /\ p \in Seq(1..emitted) /\ q \in Seq(1..emitted)
          /\ Holds(p, e) \/ Holds(q, e)
      BY DEF BusInv, SoundAt, Sound, Typed, Covered
    <2>1. /\ Len(p) \in Nat /\ Len(q) \in Nat /\ Len(u) = Len(p) + Len(q)
          /\ \A i \in 1..Len(p) : u[i] = p[i]
          /\ \A i \in (Len(p) + 1)..(Len(p) + Len(q)) : u[i] = q[i - Len(p)]
      BY <2>0, ConcatFacts
    <2>2. u = Due(s)
      BY DEF Due
    <2> HIDE DEF p, q, u
    <2>3. CASE Holds(p, e)
      <3>1. PICK i \in 1..Len(p) : p[i] = e
        BY <2>3 DEF Holds
      <3>2. i \in 1..Len(u) /\ u[i] = e
        BY <2>1, <3>1
      <3> QED BY <2>2, <3>2
    <2>4. CASE Holds(q, e)
      <3>1. PICK i \in 1..Len(q) : q[i] = e
        BY <2>4 DEF Holds
      <3>2. /\ Len(p) + i \in (Len(p) + 1)..(Len(p) + Len(q))
            /\ (Len(p) + i) - Len(p) = i
        BY <2>1
      <3>3. Len(p) + i \in 1..Len(u) /\ u[Len(p) + i] = e
        BY <2>1, <3>1, <3>2
      <3> QED BY <2>2, <3>3
    <2> QED BY <2>0, <2>3, <2>4
  <1> QED BY <1>1, BusInvariance, PTL
===========================================================================
