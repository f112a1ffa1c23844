-------------------------- MODULE Anonymizer_proofs --------------------------
(***************************************************************************)
(* Theorems about Anonymizer, for all documents, words, stores, limits and *)
(* calls that AnonymizerAssumption allows.                                 *)
(*                                                                         *)
(* The properties are about answers, that is, calls that came to their     *)
(* end, while the store goes on growing and other calls go on.  So the     *)
(* invariant AnonInv says of every answer, in terms of the store and of    *)
(* the other answers, what was true when it ended and stays true: each     *)
(* value has the store's token for it, each nested document stands for an  *)
(* earlier answer, every request was met (Asked), and the text reads, with *)
(* the tokens of the mapping for their values, as the document (Reads).    *)
(* Of the calls under way it says that they nest (StackOK).                *)
(*                                                                         *)
(* The parts are in this order: texts, escapes (EscapeReads) and           *)
(* documents, what is found in a text, what a call asks for (RequestType)  *)
(* and that whatever is private is asked for (PrivateAsked), tokens and    *)
(* the store, answers (Answered), what their text stands for (TextReads),  *)
(* calls under way and their end (Ending), the steps, the properties.      *)
(***************************************************************************)
EXTENDS Anonymizer, AnonymizerParts_proofs

---------------------------------------------------------------------------
(* Sequences put together. *)
\* A partial result of FlattenSeq: the first n parts joined, one by one.
Joined(ss, n, g) == g = [i \in 1..n |-> IF i = 1 THEN ss[i] ELSE g[i - 1] \o ss[i]]

\* The parts one by one.
LEMMA JoinedAt ==
  ASSUME NEW ss, NEW n \in Nat, NEW g, Joined(ss, n, g)
  PROVE  \A i \in 1..n : g[i] = IF i = 1 THEN ss[i] ELSE g[i - 1] \o ss[i]
  BY DEF Joined

Agree(s, t, n) == \A i \in 1..n : s[i] = t[i]

\* Partial results of sequences that begin alike begin alike.
LEMMA JoinedSame ==
  ASSUME NEW ss, NEW tt, NEW n \in Nat, NEW m \in Nat, NEW g, NEW h, n <= m,
         Joined(ss, n, g), Joined(tt, m, h), Agree(ss, tt, n)
  PROVE  Agree(g, h, n)
  <1> DEFINE S == {i \in Nat : i \in 1..n => g[i] = h[i]}
  <1>1. 0 \in S
    OBVIOUS
  <1>2. ASSUME NEW i \in Nat, i \in S PROVE i + 1 \in S
    <2> SUFFICES ASSUME i + 1 \in 1..n PROVE g[i + 1] = h[i + 1]
      OBVIOUS
    <2>1. i + 1 \in 1..m /\ (i + 1) - 1 = i
      OBVIOUS
    <2>2. g[i + 1] = IF i + 1 = 1 THEN ss[i + 1] ELSE g[i] \o ss[i + 1]
      BY <2>1, JoinedAt
    <2>3. h[i + 1] = IF i + 1 = 1 THEN tt[i + 1] ELSE h[i] \o tt[i + 1]
      BY <2>1, JoinedAt
    <2>4. i + 1 # 1 => g[i] = h[i]
      BY <1>2
    <2>5. ss[i + 1] = tt[i + 1]
      BY DEF Agree
    <2> QED BY <2>2, <2>3, <2>4, <2>5
  <1> HIDE DEF S
  <1>3. Nat \subseteq S
    BY <1>1, <1>2, Induction
  <1> QED BY <1>3 DEF S, Agree

\* There is a partial result of any length.
LEMMA JoinedExists ==
  ASSUME NEW ss, NEW n \in Nat
  PROVE \E g : Joined(ss, n, g)
  <1> DEFINE S == {i \in Nat : \E g : Joined(ss, i, g)}
  <1>1. 0 \in S
    <2>1. Joined(ss, 0, [i \in 1..0 |-> ss[i]])
      BY DEF Joined
    <2> QED BY <2>1
  <1>2. ASSUME NEW i \in Nat, i \in S PROVE i + 1 \in S
    <2>1. PICK g : Joined(ss, i, g)
      BY <1>2
    <2>2. \A j \in 1..i : g[j] = IF j = 1 THEN ss[j] ELSE g[j - 1] \o ss[j]
      BY <2>1, JoinedAt
    <2> DEFINE h == [j \in 1..(i + 1) |-> IF j = 1 THEN ss[j] ELSE g[j - 1] \o ss[j]]
    <2>3. \A j \in 1..i : h[j] = g[j]
      BY <2>2
    <2>4. \A j \in 1..(i + 1) : j # 1 => j - 1 \in 1..i
      OBVIOUS
    <2>5. \A j \in 1..(i + 1) : j # 1 => h[j - 1] = g[j - 1]
      BY <2>3, <2>4
    <2>6. \A j \in 1..(i + 1) : h[j] = IF j = 1 THEN ss[j] ELSE h[j - 1] \o ss[j]
      BY <2>5
    <2>7. h = [j \in 1..(i + 1) |-> h[j]]
      OBVIOUS
    <2> HIDE DEF h
    <2>8. Joined(ss, i + 1, h)
      BY <2>6, <2>7 DEF Joined
    <2> QED BY <2>8
  <1> HIDE DEF S
  <1>3. Nat \subseteq S
    BY <1>1, <1>2, Induction
  <1> QED BY <1>3 DEF S

\* FlattenSeq of nothing.
LEMMA FlattenEmpty == FlattenSeq(<<>>) = <<>>
  BY DEF FlattenSeq

\* FlattenSeq is the last of the partial results.
LEMMA FlattenJoined ==
  ASSUME NEW T, NEW ss \in Seq(T), ss # <<>>
  PROVE \E g : Joined(ss, Len(ss), g) /\ FlattenSeq(ss) = g[Len(ss)]
  <1>0. Len(ss) \in Nat \ {0}
    BY EmptySeq
  <1>1. PICK g0 : Joined(ss, Len(ss), g0)
    BY <1>0, JoinedExists
  <1> DEFINE Eq(g) == g = [i \in 1..Len(ss) |-> IF i = 1 THEN ss[i] ELSE g[i - 1] \o ss[i]]
             f == CHOOSE g : Eq(g)
  <1>2. Eq(f)
    <2>1. Eq(g0)
      BY <1>1 DEF Joined
    <2> HIDE DEF Eq
    <2> QED BY <2>1
  <1>3. FlattenSeq(ss) = f[Len(ss)]
    BY <1>0 DEF FlattenSeq
  <1>4. Joined(ss, Len(ss), f)
    <2> HIDE DEF f
    <2> QED BY <1>2 DEF Joined
  <1> QED BY <1>3, <1>4

\* FlattenSeq of one part more.
LEMMA FlattenAppend ==
  ASSUME NEW A, NEW ss \in Seq(Seq(A)), NEW e \in Seq(A)
  PROVE  FlattenSeq(Append(ss, e)) = FlattenSeq(ss) \o e
  <1> DEFINE tt == Append(ss, e)
             n == Len(ss)
  <1>1. /\ tt \in Seq(Seq(A)) /\ tt # <<>> /\ Len(tt) = n + 1
        /\ \A i \in 1..n : ss[i] = tt[i]
        /\ tt[n + 1] = e
        /\ n \in Nat
    BY AppendProperties, LenProperties
  <1> HIDE DEF tt
  <1>2. PICK h : Joined(tt, n + 1, h) /\ FlattenSeq(tt) = h[n + 1]
    BY <1>1, FlattenJoined
  <1>3. h[n + 1] = IF n + 1 = 1 THEN e ELSE h[n] \o e
    <2>1. n + 1 \in 1..(n + 1) /\ (n + 1) - 1 = n /\ n + 1 \in Nat
      BY <1>1
    <2> QED BY <1>1, <1>2, <2>1, JoinedAt
  <1>4. CASE ss = <<>>
    <2>1. n = 0 /\ FlattenSeq(ss) = <<>> /\ <<>> \o e = e
      BY <1>4, FlattenEmpty, ConcatEmptySeq
    <2> QED BY <1>2, <1>3, <2>1 DEF tt
  <1>5. CASE ss # <<>>
    <2>1. PICK g : Joined(ss, n, g) /\ FlattenSeq(ss) = g[n]
      BY <1>5, FlattenJoined
    <2>2. n # 0 /\ n \in 1..n /\ n <= n + 1 /\ n + 1 \in Nat
      BY <1>1, <1>5, EmptySeq
    <2> HIDE DEF n
    <2>3. \A i \in 1..n : g[i] = h[i]
      <3>1. Joined(ss, n, g) /\ Joined(tt, n + 1, h)
        BY <1>2, <2>1
      <3>2. n \in Nat /\ n + 1 \in Nat /\ n <= n + 1 /\ Agree(ss, tt, n)
        BY <1>1, <2>2 DEF Agree
      <3>3. Agree(g, h, n)
        BY <3>1, <3>2, JoinedSame
      <3> QED BY <3>3 DEF Agree
    <2>4. g[n] = h[n] /\ n + 1 # 1
      BY <2>2, <2>3
    <2> QED BY <1>2, <1>3, <2>1, <2>4 DEF tt
  <1> QED BY <1>4, <1>5

\* FlattenSeq gives a sequence of the same symbols.
LEMMA FlattenType ==
  ASSUME NEW A, NEW ss \in Seq(Seq(A))
  PROVE  FlattenSeq(ss) \in Seq(A)
  <1> DEFINE S == {n \in Nat : \A t \in Seq(Seq(A)) : Len(t) = n => FlattenSeq(t) \in Seq(A)}
  <1>1. 0 \in S
    <2>1. \A t \in Seq(Seq(A)) : Len(t) = 0 => t = <<>>
      BY EmptySeq
    <2>2. <<>> \in Seq(A)
      BY EmptySeq
    <2> QED BY <2>1, <2>2, FlattenEmpty
  <1>2. ASSUME NEW n \in Nat, n \in S PROVE n + 1 \in S
    <2> SUFFICES ASSUME NEW t \in Seq(Seq(A)), Len(t) = n + 1 PROVE FlattenSeq(t) \in Seq(A)
      OBVIOUS
    <2>1. t # <<>>
      OBVIOUS
    <2>2. PICK u \in Seq(Seq(A)), e \in Seq(A) : t = Append(u, e)
      BY <2>1, SequenceEmptyOrAppend
    <2>3. Len(u) = n
      BY <2>2, AppendProperties
    <2>4. FlattenSeq(u) \in Seq(A)
      BY <1>2, <2>3
    <2>5. FlattenSeq(t) = FlattenSeq(u) \o e
      BY <2>2, FlattenAppend
    <2> QED BY <2>4, <2>5, ConcatProperties
  <1> HIDE DEF S
  <1>3. Nat \subseteq S
    BY <1>1, <1>2, Induction
  <1> QED BY <1>3, LenProperties DEF S


\* What stands in a part stands in the whole.
LEMMA OccursFirst ==
  ASSUME NEW A, NEW p \in Seq(A), NEW r \in Seq(A), NEW w \in Seq(A), Occurs(w, p)
  PROVE  Occurs(w, p \o r)
  <1>1. PICK s : s = p \o r
    OBVIOUS
  <1>2. /\ Len(p) \in Nat /\ Len(r) \in Nat /\ Len(w) \in Nat /\ Len(s) = Len(p) + Len(r)
        /\ \A i \in 1..Len(p) : s[i] = p[i]
    BY <1>1
  <1>3. PICK i \in 1..Len(p) : StartsAt(p, w, i)
    BY DEF Occurs, Positions
  <1>4. i \in 1..Len(s) /\ i + Len(w) - 1 <= Len(p)
    BY <1>2, <1>3 DEF StartsAt
  <1>5. ASSUME NEW j \in 1..Len(w) PROVE s[i + j - 1] = w[j]
    <2>1. p[i + j - 1] = w[j]
      BY <1>3 DEF StartsAt
    <2>2. i + j - 1 \in 1..Len(p)
      BY <1>2, <1>3, <1>4
    <2> QED BY <1>2, <2>1, <2>2
  <1>6. StartsAt(s, w, i)
    BY <1>2, <1>4, <1>5 DEF StartsAt
  <1> QED BY <1>1, <1>4, <1>6 DEF Occurs, Positions

\* A word that stands in the second of two parts stands in both together.
LEMMA OccursSecond ==
  ASSUME NEW A, NEW p \in Seq(A), NEW r \in Seq(A), NEW w \in Seq(A), Occurs(w, r)
  PROVE  Occurs(w, p \o r)
  <1>1. PICK s : s = p \o r
    OBVIOUS
  <1>2. Joins(A, s, p, r)
    BY <1>1, JoinsConcat
  <1> QED BY <1>1, <1>2, OccursRest

\* Sequences of texts, by their last text.
LEMMA ByLast ==
  ASSUME NEW T, NEW S, \A e \in Seq(T) : Len(e) = 0 => e \in S,
         \A u \in Seq(T), e \in T : u \in S => Append(u, e) \in S
  PROVE  Seq(T) \subseteq S
  <1> DEFINE N == {n \in Nat : \A t \in Seq(T) : Len(t) = n => t \in S}
  <1>1. 0 \in N
    OBVIOUS
  <1>2. ASSUME NEW n \in Nat, n \in N PROVE n + 1 \in N
    <2> SUFFICES ASSUME NEW t \in Seq(T), Len(t) = n + 1 PROVE t \in S
      OBVIOUS
    <2>1. t # <<>>
      OBVIOUS
    <2>2. PICK u \in Seq(T), e \in T : t = Append(u, e)
      BY <2>1, SequenceEmptyOrAppend
    <2>3. Len(u) = n
      BY <2>2, AppendProperties
    <2> QED BY <1>2, <2>2, <2>3
  <1> HIDE DEF N
  <1>3. Nat \subseteq N
    BY <1>1, <1>2, Induction
  <1> QED BY <1>3, LenProperties DEF N

\* A word that stands in a part stands in the whole.
LEMMA FlattenOccurs ==
  ASSUME NEW A, NEW ss \in Seq(Seq(A)), NEW i \in 1..Len(ss), NEW w \in Seq(A),
         Occurs(w, ss[i])
  PROVE  Occurs(w, FlattenSeq(ss))
  <1> DEFINE S == {t \in Seq(Seq(A)) : \A j \in 1..Len(t) :
                      Occurs(w, t[j]) => Occurs(w, FlattenSeq(t))}
  <1>1. \A e \in Seq(Seq(A)) : Len(e) = 0 => e \in S
    OBVIOUS
  <1>2. ASSUME NEW u \in Seq(Seq(A)), NEW e \in Seq(A), u \in S PROVE Append(u, e) \in S
    <2>1. PICK t : t = Append(u, e)
      OBVIOUS
    <2>2. /\ t \in Seq(Seq(A)) /\ Len(u) \in Nat /\ Len(t) = Len(u) + 1
          /\ \A j \in 1..Len(u) : t[j] = u[j]
          /\ t[Len(u) + 1] = e
      BY <2>1, AppendProperties, LenProperties
    <2>3. FlattenSeq(t) = FlattenSeq(u) \o e /\ FlattenSeq(u) \in Seq(A)
      BY <2>1, FlattenAppend, FlattenType
    <2>4. ASSUME NEW j \in 1..Len(t), Occurs(w, t[j]) PROVE Occurs(w, FlattenSeq(t))
      <3>1. CASE j = Len(u) + 1
        BY <2>2, <2>3, <2>4, <3>1, OccursSecond
      <3>2. CASE j # Len(u) + 1
        <4>1. j \in 1..Len(u)
          BY <2>2, <3>2
        <4>2. Occurs(w, FlattenSeq(u))
          BY <1>2, <2>2, <2>4, <4>1
        <4> QED BY <2>3, <4>2, OccursFirst
      <3> QED BY <3>1, <3>2
    <2> QED BY <2>1, <2>2, <2>4
  <1> HIDE DEF S
  <1>3. Seq(Seq(A)) \subseteq S
    BY <1>1, <1>2, ByLast
  <1> QED BY <1>3 DEF S

\* A symbol that is not in the whole is in no part.
LEMMA FlattenWithout ==
  ASSUME NEW A, NEW ss \in Seq(Seq(A)), NEW o, Without(o, FlattenSeq(ss))
  PROVE  \A i \in 1..Len(ss) : Without(o, ss[i])
  <1> DEFINE S == {t \in Seq(Seq(A)) : Without(o, FlattenSeq(t)) =>
                      \A j \in 1..Len(t) : Without(o, t[j])}
  <1>1. \A e \in Seq(Seq(A)) : Len(e) = 0 => e \in S
    OBVIOUS
  <1>2. ASSUME NEW u \in Seq(Seq(A)), NEW e \in Seq(A), u \in S PROVE Append(u, e) \in S
    <2>1. PICK t : t = Append(u, e)
      OBVIOUS
    <2>2. /\ t \in Seq(Seq(A)) /\ Len(u) \in Nat /\ Len(t) = Len(u) + 1
          /\ \A j \in 1..Len(u) : t[j] = u[j]
          /\ t[Len(u) + 1] = e
      BY <2>1, AppendProperties, LenProperties
    <2>3. FlattenSeq(t) = FlattenSeq(u) \o e /\ FlattenSeq(u) \in Seq(A)
      BY <2>1, FlattenAppend, FlattenType
    <2>4. ASSUME NEW j \in 1..Len(t), Without(o, FlattenSeq(t)) PROVE Without(o, t[j])
      <3>0. Without(o, FlattenSeq(u)) /\ Without(o, e)
        BY <2>3, <2>4, WithoutParts
      <3>1. CASE j = Len(u) + 1
        BY <2>2, <3>0, <3>1
      <3>2. CASE j # Len(u) + 1
        <4>1. j \in 1..Len(u)
          BY <2>2, <3>2
        <4> QED BY <1>2, <2>2, <3>0, <4>1
      <3> QED BY <3>1, <3>2
    <2> QED BY <2>1, <2>2, <2>4
  <1> HIDE DEF S
  <1>3. Seq(Seq(A)) \subseteq S
    BY <1>1, <1>2, ByLast
  <1> QED BY <1>3 DEF S

\* Part by part, one text stands for another.
LEMMA FlattenReads ==
  ASSUME NEW A, NEW o, NEW c, NEW P, Book(A, o, c, P),
         NEW tt \in Seq(Seq(A)), NEW ss \in Seq(Seq(A)), Len(tt) = Len(ss),
         \A i \in 1..Len(ss) : Reads(A, o, P, tt[i], ss[i])
  PROVE  Reads(A, o, P, FlattenSeq(tt), FlattenSeq(ss))
  <1> DEFINE Part(t, s) == \A i \in 1..Len(s) : Reads(A, o, P, t[i], s[i])
             S == {t \in Seq(Seq(A)) : \A s \in Seq(Seq(A)) :
                      Len(t) = Len(s) /\ Part(t, s) =>
                          Reads(A, o, P, FlattenSeq(t), FlattenSeq(s))}
  <1>1. ASSUME NEW e \in Seq(Seq(A)), Len(e) = 0 PROVE e \in S
    <2> SUFFICES ASSUME NEW s \in Seq(Seq(A)), Len(e) = Len(s)
                 PROVE  Reads(A, o, P, FlattenSeq(e), FlattenSeq(s))
      OBVIOUS
    <2>1. e = <<>> /\ s = <<>>
      BY <1>1, EmptySeq
    <2>2. PICK z \in Seq(A) : z = <<>> /\ Len(z) = 0
      BY EmptySeq
    <2>3. Reads(A, o, P, z, z)
      BY <2>2, ReadsEmpty
    <2>4. FlattenSeq(e) = z /\ FlattenSeq(s) = z
      BY <2>1, <2>2, FlattenEmpty
    <2> QED BY <2>3, <2>4
  <1>2. ASSUME NEW u \in Seq(Seq(A)), NEW e \in Seq(A), u \in S PROVE Append(u, e) \in S
    <2>1. PICK t : t = Append(u, e)
      OBVIOUS
    <2>2. /\ t \in Seq(Seq(A)) /\ Len(u) \in Nat /\ Len(t) = Len(u) + 1
          /\ \A j \in 1..Len(u) : t[j] = u[j]
          /\ t[Len(u) + 1] = e
      BY <2>1, AppendProperties, LenProperties
    <2>3. FlattenSeq(t) = FlattenSeq(u) \o e /\ FlattenSeq(u) \in Seq(A)
      BY <2>1, FlattenAppend, FlattenType
    <2>4. ASSUME NEW s \in Seq(Seq(A)), Len(t) = Len(s), Part(t, s)
          PROVE  Reads(A, o, P, FlattenSeq(t), FlattenSeq(s))
      <3>1. s # <<>>
        BY <2>2, <2>4
      <3>2. PICK v \in Seq(Seq(A)), f \in Seq(A) : s = Append(v, f)
        BY <3>1, SequenceEmptyOrAppend
      <3>3. /\ Len(v) \in Nat /\ Len(s) = Len(v) + 1
            /\ \A j \in 1..Len(v) : s[j] = v[j]
            /\ s[Len(v) + 1] = f
        BY <3>2, AppendProperties, LenProperties
      <3>4. Len(u) = Len(v)
        BY <2>2, <2>4, <3>3
      <3>5. Part(u, v)
        <4> SUFFICES ASSUME NEW j \in 1..Len(v) PROVE Reads(A, o, P, u[j], v[j])
          OBVIOUS
        <4>1. j \in 1..Len(s) /\ t[j] = u[j] /\ s[j] = v[j]
          BY <2>2, <3>3, <3>4
        <4> QED BY <2>4, <4>1
      <3>6. Reads(A, o, P, e, f)
        <4>1. Len(v) + 1 \in 1..Len(s)
          BY <3>3
        <4> QED BY <2>2, <2>4, <3>3, <3>4, <4>1
      <3>7. Reads(A, o, P, FlattenSeq(u), FlattenSeq(v))
        BY <1>2, <3>4, <3>5
      <3>8. FlattenSeq(s) = FlattenSeq(v) \o f
        BY <3>2, FlattenAppend
      <3> QED BY <2>3, <3>6, <3>7, <3>8, ReadsJoin
    <2> HIDE DEF Part
    <2> QED BY <2>1, <2>2, <2>4
  <1>3. Part(tt, ss)
    OBVIOUS
  <1> HIDE DEF S, Part
  <1>4. Seq(Seq(A)) \subseteq S
    BY <1>1, <1>2, ByLast
  <1> QED BY <1>3, <1>4 DEF S

---------------------------------------------------------------------------
(* Documents. *)

\* The symbols texts are made of: strings (the provers do not know of a single
\* one that it is a string: those named in Anonymizer are named here) and None.
Alphabet ==
    STRING \cup {None} \cup Formats \cup {"[", "]", "_", "1", ":", ";", "|"}
    \cup {"quote", "backslash", "less", "amp", "apostrophe"}

\* What AnonymizerAssumption says of a document.
LEMMA DocFacts ==
  ASSUME NEW d \in Docs
  PROVE  /\ d.format \in Formats /\ d.leaves \in Seq(Leaves) /\ Len(d.leaves) \in Nat
         /\ d.cut \in Nat \cup {NoCut}
  BY AnonymizerAssumption DEF DocsAssumption

\* What it says of a leaf.
LEMMA LeafFacts ==
  ASSUME NEW d \in Docs, NEW i \in 1..Len(d.leaves)
  PROVE  /\ d.leaves[i] \in Leaves
         /\ d.leaves[i].field \in FieldNames \cup {None} /\ d.leaves[i].field \in Alphabet
         /\ d.leaves[i].text \in Seq(Alphabet)
         /\ d.leaves[i].string \in BOOLEAN
         /\ Field(d.leaves[i]) \in FieldNames /\ Field(d.leaves[i]) \in Alphabet
         /\ d.leaves[i].inner # None =>
               d.leaves[i].inner \in Docs /\ d.leaves[i].text = Render(d.leaves[i].inner)
         /\ d.format = "sql" /\ ~d.leaves[i].string =>
               \A g \in Docs : g.format \in {"json", "xml"} => d.leaves[i].text # Render(g)
  <1>1. d.leaves[i] \in Leaves
    BY DocFacts
  <1>2. /\ d.leaves[i].field \in FieldNames \cup {None}
        /\ d.leaves[i].text \in Texts
        /\ d.leaves[i].string \in BOOLEAN
        /\ d.leaves[i].inner \in Docs \cup {None}
    BY <1>1 DEF Leaves
  <1>3. FieldNames \subseteq STRING /\ "valeur" \in FieldNames
    BY AnonymizerAssumption
  <1>4. d.leaves[i].inner # None => d.leaves[i].text = Render(d.leaves[i].inner)
    BY AnonymizerAssumption DEF DocsAssumption
  <1>8. d.format = "sql" /\ ~d.leaves[i].string =>
           \A g \in Docs : g.format \in {"json", "xml"} => d.leaves[i].text # Render(g)
    BY AnonymizerAssumption DEF DocsAssumption
  <1>5. Texts \subseteq Seq(Alphabet)
    <2>1. STRING \cup {None} \subseteq Alphabet
      BY DEF Alphabet
    <2> QED BY <2>1 DEF Texts
  <1>6. Field(d.leaves[i]) \in FieldNames
    BY <1>2, <1>3 DEF Field
  <1>7. FieldNames \cup {None} \subseteq Alphabet
    BY <1>3 DEF Alphabet
  <1> QED BY <1>1, <1>2, <1>4, <1>5, <1>6, <1>7, <1>8

\* The symbols that documents are written with are in the alphabet.
LEMMA Letters ==
  /\ \A f \in Formats : f \in Alphabet /\ f # "["
  /\ ":" \in Alphabet /\ ";" \in Alphabet /\ "|" \in Alphabet
  /\ "[" # ":" /\ "[" # ";" /\ "[" # "|"
  <1>1. /\ ":" \in Alphabet /\ ";" \in Alphabet /\ "|" \in Alphabet
        /\ Formats \subseteq Alphabet
    BY DEF Alphabet
  <1>2. \A f \in Formats : f # "["
    BY DEF Formats
  <1> QED BY <1>1, <1>2

\* The text of a leaf, with what the format puts around it.
LEMMA Short ==
  ASSUME NEW A, NEW a \in A, NEW b \in A
  PROVE  <<a, b>> \in Seq(A) /\ <<a>> \in Seq(A)
  OBVIOUS

Lead(field) == <<field, ":">>
Close == <<";">>

\* What stands around the text of a leaf is a text.
LEMMA Around ==
  ASSUME NEW field \in Alphabet
  PROVE  /\ Lead(field) \in Seq(Alphabet) /\ Close \in Seq(Alphabet)
         /\ \A f, x : RenderLeaf(f, field, x) =
               IF f = "freetext" THEN x ELSE (Lead(field) \o x) \o Close
  <1>1. Lead(field) \in Seq(Alphabet) /\ Close \in Seq(Alphabet)
    BY Letters, Short DEF Lead, Close
  <1>2. \A f, x : RenderLeaf(f, field, x) =
           IF f = "freetext" THEN x ELSE (Lead(field) \o x) \o Close
    BY DEF RenderLeaf, Lead, Close
  <1> QED BY <1>1, <1>2

\* A leaf is written as a text.
LEMMA RenderLeafType ==
  ASSUME NEW format, NEW field \in Alphabet, NEW text \in Seq(Alphabet)
  PROVE  RenderLeaf(format, field, text) \in Seq(Alphabet)
  <1>1. PICK p, r : p = Lead(field) /\ r = Close
    OBVIOUS
  <1>0. /\ p \in Seq(Alphabet) /\ r \in Seq(Alphabet)
        /\ \A f, x : RenderLeaf(f, field, x) =
              IF f = "freetext" THEN x ELSE (p \o x) \o r
    BY <1>1, Around, Zenon
  <1>2. (p \o text) \o r \in Seq(Alphabet)
    BY <1>0, ConcatProperties, Zenon
  <1> QED BY <1>0, <1>2

\* What stands in the text of a leaf stands in the leaf.
LEMMA RenderLeafOccurs ==
  ASSUME NEW format, NEW field \in Alphabet, NEW text \in Seq(Alphabet),
         NEW w \in Seq(Alphabet), Occurs(w, text)
  PROVE  Occurs(w, RenderLeaf(format, field, text))
  <1>1. PICK p, r : p = Lead(field) /\ r = Close
    OBVIOUS
  <1>0. /\ p \in Seq(Alphabet) /\ r \in Seq(Alphabet)
        /\ \A f, x : RenderLeaf(f, field, x) =
              IF f = "freetext" THEN x ELSE (p \o x) \o r
    BY <1>1, Around, Zenon
  <1>2. PICK s : s = p \o text /\ s \in Seq(Alphabet)
    BY <1>0, ConcatProperties, Zenon
  <1>3. Occurs(w, s)
    BY <1>0, <1>2, OccursSecond
  <1>4. Occurs(w, s \o r)
    BY <1>0, <1>2, <1>3, OccursFirst
  <1> QED BY <1>0, <1>2, <1>4

\* A symbol that is not in the leaf is not in its text.
LEMMA RenderLeafWithout ==
  ASSUME NEW format, NEW field \in Alphabet, NEW text \in Seq(Alphabet),
         NEW o, Without(o, RenderLeaf(format, field, text))
  PROVE  Without(o, text)
  <1>1. PICK p, r : p = Lead(field) /\ r = Close
    OBVIOUS
  <1>0. /\ p \in Seq(Alphabet) /\ r \in Seq(Alphabet)
        /\ \A f, x : RenderLeaf(f, field, x) =
              IF f = "freetext" THEN x ELSE (p \o x) \o r
    BY <1>1, Around, Zenon
  <1>2. CASE format = "freetext"
    BY <1>0, <1>2
  <1>3. CASE format # "freetext"
    <2>1. PICK s : s = p \o text /\ s \in Seq(Alphabet)
      BY <1>0, ConcatProperties, Zenon
    <2>2. Without(o, s \o r)
      BY <1>0, <1>3, <2>1
    <2>3. Without(o, s)
      BY <1>0, <2>1, <2>2, WithoutParts
    <2> QED BY <1>0, <2>1, <2>3, WithoutParts
  <1> QED BY <1>2, <1>3

\* If the text of a leaf reads as another, so does the leaf.
LEMMA RenderLeafReads ==
  ASSUME NEW format, NEW field \in Alphabet, NEW P, NEW o, NEW c, Book(Alphabet, o, c, P),
         NEW t, NEW x, Reads(Alphabet, o, P, t, x), Without(o, RenderLeaf(format, field, x))
  PROVE  Reads(Alphabet, o, P, RenderLeaf(format, field, t), RenderLeaf(format, field, x))
  <1>1. PICK p, r : p = Lead(field) /\ r = Close
    OBVIOUS
  <1>0. /\ p \in Seq(Alphabet) /\ r \in Seq(Alphabet)
        /\ \A f, y : RenderLeaf(f, field, y) =
              IF f = "freetext" THEN y ELSE (p \o y) \o r
    BY <1>1, Around, Zenon
  <1>2. CASE format = "freetext"
    BY <1>0, <1>2
  <1>3. CASE format # "freetext"
    <2>0. x \in Seq(Alphabet)
      BY DEF Reads
    <2>1. PICK s : s = p \o x /\ s \in Seq(Alphabet)
      BY <1>0, <2>0, ConcatProperties, Zenon
    <2>2. Without(o, s \o r)
      BY <1>0, <1>3, <2>1
    <2>3. Without(o, p) /\ Without(o, r)
      BY <1>0, <2>0, <2>1, <2>2, WithoutParts
    <2>4. Reads(Alphabet, o, P, p, p) /\ Reads(Alphabet, o, P, r, r)
      BY <1>0, <2>3, ReadsPlain
    <2>5. Reads(Alphabet, o, P, p \o t, p \o x)
      BY <2>4, ReadsJoin
    <2>6. Reads(Alphabet, o, P, (p \o t) \o r, (p \o x) \o r)
      BY <2>4, <2>5, ReadsJoin
    <2>7. /\ RenderLeaf(format, field, t) = (p \o t) \o r
          /\ RenderLeaf(format, field, x) = (p \o x) \o r
      BY <1>0, <1>3
    <2> QED BY <2>6, <2>7
  <1> QED BY <1>2, <1>3

---------------------------------------------------------------------------
(* Escapes and quotes. *)

\* A symbol, escaped if it has to be; the symbols of a text.
Symbol(f, x) == IF x \in Special(f) THEN <<Sign(f), x>> ELSE <<x>>
Symbols(f, s) == [i \in 1..Len(s) |-> Symbol(f, s[i])]

\* The symbols that quote and escape are in the alphabet, and none of a token.
LEMMA SpecialFacts ==
  ASSUME NEW f \in Formats
  PROVE  /\ Quote(f) \in Alphabet /\ Sign(f) \in Alphabet
         /\ Quote(f) # "[" /\ Sign(f) # "["
         /\ \A x \in {"[", "]", "_", "1"} : x \notin Special(f)
  <1>1. Quote(f) \in {"less", "apostrophe", "quote"}
    BY DEF Quote
  <1>2. Sign(f) \in {"amp", "backslash", "less", "apostrophe", "quote"}
    BY <1>1 DEF Sign
  <1>3. {"quote", "backslash", "less", "amp", "apostrophe"} \subseteq Alphabet
    BY DEF Alphabet
  <1>4. Special(f) \subseteq {"quote", "backslash", "less", "amp", "apostrophe"}
    BY <1>1, <1>2 DEF Special
  <1> QED BY <1>1, <1>2, <1>3, <1>4

\* One symbol as a text.
LEMMA One ==
  ASSUME NEW A, NEW x \in A
  PROVE  <<x>> \in Seq(A) /\ Len(<<x>>) = 1 /\ <<x>>[1] = x
  OBVIOUS

\* A text of one symbol.
LEMMA SingleAppend ==
  ASSUME NEW A, NEW k \in Seq(A), Len(k) = 1, NEW a \in Seq(A), Len(a) = 0
  PROVE  k = Append(a, k[1])
  OBVIOUS

\* Two symbols as a text.
LEMMA Two ==
  ASSUME NEW A, NEW x \in A, NEW y \in A
  PROVE  <<x, y>> \in Seq(A) /\ Len(<<x, y>>) = 2 /\ <<x, y>>[1] = x /\ <<x, y>>[2] = y
  OBVIOUS

\* An escaped symbol is a text that has the symbol in it and no bracket else.
LEMMA SymbolFacts ==
  ASSUME NEW f \in Formats, NEW x \in Alphabet
  PROVE  /\ Symbol(f, x) \in Seq(Alphabet)
         /\ \A o : Without(o, Symbol(f, x)) => x # o
         /\ x # "[" => Without("[", Symbol(f, x))
         /\ x \notin Special(f) => Symbol(f, x) = <<x>>
  <1>1. CASE x \in Special(f)
    <2>1. Symbol(f, x) = <<Sign(f), x>>
      BY <1>1 DEF Symbol
    <2>2. Sign(f) \in Alphabet /\ Sign(f) # "["
      BY SpecialFacts
    <2>3. PICK t \in Seq(Alphabet) :
             t = <<Sign(f), x>> /\ Len(t) = 2 /\ t[1] = Sign(f) /\ t[2] = x
      <3>1. <<Sign(f), x>> \in Seq(Alphabet)
        BY <2>2, Two
      <3> QED BY <3>1, Zenon
    <2>4. \A i \in 1..Len(t) : i = 1 \/ i = 2
      BY <2>3
    <2>5. 2 \in 1..Len(t)
      BY <2>3
    <2> QED BY <1>1, <2>1, <2>2, <2>3, <2>4, <2>5 DEF Without
  <1>2. CASE x \notin Special(f)
    <2>1. Symbol(f, x) = <<x>>
      BY <1>2 DEF Symbol
    <2>2. PICK t \in Seq(Alphabet) : t = <<x>> /\ Len(t) = 1 /\ t[1] = x
      BY One
    <2>3. (\A i \in 1..Len(t) : i = 1) /\ 1 \in 1..Len(t)
      BY <2>2
    <2> QED BY <1>2, <2>1, <2>2, <2>3 DEF Without
  <1> QED BY <1>1, <1>2

\* An escaped text is its escaped symbols put together.
LEMMA EscapeIs ==
  ASSUME NEW f \in Formats, NEW s \in Seq(Alphabet)
  PROVE  /\ Escape(f, s) = FlattenSeq(Symbols(f, s)) /\ Escape(f, s) \in Seq(Alphabet)
         /\ Symbols(f, s) \in Seq(Seq(Alphabet)) /\ Len(Symbols(f, s)) = Len(s)
         /\ \A i \in 1..Len(s) : Symbols(f, s)[i] = Symbol(f, s[i]) /\ s[i] \in Alphabet
  <1>1. Escape(f, s) = FlattenSeq(Symbols(f, s))
    BY DEF Escape, Symbols, Symbol
  <1>2. \A i \in 1..Len(s) : s[i] \in Alphabet /\ Symbol(f, s[i]) \in Seq(Alphabet)
    BY SymbolFacts
  <1>3. Symbols(f, s) \in Seq(Seq(Alphabet)) /\ Len(Symbols(f, s)) = Len(s)
    BY <1>2 DEF Symbols
  <1>4. \A i \in 1..Len(s) : Symbols(f, s)[i] = Symbol(f, s[i])
    BY DEF Symbols
  <1> QED BY <1>1, <1>2, <1>3, <1>4, FlattenType

\* An empty text stays empty.
LEMMA EscapeEmpty ==
  ASSUME NEW f \in Formats, NEW s \in Seq(Alphabet), Len(s) = 0
  PROVE  Escape(f, s) = <<>>
  <1>1. Symbols(f, s) = <<>>
    BY EscapeIs, EmptySeq
  <1> QED BY <1>1, EscapeIs, FlattenEmpty

\* One symbol more.
LEMMA EscapeAppend ==
  ASSUME NEW f \in Formats, NEW s \in Seq(Alphabet), NEW x \in Alphabet
  PROVE  Escape(f, Append(s, x)) = Escape(f, s) \o Symbol(f, x)
  <1>1. PICK t \in Seq(Alphabet) : t = Append(s, x)
    BY AppendProperties, Zenon
  <1>2. /\ Len(s) \in Nat /\ Len(t) = Len(s) + 1 /\ t[Len(s) + 1] = x
        /\ \A i \in 1..Len(s) : t[i] = s[i]
    BY <1>1, AppendProperties, LenProperties
  <1>3. PICK ss, tt \in Seq(Seq(Alphabet)) :
           /\ ss = Symbols(f, s) /\ Len(ss) = Len(s)
           /\ tt = Symbols(f, t) /\ Len(tt) = Len(t)
           /\ \A i \in 1..Len(s) : ss[i] = Symbol(f, s[i])
           /\ \A i \in 1..Len(t) : tt[i] = Symbol(f, t[i])
    BY EscapeIs
  <1>4. PICK e \in Seq(Alphabet) : e = Symbol(f, x)
    BY SymbolFacts
  <1>5. tt = Append(ss, e)
    <2>1. tt[Len(s) + 1] = e
      BY <1>2, <1>3, <1>4
    <2>2. \A i \in 1..Len(s) : tt[i] = ss[i]
      BY <1>2, <1>3
    <2> QED BY <1>2, <1>3, <2>1, <2>2
  <1>6. FlattenSeq(tt) = FlattenSeq(ss) \o e
    BY <1>5, FlattenAppend
  <1> QED BY <1>1, <1>3, <1>4, <1>6, EscapeIs

\* Texts are escaped one after the other.
LEMMA EscapeConcat ==
  ASSUME NEW f \in Formats, NEW s \in Seq(Alphabet), NEW t \in Seq(Alphabet)
  PROVE  Escape(f, s \o t) = Escape(f, s) \o Escape(f, t)
  <1> DEFINE S == {u \in Seq(Alphabet) : Escape(f, s \o u) = Escape(f, s) \o Escape(f, u)}
  <1>0. Escape(f, s) \in Seq(Alphabet)
    BY EscapeIs
  <1>1. ASSUME NEW e \in Seq(Alphabet), Len(e) = 0 PROVE e \in S
    <2>1. Escape(f, e) = <<>> /\ s \o e = s
      BY <1>1, EscapeEmpty, EmptySeq, ConcatEmptySeq
    <2>2. Escape(f, s) \o <<>> = Escape(f, s)
      BY <1>0, ConcatEmptySeq
    <2> QED BY <2>1, <2>2
  <1>2. ASSUME NEW u \in Seq(Alphabet), NEW x \in Alphabet, u \in S PROVE Append(u, x) \in S
    <2>1. /\ s \o u \in Seq(Alphabet) /\ Append(u, x) \in Seq(Alphabet)
          /\ s \o Append(u, x) = Append(s \o u, x)
      OBVIOUS
    <2>2. Escape(f, s \o Append(u, x)) = Escape(f, s \o u) \o Symbol(f, x)
      BY <2>1, EscapeAppend
    <2>3. Escape(f, s \o u) = Escape(f, s) \o Escape(f, u)
      BY <1>2
    <2>4. PICK a, b, c \in Seq(Alphabet) :
             a = Escape(f, s) /\ b = Escape(f, u) /\ c = Symbol(f, x)
      BY EscapeIs, SymbolFacts
    <2>5. (a \o b) \o c = a \o (b \o c)
      OBVIOUS
    <2>6. Escape(f, Append(u, x)) = b \o c
      BY <2>4, EscapeAppend
    <2>7. Escape(f, s \o Append(u, x)) = Escape(f, s) \o Escape(f, Append(u, x))
      BY <2>2, <2>3, <2>4, <2>5, <2>6
    <2> QED BY <2>1, <2>7
  <1> HIDE DEF S
  <1>3. Seq(Alphabet) \subseteq S
    BY <1>1, <1>2, ByLast
  <1> QED BY <1>3 DEF S

\* A text without special symbols is written as it is.
LEMMA EscapePlain ==
  ASSUME NEW f \in Formats, NEW t \in Seq(Alphabet), \A i \in 1..Len(t) : t[i] \notin Special(f)
  PROVE  Escape(f, t) = t
  <1> DEFINE Free(u) == \A i \in 1..Len(u) : u[i] \notin Special(f)
             S == {u \in Seq(Alphabet) : Free(u) => Escape(f, u) = u}
  <1>1. ASSUME NEW e \in Seq(Alphabet), Len(e) = 0 PROVE e \in S
    BY <1>1, EscapeEmpty, EmptySeq
  <1>2. ASSUME NEW u \in Seq(Alphabet), NEW x \in Alphabet, u \in S PROVE Append(u, x) \in S
    <2>1. PICK w \in Seq(Alphabet) : w = Append(u, x)
      BY AppendProperties, Zenon
    <2>2. /\ Len(u) \in Nat /\ Len(w) = Len(u) + 1 /\ w[Len(u) + 1] = x
          /\ \A i \in 1..Len(u) : w[i] = u[i]
      BY <2>1, AppendProperties, LenProperties
    <2>3. ASSUME Free(w) PROVE Escape(f, w) = w
      <3>1. Free(u) /\ x \notin Special(f)
        <4>1. \A i \in 1..Len(u) : i \in 1..Len(w)
          BY <2>2
        <4>2. Len(u) + 1 \in 1..Len(w)
          BY <2>2
        <4> QED BY <2>2, <2>3, <4>1, <4>2
      <3>2. Escape(f, u) = u /\ Symbol(f, x) = <<x>>
        BY <1>2, <3>1, SymbolFacts
      <3>3. Escape(f, w) = u \o <<x>>
        BY <2>1, <3>2, EscapeAppend
      <3> QED BY <2>1, <3>3, AppendIsConcat
    <2> HIDE DEF Free
    <2> QED BY <2>1, <2>3
  <1>3. Free(t)
    OBVIOUS
  <1> HIDE DEF S, Free
  <1>4. Seq(Alphabet) \subseteq S
    BY <1>1, <1>2, ByLast
  <1> QED BY <1>3, <1>4 DEF S

\* A symbol that is not in the escaped text is not in the text.
LEMMA EscapeWithout ==
  ASSUME NEW f \in Formats, NEW s \in Seq(Alphabet), NEW o, Without(o, Escape(f, s))
  PROVE  Without(o, s)
  <1>1. \A i \in 1..Len(s) : Without(o, Symbol(f, s[i])) /\ s[i] \in Alphabet
    BY EscapeIs, FlattenWithout
  <1>2. ASSUME NEW i \in 1..Len(s) PROVE s[i] # o
    BY <1>1, SymbolFacts, Zenon
  <1> QED BY <1>2 DEF Without

\* If neither tokens nor values are escaped, what stands for a text stands for
\* it when both are escaped.
Unescaped(f, P) == \A p \in P : Escape(f, p[1]) = p[1] /\ Escape(f, p[2]) = p[2]

LEMMA EscapeReads ==
  ASSUME NEW f \in Formats, NEW P, Book(Alphabet, "[", "]", P), Unescaped(f, P),
         NEW u, NEW x, Reads(Alphabet, "[", P, u, x)
  PROVE  Reads(Alphabet, "[", P, Escape(f, u), Escape(f, x))
  <1> DEFINE A == Alphabet
             Z == {z \in Seq(A) \X Seq(A) :
                      Reads(A, "[", P, Escape(f, z[1]), Escape(f, z[2]))}
  <1>1. ASSUME NEW e \in Seq(A), Len(e) = 0 PROVE <<e, e>> \in Z
    <2>1. Escape(f, e) = e
      BY <1>1, EscapeEmpty, EmptySeq
    <2>2. Reads(A, "[", P, e, e)
      BY <1>1, ReadsEmpty
    <2> QED BY <2>1, <2>2
  <1>2. ASSUME NEW z \in Z, NEW k \in Seq(A), Len(k) = 1, k[1] # "["
        PROVE  <<k \o z[1], k \o z[2]>> \in Z
    <2>1. PICK r, q \in Seq(A) :
             r = z[1] /\ q = z[2] /\ Reads(A, "[", P, Escape(f, r), Escape(f, q))
      OBVIOUS
    <2>2. Escape(f, k) \in Seq(A) /\ Without("[", Escape(f, k))
      <3>0. PICK c \in Alphabet : c = k[1] /\ c # "["
        <4>1. 1 \in 1..Len(k)
          BY <1>2
        <4>2. \A i \in 1..Len(k) : k[i] \in Alphabet
          BY ElementOfSeq
        <4> QED BY <1>2, <4>1, <4>2, Zenon
      <3>1. PICK a, b \in Seq(A) : a = <<>> /\ Len(a) = 0 /\ b = Symbol(f, c)
        <4>1. <<>> \in Seq(A) /\ Len(<<>>) = 0
          BY EmptySeq
        <4>2. Symbol(f, c) \in Seq(A)
          BY SymbolFacts
        <4> QED BY <4>1, <4>2, Zenon
      <3>2. k = Append(a, c)
        BY <1>2, <3>0, <3>1, SingleAppend
      <3>3. Escape(f, k) = Escape(f, a) \o b
        BY <3>1, <3>2, EscapeAppend, Zenon
      <3>4. Escape(f, k) = b
        BY <3>1, <3>3, EscapeEmpty, ConcatEmptySeq
      <3> QED BY <3>0, <3>1, <3>4, SymbolFacts
    <2>3. Reads(A, "[", P, Escape(f, k), Escape(f, k))
      BY <2>2, ReadsPlain
    <2>4. Reads(A, "[", P, Escape(f, k) \o Escape(f, r), Escape(f, k) \o Escape(f, q))
      BY <2>1, <2>3, ReadsJoin
    <2>5. /\ Escape(f, k \o r) = Escape(f, k) \o Escape(f, r)
          /\ Escape(f, k \o q) = Escape(f, k) \o Escape(f, q)
          /\ k \o r \in Seq(A) /\ k \o q \in Seq(A)
      BY <2>1, EscapeConcat, ConcatProperties
    <2> QED BY <2>1, <2>4, <2>5
  <1>3. ASSUME NEW z \in Z, NEW p \in P PROVE <<p[1] \o z[1], p[2] \o z[2]>> \in Z
    <2>1. PICK r, q \in Seq(A) :
             r = z[1] /\ q = z[2] /\ Reads(A, "[", P, Escape(f, r), Escape(f, q))
      OBVIOUS
    <2>2. PICK a, b \in Seq(A) : a = p[1] /\ b = p[2]
      BY DEF Book
    <2>3. Reads(A, "[", P, a \o Escape(f, r), b \o Escape(f, q))
      BY <2>1, <2>2, ReadsToken
    <2>4. Escape(f, a) = a /\ Escape(f, b) = b
      BY <2>2 DEF Unescaped
    <2>5. /\ Escape(f, a \o r) = a \o Escape(f, r) /\ Escape(f, b \o q) = b \o Escape(f, q)
          /\ a \o r \in Seq(A) /\ b \o q \in Seq(A)
      <3>1. /\ Escape(f, a \o r) = Escape(f, a) \o Escape(f, r)
            /\ Escape(f, b \o q) = Escape(f, b) \o Escape(f, q)
        BY EscapeConcat
      <3> QED BY <2>4, <3>1, ConcatProperties, Zenon
    <2> QED BY <2>1, <2>2, <2>3, <2>5
  <1>4. /\ Z \subseteq Seq(A) \X Seq(A)
        /\ \A z \in Z : Reads(A, "[", P, Escape(f, z[1]), Escape(f, z[2]))
    OBVIOUS
  <1> HIDE DEF Z
  <1>5. Builds(A, "[", P, Z)
    BY <1>1, <1>2, <1>3, <1>4 DEF Builds
  <1>6. <<u, x>> \in Z
    BY <1>5 DEF Reads
  <1>7. Reads(A, "[", P, Escape(f, <<u, x>>[1]), Escape(f, <<u, x>>[2]))
    BY <1>4, <1>6
  <1> QED BY <1>7

\* A leaf as it is written: its text, or that escaped and quoted.
Quoted(f, s) == (<<Quote(f)>> \o Escape(f, s)) \o <<Quote(f)>>

LEMMA LiteralIs ==
  ASSUME NEW f \in Formats, NEW l, l.text \in Seq(Alphabet)
  PROVE  /\ Literal(f, l) = IF l.string /\ f \in Quoting THEN Quoted(f, l.text) ELSE l.text
         /\ Literal(f, l) \in Seq(Alphabet)
         /\ \A o : Without(o, Literal(f, l)) => Without(o, l.text)
  <1>1. Literal(f, l) = IF l.string /\ f \in Quoting THEN Quoted(f, l.text) ELSE l.text
    BY DEF Literal, Quoted
  <1>2. PICK q, m \in Seq(Alphabet) : q = <<Quote(f)>> /\ m = Escape(f, l.text)
    BY SpecialFacts, One, EscapeIs
  <1>3. Quoted(f, l.text) = (q \o m) \o q
    BY <1>2 DEF Quoted
  <1>4. q \o m \in Seq(Alphabet) /\ (q \o m) \o q \in Seq(Alphabet)
    OBVIOUS
  <1>5. ASSUME NEW o, Without(o, (q \o m) \o q) PROVE Without(o, l.text)
    <2>1. Without(o, q \o m)
      BY <1>4, <1>5, WithoutParts
    <2>2. Without(o, m)
      BY <2>1, WithoutParts
    <2> QED BY <1>2, <2>2, EscapeWithout
  <1> QED BY <1>1, <1>3, <1>4, <1>5

\* If the text of a leaf reads as another, so does the leaf as it is written.
LEMMA LiteralReads ==
  ASSUME NEW f \in Formats, NEW P, Book(Alphabet, "[", "]", P), Unescaped(f, P),
         NEW r, NEW l, r.string = l.string, Reads(Alphabet, "[", P, r.text, l.text)
  PROVE  Reads(Alphabet, "[", P, Literal(f, r), Literal(f, l))
  <1>0. r.text \in Seq(Alphabet) /\ l.text \in Seq(Alphabet)
    BY DEF Reads
  <1>1. CASE ~(l.string /\ f \in Quoting)
    BY <1>0, <1>1, LiteralIs
  <1>2. CASE l.string /\ f \in Quoting
    <2>1. Literal(f, r) = Quoted(f, r.text) /\ Literal(f, l) = Quoted(f, l.text)
      BY <1>0, <1>2, LiteralIs
    <2>2. PICK q \in Seq(Alphabet) : q = <<Quote(f)>> /\ Len(q) = 1 /\ q[1] # "["
      BY SpecialFacts, One
    <2>3. Without("[", q)
      <3>1. \A i \in 1..Len(q) : i = 1
        BY <2>2
      <3> QED BY <2>2, <3>1 DEF Without
    <2>4. Reads(Alphabet, "[", P, q, q)
      BY <2>3, ReadsPlain
    <2>5. Reads(Alphabet, "[", P, Escape(f, r.text), Escape(f, l.text))
      BY EscapeReads
    <2>6. Reads(Alphabet, "[", P, q \o Escape(f, r.text), q \o Escape(f, l.text))
      BY <2>4, <2>5, ReadsJoin
    <2>7. Reads(Alphabet, "[", P, (q \o Escape(f, r.text)) \o q,
                                  (q \o Escape(f, l.text)) \o q)
      BY <2>4, <2>6, ReadsJoin
    <2> QED BY <2>1, <2>2, <2>7 DEF Quoted
  <1> QED BY <1>1, <1>2

---------------------------------------------------------------------------
\* A document with other texts in its leaves.
Fills(d, texts) ==
    \A i \in 1..Len(d.leaves) : texts[i] \in Seq(Alphabet)
Parts(d, texts) ==
    [i \in 1..Len(d.leaves) |-> RenderLeaf(d.format, d.leaves[i].field, texts[i])]
Begin(d) == IF d.format = "freetext" THEN <<>> ELSE <<d.format>>

\* A document is its beginning and its leaves put together.
LEMMA WithTextsParts ==
  ASSUME NEW d \in Docs, NEW texts, Fills(d, texts)
  PROVE  /\ WithTexts(d, texts) = Begin(d) \o FlattenSeq(Parts(d, texts))
         /\ Parts(d, texts) \in Seq(Seq(Alphabet)) /\ Len(Parts(d, texts)) = Len(d.leaves)
         /\ Begin(d) \in Seq(Alphabet) /\ FlattenSeq(Parts(d, texts)) \in Seq(Alphabet)
         /\ \A i \in 1..Len(d.leaves) :
               Parts(d, texts)[i] = RenderLeaf(d.format, d.leaves[i].field, texts[i])
  <1>0. Len(d.leaves) \in Nat /\ d.format \in Alphabet
    BY DocFacts, Letters
  <1>1. WithTexts(d, texts) = Begin(d) \o FlattenSeq(Parts(d, texts))
    BY DEF WithTexts, Begin, Parts
  <1>2. \A i \in 1..Len(d.leaves) :
           RenderLeaf(d.format, d.leaves[i].field, texts[i]) \in Seq(Alphabet)
    BY LeafFacts, RenderLeafType DEF Fills
  <1>3. Parts(d, texts) \in Seq(Seq(Alphabet)) /\ Len(Parts(d, texts)) = Len(d.leaves)
    BY <1>0, <1>2 DEF Parts
  <1>4. Begin(d) \in Seq(Alphabet)
    <2>1. CASE d.format = "freetext"
      BY <2>1, EmptySeq DEF Begin
    <2>2. CASE d.format # "freetext"
      BY <1>0, <2>2 DEF Begin
    <2> QED BY <2>1, <2>2
  <1>5. FlattenSeq(Parts(d, texts)) \in Seq(Alphabet)
    BY <1>3, FlattenType
  <1>6. \A i \in 1..Len(d.leaves) :
           Parts(d, texts)[i] = RenderLeaf(d.format, d.leaves[i].field, texts[i])
    BY DEF Parts
  <1> QED BY <1>1, <1>3, <1>4, <1>5, <1>6

\* A document with other texts is a text, not empty unless it is prose.
LEMMA WithTextsType ==
  ASSUME NEW d \in Docs, NEW texts, Fills(d, texts)
  PROVE  /\ WithTexts(d, texts) \in Seq(Alphabet)
         /\ d.format # "freetext" => WithTexts(d, texts) # <<>>
  <1>1. PICK b, s \in Seq(Alphabet) :
           b = Begin(d) /\ s = FlattenSeq(Parts(d, texts)) /\ WithTexts(d, texts) = b \o s
    BY WithTextsParts
  <1>2. d.format # "freetext" => Len(b) = 1
    BY <1>1 DEF Begin
  <1>3. Len(b) = 1 => Len(b \o s) # 0
    OBVIOUS
  <1>4. b \o s \in Seq(Alphabet)
    OBVIOUS
  <1>5. b \o s = <<>> => Len(b \o s) = 0
    BY EmptySeq
  <1> QED BY <1>1, <1>2, <1>3, <1>4, <1>5

\* What stands in one of the texts stands in the document.
LEMMA WithTextsOccurs ==
  ASSUME NEW d \in Docs, NEW texts, Fills(d, texts), NEW i \in 1..Len(d.leaves),
         NEW w \in Seq(Alphabet), Occurs(w, texts[i])
  PROVE  Occurs(w, WithTexts(d, texts))
  <1>1. PICK ps : ps = Parts(d, texts)
    OBVIOUS
  <1>2. Occurs(w, RenderLeaf(d.format, d.leaves[i].field, texts[i]))
    BY LeafFacts, RenderLeafOccurs DEF Fills
  <1>3. ps \in Seq(Seq(Alphabet)) /\ i \in 1..Len(ps) /\ Occurs(w, ps[i])
    BY <1>1, <1>2, WithTextsParts
  <1>4. Occurs(w, FlattenSeq(ps))
    BY <1>3, FlattenOccurs
  <1>5. PICK b, s \in Seq(Alphabet) :
           b = Begin(d) /\ s = FlattenSeq(ps) /\ WithTexts(d, texts) = b \o s
    BY <1>1, WithTextsParts
  <1> QED BY <1>4, <1>5, OccursSecond

\* A symbol that is not in the document is in none of its texts.
LEMMA WithTextsWithout ==
  ASSUME NEW d \in Docs, NEW texts, Fills(d, texts), NEW o, Without(o, WithTexts(d, texts))
  PROVE  /\ Without(o, Begin(d))
         /\ \A i \in 1..Len(d.leaves) :
               /\ Without(o, RenderLeaf(d.format, d.leaves[i].field, texts[i]))
               /\ Without(o, texts[i])
  <1>1. PICK ps : ps = Parts(d, texts)
    OBVIOUS
  <1>b. PICK b, s \in Seq(Alphabet) :
           b = Begin(d) /\ s = FlattenSeq(ps) /\ WithTexts(d, texts) = b \o s
    BY <1>1, WithTextsParts
  <1>2. Without(o, Begin(d)) /\ Without(o, FlattenSeq(ps))
    BY <1>b, WithoutParts
  <1>3. \A i \in 1..Len(d.leaves) :
           Without(o, RenderLeaf(d.format, d.leaves[i].field, texts[i]))
    BY <1>1, <1>2, WithTextsParts, FlattenWithout
  <1>4. ASSUME NEW i \in 1..Len(d.leaves) PROVE Without(o, texts[i])
    BY <1>3, LeafFacts, RenderLeafWithout DEF Fills
  <1> QED BY <1>2, <1>3, <1>4

\* If the texts read as others, the document reads as one with those.
LEMMA WithTextsReads ==
  ASSUME NEW d \in Docs, NEW texts, Fills(d, texts), NEW plain, Fills(d, plain),
         NEW o, NEW c, NEW P, Book(Alphabet, o, c, P), Without(o, WithTexts(d, plain)),
         \A i \in 1..Len(d.leaves) : Reads(Alphabet, o, P, texts[i], plain[i])
  PROVE  Reads(Alphabet, o, P, WithTexts(d, texts), WithTexts(d, plain))
  <1>1. PICK ps, qs \in Seq(Seq(Alphabet)) : ps = Parts(d, texts) /\ qs = Parts(d, plain)
    BY WithTextsParts
  <1>2. Len(ps) = Len(qs) /\ Len(qs) = Len(d.leaves)
    BY <1>1, WithTextsParts
  <1>3. ASSUME NEW i \in 1..Len(qs) PROVE Reads(Alphabet, o, P, ps[i], qs[i])
    <2>1. i \in 1..Len(d.leaves)
      BY <1>2
    <2>2. Reads(Alphabet, o, P, RenderLeaf(d.format, d.leaves[i].field, texts[i]),
                                RenderLeaf(d.format, d.leaves[i].field, plain[i]))
      BY <2>1, LeafFacts, WithTextsWithout, RenderLeafReads
    <2> QED BY <1>1, <2>1, <2>2, WithTextsParts
  <1>4. Reads(Alphabet, o, P, FlattenSeq(ps), FlattenSeq(qs))
    BY <1>2, <1>3, FlattenReads
  <1>5. Reads(Alphabet, o, P, Begin(d), Begin(d))
    BY WithTextsParts, WithTextsWithout, ReadsPlain
  <1>6. Reads(Alphabet, o, P, Begin(d) \o FlattenSeq(ps), Begin(d) \o FlattenSeq(qs))
    BY <1>4, <1>5, ReadsJoin
  <1> QED BY <1>1, <1>6, WithTextsParts

\* A document as it is.
AsIs(d) == [i \in 1..Len(d.leaves) |-> Literal(d.format, d.leaves[i])]

\* A document as it is.
LEMMA RenderIs ==
  ASSUME NEW d \in Docs
  PROVE  /\ Render(d) = WithTexts(d, AsIs(d)) /\ Fills(d, AsIs(d))
         /\ \A i \in 1..Len(d.leaves) :
               /\ AsIs(d)[i] = Literal(d.format, d.leaves[i])
               /\ d.format = "freetext" => AsIs(d)[i] = d.leaves[i].text
         /\ Render(d) \in Seq(Alphabet)
         /\ d.format # "freetext" => Render(d) # <<>>
  <1>1. Fills(d, AsIs(d))
    BY DocFacts, LeafFacts, LiteralIs DEF Fills, AsIs
  <1>2. Render(d) = WithTexts(d, AsIs(d))
    BY DEF Render, AsIs
  <1>3. \A i \in 1..Len(d.leaves) : AsIs(d)[i] = Literal(d.format, d.leaves[i])
    BY DEF AsIs
  <1>4. "freetext" \notin Quoting
    BY DEF Quoting
  <1>5. d.format = "freetext" =>
           \A i \in 1..Len(d.leaves) : AsIs(d)[i] = d.leaves[i].text
    BY <1>3, <1>4 DEF Literal
  <1> QED BY <1>1, <1>2, <1>3, <1>5, WithTextsType

\* The same texts give the same document.
LEMMA WithSameTexts ==
  ASSUME NEW d, NEW f, NEW g, \A i \in 1..Len(d.leaves) : f[i] = g[i]
  PROVE  WithTexts(d, f) = WithTexts(d, g)
  <1>1. Parts(d, f) = Parts(d, g)
    BY DEF Parts
  <1> QED BY <1>1 DEF WithTexts, Parts

---------------------------------------------------------------------------
(* What is found in a text. *)

Wanted == [rank : Nat, value : Seq(Alphabet), label : AllLabels]

\* A text of the constants is one of the alphabet.
LEMMA TextsInside == Texts \subseteq Seq(Alphabet)
  <1>1. STRING \cup {None} \subseteq Alphabet
    BY DEF Alphabet
  <1> QED BY <1>1 DEF Texts

\* What AnonymizerAssumption says of a word.
LEMMA WordFacts ==
  ASSUME NEW w \in Patterns \cup Entities
  PROVE  w.text \in Seq(Alphabet) /\ w.text # <<>> /\ w.label \in AllLabels
  <1>1. w \in [text : Texts \ {<<>>}, label : AllLabels]
    BY AnonymizerAssumption DEF WordsAssumption
  <1> QED BY <1>1, TextsInside

\* A request with another rank asks for the same.
LEMMA AfterFacts ==
  ASSUME NEW q \in Wanted, NEW n \in Nat
  PROVE  After(q, n) \in Wanted /\ After(q, n).value = q.value /\ After(q, n).label = q.label
  BY DEF Wanted, After

\* What is found is a request, for a text that is not blank.
LEMMA HitsType ==
  ASSUME NEW words, words \subseteq Patterns \cup Entities, NEW s \in Seq(Alphabet)
  PROVE  \A q \in Hits(words, s) : q \in Wanted /\ q.value # <<>>
  <1> SUFFICES ASSUME NEW q \in Hits(words, s) PROVE q \in Wanted /\ q.value # <<>>
    OBVIOUS
  <1>1. PICK w \in words : q \in {[rank |-> i, value |-> w.text, label |-> w.label] :
                                     i \in Positions(w.text, s)}
    BY DEF Hits
  <1>2. PICK i \in Positions(w.text, s) : q = [rank |-> i, value |-> w.text, label |-> w.label]
    BY <1>1
  <1>3. i \in Nat
    BY DEF Positions
  <1>4. w.text \in Seq(Alphabet) /\ w.text # <<>> /\ w.label \in AllLabels
    BY WordFacts
  <1> QED BY <1>2, <1>3, <1>4 DEF Wanted

\* An active word that stands in a text is found there.
LEMMA HitsFound ==
  ASSUME NEW words, NEW w \in words, w.label \in Config.active, NEW s, Occurs(w.text, s)
  PROVE  \E q \in Hits(words, s) : q.value = w.text
  <1>1. PICK i : i \in Positions(w.text, s)
    BY DEF Occurs
  <1>2. PICK q : q = [rank |-> i, value |-> w.text, label |-> w.label]
    OBVIOUS
  <1>3. q \in {[rank |-> j, value |-> w.text, label |-> w.label] : j \in Positions(w.text, s)}
    BY <1>1, <1>2
  <1>4. w \in {v \in words : v.label \in Config.active}
    OBVIOUS
  <1>5. q \in Hits(words, s)
    BY <1>3, <1>4 DEF Hits
  <1> QED BY <1>2, <1>5

\* What presidio gives are requests.
LEMMA PresidioType ==
  ASSUME NEW s \in Seq(Alphabet)
  PROVE  \A q \in Presidio(s) : q \in Wanted /\ q.value # <<>>
  BY HitsType DEF Presidio

\* What the detectors give together are requests.
LEMMA DetectType ==
  ASSUME NEW s \in Seq(Alphabet)
  PROVE  \A q \in Detect(s) : q \in Wanted /\ q.value # <<>>
  <1> SUFFICES ASSUME NEW q \in Detect(s) PROVE q \in Wanted /\ q.value # <<>>
    OBVIOUS
  <1>1. PICK found : found = IF Config.gliner THEN Hits(Entities, s) ELSE {}
    OBVIOUS
  <1>2. \A g \in found : g \in Wanted /\ g.value # <<>>
    BY <1>1, HitsType
  <1>3. q \in Merge(Presidio(s), found, Len(s))
    BY <1>1 DEF Detect
  <1>4. q \in Presidio(s) \/ \E g \in found : q = After(g, Len(s))
    BY <1>3 DEF Merge
  <1>5. CASE q \in Presidio(s)
    BY <1>5, PresidioType
  <1>6. CASE \E g \in found : q = After(g, Len(s))
    <2>1. PICK g \in found : q = After(g, Len(s))
      BY <1>6
    <2>2. Len(s) \in Nat
      OBVIOUS
    <2>3. g \in Wanted /\ g.value # <<>>
      BY <1>2
    <2>4. After(g, Len(s)) \in Wanted /\ After(g, Len(s)).value = g.value
      BY <2>2, <2>3, AfterFacts
    <2> QED BY <2>1, <2>3, <2>4
  <1> QED BY <1>4, <1>5, <1>6

\* A word the detectors know is found wherever it stands.
LEMMA SearchedWord ==
  ASSUME NEW labelled, NEW w \in Searched(labelled)
  PROVE  /\ w \in Seq(Alphabet) /\ w # <<>>
         /\ \E p \in Patterns \cup Entities :
               /\ p.text = w /\ p.label \in Config.active
               /\ \/ Config.presidio /\ p \in Patterns
                  \/ Config.gliner /\ ~labelled /\ p \in Entities
  <1>1. PICK words : words = (IF Config.presidio THEN Patterns ELSE {})
                             \cup (IF Config.gliner /\ ~labelled THEN Entities ELSE {})
    OBVIOUS
  <1>2. PICK p \in words : p.text = w /\ p.label \in Config.active
    BY <1>1 DEF Searched, Known
  <1>3. p \in Patterns \cup Entities
    BY <1>1
  <1> QED BY <1>1, <1>2, <1>3, WordFacts

\* Presidio finds the words searched for in a labelled column.
LEMMA SearchedPresidio ==
  ASSUME NEW s, NEW w \in Searched(TRUE), Occurs(w, s)
  PROVE  \E q \in Presidio(s) : q.value = w
  <1>1. PICK p \in Patterns : p.text = w /\ p.label \in Config.active /\ Config.presidio
    BY SearchedWord
  <1>2. PICK q \in Hits(Patterns, s) : q.value = p.text
    BY <1>1, HitsFound
  <1> QED BY <1>1, <1>2 DEF Presidio

\* The detectors find the words searched for anywhere else.
LEMMA SearchedDetect ==
  ASSUME NEW s \in Seq(Alphabet), NEW w \in Searched(FALSE), Occurs(w, s)
  PROVE  \E q \in Detect(s) : q.value = w
  <1>1. PICK found : found = IF Config.gliner THEN Hits(Entities, s) ELSE {}
    OBVIOUS
  <1>2. Detect(s) = Merge(Presidio(s), found, Len(s))
    BY <1>1 DEF Detect
  <1>3. PICK p \in Patterns \cup Entities :
           /\ p.text = w /\ p.label \in Config.active
           /\ (Config.presidio /\ p \in Patterns) \/ (Config.gliner /\ p \in Entities)
    BY SearchedWord
  <1>4. CASE Config.presidio /\ p \in Patterns
    <2>1. PICK q \in Hits(Patterns, s) : q.value = p.text
      BY <1>3, <1>4, HitsFound
    <2>2. q \in Presidio(s)
      BY <1>4 DEF Presidio
    <2> QED BY <1>2, <1>3, <2>1, <2>2 DEF Merge
  <1>5. CASE Config.gliner /\ p \in Entities
    <2>1. PICK q \in Hits(Entities, s) : q.value = p.text
      BY <1>3, <1>5, HitsFound
    <2>2. q \in found /\ q \in Wanted
      BY <1>1, <1>5, HitsType
    <2>3. CASE \A h \in Presidio(s) : q.rank # h.rank \/ q.value # h.value
      <3>1. After(q, Len(s)) \in Detect(s)
        BY <1>2, <2>2, <2>3 DEF Merge
      <3> QED BY <1>3, <2>1, <2>2, <3>1, AfterFacts
    <2>4. CASE \E h \in Presidio(s) : q.rank = h.rank /\ q.value = h.value
      BY <1>2, <1>3, <2>1, <2>4 DEF Merge
    <2> QED BY <2>3, <2>4
  <1> QED BY <1>3, <1>4, <1>5

---------------------------------------------------------------------------
(* The label of a column is one of the rows'. *)

\* The most alike of some headers is one of them.
LEMMA FuzzyKnown ==
  ASSUME NEW header, NEW known, \A k \in known : Score(header, k) \in 0..100,
         Fuzzy(header, known) # None
  PROVE  Fuzzy(header, known) \in known
  <1> DEFINE Best == {h \in known : \A k \in known : Score(header, k) <= Score(header, h)}
             best == CHOOSE h \in Best : TRUE
  <1>1. known # {} /\ Fuzzy(header, known) = best
    BY DEF Fuzzy
  <1>2. Best # {}
    <2>1. PICK far : far = {100 - Score(header, k) : k \in known}
      OBVIOUS
    <2>2. far \subseteq Nat /\ far # {}
      BY <1>1, <2>1
    <2>3. PICK n \in far : \A m \in far : n <= m
      BY <2>2, Minimum
    <2>4. PICK h \in known : n = 100 - Score(header, h)
      BY <2>1, <2>3
    <2>5. ASSUME NEW k \in known PROVE Score(header, k) <= Score(header, h)
      <3>1. 100 - Score(header, k) \in far
        BY <2>1
      <3> QED BY <2>3, <2>4, <3>1
    <2> QED BY <2>5
  <1>3. best \in Best
    BY <1>2
  <1> HIDE DEF best
  <1> QED BY <1>1, <1>3

\* The most sensitive label is a label of the rows.
LEMMA MostSensitiveLabel ==
  ASSUME NEW rows \in Seq(Rows), NEW I, I \subseteq DOMAIN rows, I # {}
  PROVE  MostSensitive(rows, I) \in AllLabels \cup {"", None}
  <1>1. DOMAIN rows \subseteq Nat /\ I \subseteq Nat
    OBVIOUS
  <1>2. PICK i : Decides(rows, I, i) /\ MostSensitive(rows, I) = rows[i].label
    BY <1>1, MostSensitiveOf
  <1>3. i \in DOMAIN rows
    BY <1>2 DEF Decides
  <1>4. rows[i] \in Rows
    BY <1>3
  <1> QED BY <1>2, <1>4 DEF Rows

\* The label of a column is one of AllLabels, empty or none.
LEMMA LookupLabel ==
  ASSUME NEW rows \in Seq(Rows), NEW header, NEW db, NEW table,
         \A i \in 1..Len(rows) : Score(header, rows[i].header) \in 0..100
  PROVE  Lookup(rows, header, db, table)[1] \in AllLabels \cup {"", None}
  <1> DEFINE active == {i \in DOMAIN rows : rows[i].status = "active"}
             At(n) == {i \in active : /\ rows[i].header = header
                                      /\ rows[i].db = Levels(db, table)[n].db
                                      /\ rows[i].table = Levels(db, table)[n].table}
             hits == {n \in Allowed(db, table) : At(n) # {}}
             known == {rows[i].header : i \in active}
             like == Fuzzy(header, known)
             found == CASE hits # {} ->
                        <<MostSensitive(rows, At(First(hits))),
                          Levels(db, table)[First(hits)].name>>
                   [] hits = {} /\ like # None ->
                        <<MostSensitive(rows, {i \in active : rows[i].header = like}), "fuzzy">>
                   [] OTHER -> <<None, "none">>
  <1>0. Lookup(rows, header, db, table) = found
    BY DEF Lookup
  <1>1. CASE hits # {}
    <2>1. found[1] = MostSensitive(rows, At(First(hits)))
      BY <1>1
    <2>2. First(hits) \in hits
      <3>1. hits \subseteq Nat
        BY DEF Allowed
      <3> QED BY <1>1, <3>1, FirstOf
    <2>3. At(First(hits)) \subseteq DOMAIN rows /\ At(First(hits)) # {}
      BY <2>2
    <2> QED BY <1>0, <2>1, <2>3, MostSensitiveLabel
  <1>2. CASE hits = {} /\ like # None
    <2> DEFINE J == {i \in active : rows[i].header = like}
    <2>1. found[1] = MostSensitive(rows, J)
      BY <1>2
    <2>2. ASSUME NEW k \in known PROVE Score(header, k) \in 0..100
      <3>1. PICK i \in active : k = rows[i].header
        OBVIOUS
      <3>2. i \in 1..Len(rows)
        OBVIOUS
      <3> QED BY <3>1, <3>2
    <2>3. like \in known
      BY <1>2, <2>2, FuzzyKnown
    <2>4. J \subseteq DOMAIN rows /\ J # {}
      BY <2>3
    <2> QED BY <1>0, <2>1, <2>4, MostSensitiveLabel
  <1>3. CASE hits = {} /\ like = None
    <2>1. found = <<None, "none">>
      BY <1>3
    <2> HIDE DEF found
    <2> QED BY <1>0, <2>1
  <1> QED BY <1>1, <1>2, <1>3

---------------------------------------------------------------------------
(* What a call asks tokens for. *)

\* Values of which one may be blank: the literals of SQL.
Literals(d) == d.format = "sql" /\ ~AsWhole(d)

\* Where the values and the nested documents of a document are.
LEMMA PairFacts ==
  ASSUME NEW d \in Docs
  PROVE  /\ Pairs(d) \subseteq 1..Len(d.leaves) /\ Nests(d) \subseteq 1..Len(d.leaves)
         /\ \A i \in Nests(d) : d.leaves[i].inner # None
         /\ d.format # "freetext" => Nests(d) \subseteq Pairs(d)
         /\ d.format = "freetext" => Pairs(d) = {}
         /\ d.format # "sql" => \A i \in Pairs(d) : d.leaves[i].text # <<>>
         /\ d.format = "json" => \A i \in Pairs(d) : d.leaves[i].string
         /\ d.format \in Formats
  <1>1. Pairs(d) \subseteq 1..Len(d.leaves) /\ Nests(d) \subseteq 1..Len(d.leaves)
    BY DEF Pairs, Nests
  <1>2. \A i \in Nests(d) : d.leaves[i].inner # None
    BY DEF Nests
  <1>3. d.format # "freetext" => Nests(d) \subseteq Pairs(d)
    BY DEF Nests
  <1>4. d.format = "freetext" => Pairs(d) = {}
    BY DEF Pairs, IsPair
  <1>5. d.format # "sql" => \A i \in Pairs(d) : d.leaves[i].text # <<>>
    BY DEF Pairs, IsPair, FlattenJson, FlattenXml, ExtractCells
  <1>6. d.format = "json" => \A i \in Pairs(d) : d.leaves[i].string
    BY DEF Pairs, IsPair, FlattenJson
  <1> QED BY <1>1, <1>2, <1>3, <1>4, <1>5, <1>6, DocFacts

\* A frame or an answer x: its document, and what the documents in it gave,
\* which are answers of E.
Gave(d, i, e, E) ==
    /\ e \in E /\ e.doc = d.leaves[i].inner
    /\ d.format = "freetext" \/ e.doc.format \in {"json", "xml"}
Built(x, E) ==
    /\ x.doc \in Docs /\ DOMAIN x.got \subseteq Nests(x.doc)
    /\ \A i \in DOMAIN x.got : Gave(x.doc, i, x.got[i], E)
Written(E) == \A e \in E : e.text \in Seq(Alphabet)

\* The texts of the leaves that OwnText puts together.
Mine(x) ==
    [i \in 1..Len(x.doc.leaves) |->
        IF x.doc.format = "freetext" /\ i \in DOMAIN x.got
        THEN x.got[i].text ELSE Literal(x.doc.format, x.doc.leaves[i])]

\* Prose is written as it is.
LEMMA ProseLiteral == \A l : Literal("freetext", l) = l.text
  <1>1. "freetext" \notin Quoting
    BY DEF Quoting
  <1> QED BY <1>1 DEF Literal

\* The own text of a frame or an answer.
LEMMA OwnTextIs ==
  ASSUME NEW x, NEW E, Built(x, E), Written(E)
  PROVE  /\ OwnText(x) = WithTexts(x.doc, Mine(x)) /\ Fills(x.doc, Mine(x))
         /\ OwnText(x) \in Seq(Alphabet)
         /\ x.doc.format # "freetext" => OwnText(x) # <<>> /\ OwnText(x) = Render(x.doc)
         /\ \A i \in 1..Len(x.doc.leaves) :
               Mine(x)[i] = IF x.doc.format = "freetext" /\ i \in DOMAIN x.got
                            THEN x.got[i].text ELSE Literal(x.doc.format, x.doc.leaves[i])
  <1>0. x.doc \in Docs
    BY DEF Built
  <1>1. \A i \in 1..Len(x.doc.leaves) :
           Mine(x)[i] = IF x.doc.format = "freetext" /\ i \in DOMAIN x.got
                        THEN x.got[i].text ELSE Literal(x.doc.format, x.doc.leaves[i])
    BY DEF Mine
  <1>2. \A i \in DOMAIN x.got : x.got[i].text \in Seq(Alphabet)
    BY DEF Built, Gave, Written
  <1>3. Fills(x.doc, Mine(x))
    BY <1>0, <1>1, <1>2, DocFacts, LeafFacts, LiteralIs DEF Fills
  <1>4. OwnText(x) = WithTexts(x.doc, Mine(x))
    <2>1. CASE x.doc.format = "freetext"
      <3> DEFINE f == [i \in 1..Len(x.doc.leaves) |->
                         IF i \in DOMAIN x.got THEN x.got[i].text ELSE x.doc.leaves[i].text]
      <3>1. OwnText(x) = WithTexts(x.doc, f)
        BY <2>1 DEF OwnText
      <3>2. \A i \in 1..Len(x.doc.leaves) : f[i] = Mine(x)[i]
        BY <1>1, <2>1, ProseLiteral
      <3> HIDE DEF f
      <3> QED BY <3>1, <3>2, WithSameTexts
    <2>2. CASE x.doc.format # "freetext"
      <3>1. \A i \in 1..Len(x.doc.leaves) : AsIs(x.doc)[i] = Mine(x)[i]
        BY <1>0, <1>1, <2>2, RenderIs
      <3>2. WithTexts(x.doc, AsIs(x.doc)) = WithTexts(x.doc, Mine(x))
        BY <3>1, WithSameTexts
      <3> QED BY <1>0, <2>2, <3>2, RenderIs DEF OwnText
    <2> QED BY <2>1, <2>2
  <1>5. x.doc.format # "freetext" => OwnText(x) = Render(x.doc)
    BY DEF OwnText
  <1> QED BY <1>0, <1>1, <1>3, <1>4, <1>5, WithTextsType

\* The values of a column put together.
Bar == <<"|">>
Cells(d, I) ==
    [i \in 1..Len(d.leaves) |->
        IF i \in I THEN (Lead(Field(d.leaves[i])) \o d.leaves[i].text) \o Bar ELSE <<>>]

\* The values of a column put together are a text.
LEMMA AugmentedIs ==
  ASSUME NEW d \in Docs, NEW I
  PROVE  /\ Augmented(d, I) = FlattenSeq(Cells(d, I))
         /\ Cells(d, I) \in Seq(Seq(Alphabet)) /\ Len(Cells(d, I)) = Len(d.leaves)
         /\ Augmented(d, I) \in Seq(Alphabet)
  <1>1. Augmented(d, I) = FlattenSeq(Cells(d, I))
    BY DEF Augmented, Cells, Lead, Bar
  <1>2. ASSUME NEW i \in 1..Len(d.leaves)
        PROVE  (Lead(Field(d.leaves[i])) \o d.leaves[i].text) \o Bar \in Seq(Alphabet)
    <2>1. /\ Lead(Field(d.leaves[i])) \in Seq(Alphabet) /\ d.leaves[i].text \in Seq(Alphabet)
      BY LeafFacts, Around
    <2>2. Bar \in Seq(Alphabet)
      BY Letters, Short DEF Bar
    <2> QED BY <2>1, <2>2, ConcatProperties, Zenon
  <1>3. <<>> \in Seq(Alphabet) /\ Len(d.leaves) \in Nat
    BY EmptySeq, DocFacts
  <1>4. Cells(d, I) \in Seq(Seq(Alphabet)) /\ Len(Cells(d, I)) = Len(d.leaves)
    BY <1>2, <1>3 DEF Cells
  <1> QED BY <1>1, <1>4, FlattenType

\* A word of a value stands in them.
LEMMA AugmentedOccurs ==
  ASSUME NEW d \in Docs, NEW I, NEW i \in 1..Len(d.leaves), i \in I,
         NEW w \in Seq(Alphabet), Occurs(w, d.leaves[i].text)
  PROVE  Occurs(w, Augmented(d, I))
  <1>1. /\ Lead(Field(d.leaves[i])) \in Seq(Alphabet) /\ d.leaves[i].text \in Seq(Alphabet)
        /\ Bar \in Seq(Alphabet)
    BY LeafFacts, Around, Letters, Short DEF Bar
  <1>2. PICK s : s = Lead(Field(d.leaves[i])) \o d.leaves[i].text /\ s \in Seq(Alphabet)
    BY <1>1, ConcatProperties, Zenon
  <1>3. Occurs(w, s)
    BY <1>1, <1>2, OccursSecond
  <1>4. Occurs(w, s \o Bar)
    BY <1>1, <1>2, <1>3, OccursFirst
  <1>5. PICK ss : ss = Cells(d, I)
    OBVIOUS
  <1>6. ss[i] = s \o Bar
    BY <1>2, <1>5 DEF Cells
  <1>7. ss \in Seq(Seq(Alphabet)) /\ i \in 1..Len(ss) /\ Augmented(d, I) = FlattenSeq(ss)
    BY <1>5, AugmentedIs
  <1> QED BY <1>4, <1>6, <1>7, FlattenOccurs

---------------------------------------------------------------------------
\* The call is one of Calls.
CallOK ==
    [doc |-> doc, context |-> context, kb |-> kb, verdict |-> verdict] \in Calls

\* What is known of the call.
LEMMA CallFacts ==
  ASSUME CallOK
  PROVE  /\ doc \in Docs
         /\ \A f \in FieldNames : /\ kb[f] \in Seq(Rows)
                                  /\ verdict[f] \in AllLabels \cup {None}
                                  /\ \A db, table : Lookup(kb[f], f, db, table)[1]
                                                        \in AllLabels \cup {"", None}
  <1>1. PICK c \in Calls : c.doc = doc /\ c.kb = kb /\ c.verdict = verdict
    BY DEF CallOK
  <1>2. /\ c \in [doc : Docs,
                 context : [db : STRING \cup {None}, table : STRING \cup {None}],
                 kb : [FieldNames -> Seq(Rows)],
                 verdict : [FieldNames -> AllLabels \cup {None}]]
        /\ \A f, g \in FieldNames : \A i \in 1..Len(c.kb[g]) :
              Score(f, c.kb[g][i].header) \in 0..100
    BY AnonymizerAssumption DEF CallsAssumption
  <1>3. doc \in Docs /\ kb \in [FieldNames -> Seq(Rows)]
        /\ verdict \in [FieldNames -> AllLabels \cup {None}]
    BY <1>1, <1>2
  <1>4. ASSUME NEW f \in FieldNames, NEW db, NEW table
        PROVE  Lookup(kb[f], f, db, table)[1] \in AllLabels \cup {"", None}
    <2>1. PICK rows \in Seq(Rows) : rows = kb[f]
      BY <1>3
    <2>2. \A i \in 1..Len(rows) : Score(f, rows[i].header) \in 0..100
      BY <1>1, <1>2, <2>1
    <2> QED BY <2>1, <2>2, LookupLabel
  <1> QED BY <1>3, <1>4

\* The columns of what is left as plain values.
LEMMA ColumnFacts ==
  ASSUME NEW x, x.doc \in Docs
  PROVE  /\ AsWhole(x.doc) => Columns(x) = {0}
         /\ \A i \in Columns(x) : i \in Nat /\ (i = 0 <=> AsWhole(x.doc))
         /\ ~AsWhole(x.doc) => /\ Columns(x) \subseteq Scalars(x)
                               /\ Scalars(x) \subseteq 1..Len(x.doc.leaves)
                               /\ Scalars(x) \subseteq Pairs(x.doc)
  <1>1. Scalars(x) \subseteq Pairs(x.doc) /\ Pairs(x.doc) \subseteq 1..Len(x.doc.leaves)
    BY PairFacts DEF Scalars
  <1> QED BY <1>1 DEF Columns

\* A value asked for is of the right type, and blank in SQL alone.
Right(d, q) == q \in Wanted /\ (q.value = <<>> => Literals(d))

\* Requests that take their label from the column.
LEMMA WithType ==
  ASSUME NEW d \in Docs, NEW I, I \subseteq Pairs(d), NEW label \in AllLabels
  PROVE  \A q \in With(d, I, label) : Right(d, q)
  <1> SUFFICES ASSUME NEW q \in With(d, I, label) PROVE Right(d, q)
    OBVIOUS
  <1>1. PICK i \in I : q = [rank |-> i, value |-> d.leaves[i].text, label |-> label]
    BY DEF With
  <1>2. i \in 1..Len(d.leaves) /\ i \in Nat /\ i \in Pairs(d)
    BY PairFacts
  <1>3. d.leaves[i].text \in Seq(Alphabet)
    BY <1>2, LeafFacts
  <1>4. q \in Wanted
    BY <1>1, <1>2, <1>3 DEF Wanted
  <1>5. q.value = <<>> => d.format = "sql"
    BY <1>1, <1>2, PairFacts
  <1>6. ~AsWhole(d)
    BY <1>2 DEF AsWhole
  <1> QED BY <1>4, <1>5, <1>6 DEF Right, Literals

\* Every request is for a value that may be a key, with a label.
LEMMA RequestType ==
  ASSUME CallOK, NEW x, NEW E, Built(x, E), Written(E), NEW i \in Columns(x),
         NEW q \in Requests(x, i)
  PROVE  Right(x.doc, q)
  <1>0. x.doc \in Docs
    BY DEF Built
  <1>1. CASE i = 0
    <2>1. q \in Detect(OwnText(x))
      BY <1>1 DEF Requests
    <2> QED BY <2>1, OwnTextIs, DetectType DEF Right
  <1>2. CASE i # 0
    <2> DEFINE d == x.doc
               I == SameField(x, i)
               f == Field(d.leaves[i])
               header == Lookup(kb[f], f, Context.db, Context.table)
               aug == Augmented(d, I)
    <2>0. d \in Docs
      BY <1>0
    <2>1. i \in 1..Len(d.leaves) /\ I \subseteq Pairs(d) /\ I \subseteq 1..Len(d.leaves)
      BY <1>0, <1>2, ColumnFacts DEF SameField
    <2>2. q \in IF Labelled(header) THEN ByLabel(d, I, header[1], aug)
                ELSE ByDetection(d, I, verdict[f], aug)
      BY <1>2 DEF Requests, AnonymizeColumn
    <2>3. f \in FieldNames /\ header[1] \in AllLabels \cup {"", None}
          /\ verdict[f] \in AllLabels \cup {None}
      BY <1>0, <2>1, LeafFacts, CallFacts
    <2>4. aug \in Seq(Alphabet) /\ Len(d.leaves) \in Nat
      BY <1>0, AugmentedIs, DocFacts
    <2>w. Labelled(header) => header[1] \in AllLabels
      BY <2>3 DEF Labelled
    <2> HIDE DEF d, I, f, header, aug
    <2>5. CASE Labelled(header)
      <3>0. PICK J : J = {j \in I : d.leaves[j].text # <<>>}
        OBVIOUS
      <3>1. q \in With(d, J, header[1]) \/ \E p \in Presidio(aug) : q = After(p, Len(d.leaves))
        BY <2>2, <2>5, <3>0 DEF ByLabel
      <3>2. J \subseteq Pairs(d) /\ header[1] \in AllLabels
        BY <2>1, <2>5, <2>w, <3>0
      <3>3. CASE q \in With(d, J, header[1])
        BY <2>0, <3>2, <3>3, WithType DEF d
      <3>4. CASE \E p \in Presidio(aug) : q = After(p, Len(d.leaves))
        <4>1. PICK p \in Presidio(aug) : q = After(p, Len(d.leaves))
          BY <3>4
        <4>2. p \in Wanted /\ p.value # <<>>
          BY <2>4, PresidioType
        <4> QED BY <2>4, <4>1, <4>2, AfterFacts DEF Right
      <3> QED BY <3>1, <3>3, <3>4
    <2>6. CASE ~Labelled(header)
      <3>0. PICK J, c : /\ J \subseteq I /\ c = verdict[f]
                        /\ \/ q \in Detect(aug)
                           \/ c # None /\ \E p \in With(d, J, c) : q = After(p, 2 * Len(aug))
        <4>0. PICK J : J = {j \in I : ~ \E p \in Detect(aug) : Occurs(p.value, d.leaves[j].text)}
          OBVIOUS
        <4>1. q \in ByDetection(d, I, verdict[f], aug)
          BY <2>2, <2>6
        <4>2. \/ q \in Detect(aug)
              \/ verdict[f] # None /\ \E p \in With(d, J, verdict[f]) : q = After(p, 2 * Len(aug))
          BY <4>0, <4>1 DEF ByDetection
        <4> QED BY <4>0, <4>2
      <3>1. CASE q \in Detect(aug)
        BY <2>4, <3>1, DetectType DEF Right
      <3>2. CASE c # None /\ \E p \in With(d, J, c) : q = After(p, 2 * Len(aug))
        <4>1. PICK p \in With(d, J, c) : q = After(p, 2 * Len(aug))
          BY <3>2
        <4>2. c \in AllLabels /\ J \subseteq Pairs(d)
          BY <2>1, <2>3, <3>0, <3>2
        <4>3. Right(d, p)
          BY <2>0, <4>2, WithType
        <4>4. 2 * Len(aug) \in Nat
          BY <2>4
        <4> QED BY <4>1, <4>3, <4>4, AfterFacts DEF Right, d
      <3> QED BY <3>0, <3>1, <3>2
    <2> QED BY <2>5, <2>6
  <1> QED BY <1>1, <1>2

---------------------------------------------------------------------------
(* Whatever is private was asked a token for. *)
Asked(x, K) == \A i \in Columns(x) : \A q \in Requests(x, i) : q.value \in K

\* A plain value is one of a column.
LEMMA ColumnOf ==
  ASSUME NEW x, x.doc \in Docs, NEW i \in Scalars(x)
  PROVE  \E c \in Columns(x) :
            /\ c # 0 /\ SameField(x, c) = SameField(x, i) /\ i \in SameField(x, i)
            /\ Field(x.doc.leaves[c]) = Field(x.doc.leaves[i])
  <1>1. Scalars(x) \subseteq Pairs(x.doc) /\ Pairs(x.doc) \subseteq 1..Len(x.doc.leaves)
    BY PairFacts DEF Scalars
  <1>2. ~AsWhole(x.doc)
    BY <1>1 DEF AsWhole
  <1>3. i \in SameField(x, i) /\ SameField(x, i) \subseteq Nat
    BY <1>1 DEF SameField
  <1>4. PICK c \in SameField(x, i) : c = First(SameField(x, i))
    BY <1>3, FirstOf
  <1>5. c \in Scalars(x) /\ Field(x.doc.leaves[c]) = Field(x.doc.leaves[i])
    BY <1>4 DEF SameField
  <1>6. SameField(x, c) = SameField(x, i)
    BY <1>5 DEF SameField
  <1>7. c \in Columns(x)
    BY <1>2, <1>4, <1>5, <1>6 DEF Columns
  <1>8. c # 0
    BY <1>1, <1>5
  <1> QED BY <1>3, <1>5, <1>6, <1>7, <1>8

\* A word stands in itself.
LEMMA OccursItself ==
  ASSUME NEW A, NEW w \in Seq(A), w # <<>>
  PROVE  Occurs(w, w)
  <1>1. Len(w) \in Nat \ {0}
    BY EmptySeq, LenProperties
  <1>2. StartsAt(w, w, 1) /\ 1 \in 1..Len(w)
    BY <1>1 DEF StartsAt
  <1> QED BY <1>2 DEF Occurs, Positions

\* What is private in a value: its text, or a word that stands in it.
LEMMA PrivateCases ==
  ASSUME NEW d \in Docs, NEW i \in 1..Len(d.leaves), NEW w \in Private(d, d.leaves[i])
  PROVE  LET labelled == d.format # "freetext" /\ InColumn(d.leaves[i])
         IN /\ w \in Seq(Alphabet) /\ w # <<>>
            /\ \/ labelled /\ w = d.leaves[i].text
               \/ w \in Searched(labelled) /\ Occurs(w, d.leaves[i].text)
            /\ \/ labelled /\ w = d.leaves[i].text
               \/ d.format = "sql" => w = d.leaves[i].text
  <1> DEFINE labelled == d.format # "freetext" /\ InColumn(d.leaves[i])
             t == d.leaves[i].text
  <1>0. t \in Seq(Alphabet)
    BY LeafFacts
  <1>1. \/ labelled /\ w = t /\ w # <<>>
        \/ w \in Searched(labelled) /\ IF d.format = "sql" THEN w = t ELSE Occurs(w, t)
    BY DEF Private
  <1>2. CASE labelled /\ w = t /\ w # <<>>
    BY <1>0, <1>2
  <1>3. CASE w \in Searched(labelled) /\ IF d.format = "sql" THEN w = t ELSE Occurs(w, t)
    <2>1. w \in Seq(Alphabet) /\ w # <<>>
      BY <1>3, SearchedWord
    <2>2. Occurs(w, t)
      BY <1>3, <2>1, OccursItself
    <2> QED BY <1>3, <2>1, <2>2
  <1> QED BY <1>1, <1>2, <1>3

\* Whatever is private in a value searched is one of the values asked for.
LEMMA PrivateAsked ==
  ASSUME NEW x, NEW E, Built(x, E), Written(E), NEW K, Asked(x, K),
         NEW i \in Plain(x), NEW w \in Private(x.doc, x.doc.leaves[i])
  PROVE  w \in K
  <1> DEFINE d == x.doc
             l == d.leaves[i]
             labelled == d.format # "freetext" /\ InColumn(l)
  <1>0. d \in Docs
    BY DEF Built
  <1>1. /\ i \in 1..Len(d.leaves) /\ i \notin DOMAIN x.got
        /\ d.format # "freetext" => i \in Pairs(d)
    BY <1>0, PairFacts DEF Plain
  <1>2. /\ w \in Seq(Alphabet) /\ w # <<>>
        /\ (labelled /\ w = l.text) \/ (w \in Searched(labelled) /\ Occurs(w, l.text))
    BY <1>0, <1>1, PrivateCases
  <1>3. CASE d.format = "freetext"
    <2>1. AsWhole(d) /\ Columns(x) = {0}
      BY <1>0, <1>3, PairFacts, ColumnFacts DEF AsWhole
    <2>2. w \in Searched(FALSE) /\ Occurs(w, l.text)
      BY <1>2, <1>3
    <2>3. Occurs(w, Mine(x)[i])
      BY <1>1, <1>3, <2>2, OwnTextIs, ProseLiteral
    <2>4. Occurs(w, OwnText(x)) /\ OwnText(x) \in Seq(Alphabet)
      BY <1>0, <1>1, <1>2, <2>3, OwnTextIs, WithTextsOccurs
    <2>5. PICK q \in Detect(OwnText(x)) : q.value = w
      BY <2>2, <2>4, SearchedDetect
    <2>6. q \in Requests(x, 0)
      BY <2>5 DEF Requests
    <2> QED BY <2>1, <2>5, <2>6 DEF Asked
  <1>4. CASE d.format # "freetext"
    <2>0. i \in Scalars(x)
      BY <1>1, <1>4 DEF Scalars
    <2>1. PICK c \in Columns(x) :
             /\ c # 0 /\ SameField(x, c) = SameField(x, i) /\ i \in SameField(x, i)
             /\ Field(d.leaves[c]) = Field(l)
      BY <1>0, <2>0, ColumnOf
    <2> DEFINE I == SameField(x, i)
               f == Field(l)
               header == Lookup(kb[f], f, Context.db, Context.table)
               aug == Augmented(d, I)
    <2>2. Requests(x, c) = IF Labelled(header) THEN ByLabel(d, I, header[1], aug)
                           ELSE ByDetection(d, I, verdict[f], aug)
      BY <2>1 DEF Requests, AnonymizeColumn
    <2>3. labelled <=> Labelled(header)
      BY <1>4 DEF InColumn
    <2>4. Occurs(w, l.text) => Occurs(w, aug) /\ aug \in Seq(Alphabet)
      BY <1>0, <1>1, <1>2, <2>1, AugmentedOccurs, AugmentedIs
    <2>5. \A q \in Requests(x, c) : q.value \in K
      BY DEF Asked
    <2>i. i \in I
      BY <2>1
    <2>l. Len(d.leaves) \in Nat
      BY <1>0, DocFacts
    <2> HIDE DEF header, aug, I, f
    <2>6. CASE Labelled(header) /\ w = l.text
      <3>1. PICK q : q = [rank |-> i, value |-> l.text, label |-> header[1]]
        OBVIOUS
      <3>2. i \in {j \in I : d.leaves[j].text # <<>>}
        BY <1>2, <2>6, <2>i
      <3>3. q \in With(d, {j \in I : d.leaves[j].text # <<>>}, header[1])
        BY <3>1, <3>2 DEF With
      <3>4. q \in Requests(x, c)
        BY <2>2, <2>6, <3>3 DEF ByLabel
      <3> QED BY <2>5, <2>6, <3>1, <3>4
    <2>7. CASE Labelled(header) /\ w \in Searched(TRUE) /\ Occurs(w, l.text)
      <3>1. PICK p \in Presidio(aug) : p.value = w
        BY <2>4, <2>7, SearchedPresidio
      <3>2. p \in Wanted
        BY <2>4, <2>7, PresidioType
      <3>3. After(p, Len(d.leaves)) \in Requests(x, c)
        BY <2>2, <2>7 DEF ByLabel
      <3>4. After(p, Len(d.leaves)).value = w
        BY <2>l, <3>1, <3>2, AfterFacts
      <3> QED BY <2>5, <3>3, <3>4
    <2>8. CASE ~Labelled(header) /\ w \in Searched(FALSE) /\ Occurs(w, l.text)
      <3>1. PICK p \in Detect(aug) : p.value = w
        BY <2>4, <2>8, SearchedDetect
      <3>2. p \in Requests(x, c)
        <4>1. \E j \in I : Occurs(p.value, d.leaves[j].text)
          BY <2>8, <2>i, <3>1
        <4> QED BY <2>2, <2>8, <3>1, <4>1 DEF ByDetection
      <3> QED BY <2>5, <3>1, <3>2
    <2>9. (labelled = TRUE) \/ (labelled = FALSE)
      OBVIOUS
    <2>s. /\ labelled => Searched(labelled) = Searched(TRUE)
          /\ ~labelled => Searched(labelled) = Searched(FALSE)
      BY <2>9
    <2> HIDE DEF labelled
    <2> QED BY <1>2, <2>3, <2>6, <2>7, <2>8, <2>s
  <1> QED BY <1>3, <1>4

---------------------------------------------------------------------------
(* Tokens and the store. *)
Tokened == [label : AllLabels, n : Nat \ {0}]

\* So many times the same symbol.
LEMMA Repeated ==
  ASSUME NEW A, NEW x \in A, NEW n \in Nat
  PROVE  LET b == [i \in 1..n |-> x]
         IN b \in Seq(A) /\ Len(b) = n /\ \A i \in 1..n : b[i] = x
  OBVIOUS

\* How a token is written.
LEMMA TokenShape ==
  ASSUME NEW t \in Tokened
  PROVE  /\ TokenText(t) \in Seq(Alphabet) /\ Len(TokenText(t)) = t.n + 4
         /\ TokenText(t)[1] = "[" /\ TokenText(t)[2] = t.label /\ TokenText(t)[3] = "_"
         /\ \A i \in 4..(t.n + 3) : TokenText(t)[i] = "1"
         /\ TokenText(t)[t.n + 4] = "]"
         /\ t.n \in Nat \ {0} /\ t.label \in AllLabels
  <1>0. t.n \in Nat \ {0} /\ t.label \in AllLabels /\ t.label \in Alphabet
    BY AnonymizerAssumption DEF Tokened, WordsAssumption, Alphabet
  <1>1. /\ "[" \in Alphabet /\ "]" \in Alphabet /\ "_" \in Alphabet /\ "1" \in Alphabet
    BY DEF Alphabet
  <1>2. PICK a : a = <<"[", t.label, "_">>
    OBVIOUS
  <1>3. /\ a \in Seq(Alphabet) /\ Len(a) = 3 /\ a[1] = "[" /\ a[2] = t.label /\ a[3] = "_"
    <2>1. ASSUME NEW A, NEW x \in A, NEW y \in A, NEW z \in A PROVE <<x, y, z>> \in Seq(A)
      OBVIOUS
    <2>2. a \in Seq(Alphabet)
      BY <1>0, <1>1, <1>2, <2>1
    <2> QED BY <1>2, <2>2
  <1>n. PICK n \in Nat \ {0} : n = t.n
    BY <1>0
  <1>4. PICK b : b = [i \in 1..n |-> "1"]
    OBVIOUS
  <1>5. b \in Seq(Alphabet) /\ Len(b) = n /\ \A i \in 1..n : b[i] = "1"
    <2>1. n \in Nat
      BY <1>n
    <2> QED BY <1>1, <1>4, <2>1, Repeated
  <1>6. PICK c : c = <<"]">>
    OBVIOUS
  <1>7. c \in Seq(Alphabet) /\ Len(c) = 1 /\ c[1] = "]"
    BY <1>1, <1>6, Short
  <1>8. PICK ab : ab = a \o b
    OBVIOUS
  <1>9. /\ ab \in Seq(Alphabet) /\ Len(ab) = n + 3
        /\ \A i \in 1..3 : ab[i] = a[i]
        /\ \A i \in 4..(n + 3) : ab[i] = b[i - 3]
    <2>1. /\ a \o b \in Seq(Alphabet) /\ Len(a \o b) = Len(a) + Len(b)
          /\ \A i \in 1..(Len(a) + Len(b)) : (a \o b)[i] =
                 IF i <= Len(a) THEN a[i] ELSE b[i - Len(a)]
      BY <1>3, <1>5, ConcatProperties
    <2>2. /\ ab \in Seq(Alphabet) /\ Len(ab) = 3 + n
          /\ \A i \in 1..(3 + n) : ab[i] = IF i <= 3 THEN a[i] ELSE b[i - 3]
      BY <1>3, <1>5, <1>8, <2>1
    <2>3. 3 + n = n + 3 /\ \A i \in 1..3 : i \in 1..(3 + n) /\ i <= 3
      BY <1>n
    <2>4. \A i \in 4..(n + 3) : i \in 1..(3 + n) /\ ~(i <= 3)
      BY <1>n
    <2> QED BY <2>2, <2>3, <2>4
  <1>10. PICK w : w = ab \o c
    OBVIOUS
  <1>11. /\ w \in Seq(Alphabet) /\ Len(w) = n + 4
         /\ \A i \in 1..(n + 3) : w[i] = ab[i]
         /\ w[n + 4] = c[1]
    <2>1. /\ ab \o c \in Seq(Alphabet) /\ Len(ab \o c) = Len(ab) + Len(c)
          /\ \A i \in 1..(Len(ab) + Len(c)) : (ab \o c)[i] =
                 IF i <= Len(ab) THEN ab[i] ELSE c[i - Len(ab)]
      BY <1>7, <1>9, ConcatProperties
    <2> QED BY <1>n, <1>7, <1>9, <1>10, <2>1
  <1>12. TokenText(t) = w
    BY <1>n, <1>2, <1>4, <1>6, <1>8, <1>10 DEF TokenText
  <1>13. w[1] = "[" /\ w[2] = t.label /\ w[3] = "_"
    <2>1. ASSUME NEW i \in 1..3 PROVE w[i] = a[i]
      <3>1. i \in 1..(n + 3)
        BY <1>n
      <3> QED BY <1>9, <1>11, <3>1
    <2>2. w[1] = a[1] /\ w[2] = a[2] /\ w[3] = a[3]
      BY <2>1
    <2> QED BY <1>3, <2>2
  <1>14. ASSUME NEW i \in 4..(n + 3) PROVE w[i] = "1"
    <2>1. i - 3 \in 1..n /\ i \in 1..(n + 3)
      BY <1>n
    <2> QED BY <1>5, <1>9, <1>11, <2>1
  <1>15. w[n + 4] = "]"
    BY <1>7, <1>11
  <1> QED BY <1>n, <1>0, <1>11, <1>12, <1>13, <1>14, <1>15

\* A token is written without escapes.
LEMMA TokenPlain ==
  ASSUME NEW t \in Tokened, NEW f \in Formats
  PROVE  Escape(f, TokenText(t)) = TokenText(t)
  <1>1. PICK w : w = TokenText(t)
    OBVIOUS
  <1>n. PICK n \in Nat \ {0} : n = t.n
    BY TokenShape
  <1>2. /\ w \in Seq(Alphabet) /\ Len(w) = n + 4
        /\ w[1] = "[" /\ w[2] = t.label /\ w[3] = "_"
        /\ \A i \in 4..(n + 3) : w[i] = "1"
        /\ w[n + 4] = "]" /\ t.label \in AllLabels
    BY <1>1, <1>n, TokenShape
  <1>3. t.label \notin Special(f)
    <2>1. AllLabels \cap Special(f) = {}
      BY AnonymizerAssumption DEF WordsAssumption
    <2> QED BY <1>2, <2>1
  <1>4. ASSUME NEW i \in 1..Len(w) PROVE i = 1 \/ i = 2 \/ i = 3 \/ i \in 4..(n + 3) \/ i = n + 4
    <2>1. i \in 1..(n + 4)
      BY <1>2
    <2> QED BY <1>n, <2>1
  <1>5. \A i \in 1..Len(w) : w[i] \notin Special(f)
    BY <1>2, <1>3, <1>4, SpecialFacts
  <1> QED BY <1>1, <1>2, <1>5, EscapePlain

\* A token has its brackets at its ends and nowhere else.
LEMMA TokenBracketed ==
  ASSUME NEW t \in Tokened
  PROVE  Bracketed("[", "]", TokenText(t))
  <1>1. PICK w : w = TokenText(t)
    OBVIOUS
  <1>n. PICK n \in Nat \ {0} : n = t.n
    BY TokenShape
  <1>2. /\ w \in Seq(Alphabet) /\ Len(w) = n + 4
        /\ w[1] = "[" /\ w[2] = t.label /\ w[3] = "_"
        /\ \A i \in 4..(n + 3) : w[i] = "1"
        /\ w[n + 4] = "]" /\ t.label \in AllLabels
    BY <1>1, <1>n, TokenShape
  <1>3. t.label # "[" /\ t.label # "]"
    BY <1>2, AnonymizerAssumption DEF WordsAssumption
  <1>4. ASSUME NEW i \in 1..Len(w) PROVE i = 1 \/ i = 2 \/ i = 3 \/ i \in 4..(n + 3) \/ i = n + 4
    <2>1. i \in 1..(n + 4)
      BY <1>2
    <2> QED BY <1>n, <2>1
  <1>5. \A i \in 1..Len(w) : (w[i] = "[" => i = 1) /\ (w[i] = "]" => i = Len(w))
    BY <1>2, <1>3, <1>4
  <1>6. w # <<>>
    <2>1. Len(w) # 0
      <3>1. n + 4 # 0
        BY <1>n
      <3> QED BY <1>2, <3>1
    <2> QED BY <1>2, <2>1, EmptySeq
  <1> QED BY <1>1, <1>2, <1>5, <1>6 DEF Bracketed

\* Two tokens are not written alike.
LEMMA TokenInjective ==
  ASSUME NEW t \in Tokened, NEW u \in Tokened, TokenText(t) = TokenText(u)
  PROVE  t = u
  <1>1. t.n = u.n /\ t.label = u.label
    <2>1. t.n + 4 = u.n + 4 /\ t.n \in Nat /\ u.n \in Nat
      BY TokenShape
    <2>2. t.label = u.label
      BY TokenShape
    <2> QED BY <2>1, <2>2
  <1> QED BY <1>1 DEF Tokened

---------------------------------------------------------------------------
\* A store that knows more.
Grows(S, T) == \A v \in DOMAIN S : v \in DOMAIN T /\ T[v] = S[v]
Sharing(S, l) == {w \in DOMAIN S : S[w].label = l}
Asking(S, q) ==
    IF q.value \in DOMAIN S THEN S
    ELSE [v \in DOMAIN S \cup {q.value} |->
             IF v \in DOMAIN S THEN S[v]
             ELSE [label |-> q.label, n |-> Cardinality(Sharing(S, q.label)) + 1]]

\* Asking for a token keeps the numbering, and the tokens there are.
LEMMA AskingKeeps ==
  ASSUME NEW S, Numbered(S), NEW q \in Wanted
  PROVE  Numbered(Asking(S, q)) /\ Grows(S, Asking(S, q)) /\ q.value \in DOMAIN Asking(S, q)
  <1>1. CASE q.value \in DOMAIN S
    BY <1>1 DEF Asking, Grows
  <1>2. CASE q.value \notin DOMAIN S
    <2> DEFINE l == q.label
               T == Asking(S, q)
               new == [label |-> l, n |-> Cardinality(Sharing(S, l)) + 1]
    <2>0. l \in AllLabels
      BY DEF Wanted
    <2>1. T = [v \in DOMAIN S \cup {q.value} |-> IF v \in DOMAIN S THEN S[v] ELSE new]
      BY <1>2 DEF Asking
    <2>2. DOMAIN T = DOMAIN S \cup {q.value}
      BY <2>1
    <2>3. (\A v \in DOMAIN S : T[v] = S[v]) /\ T[q.value] = new
      BY <1>2, <2>1
    <2>n. new.label = l /\ new.n = Cardinality(Sharing(S, l)) + 1
      OBVIOUS
    <2>4. IsFiniteSet(DOMAIN S)
      BY DEF Numbered
    <2>5. \A m : IsFiniteSet(Sharing(S, m)) /\ Cardinality(Sharing(S, m)) \in Nat
      BY <2>4, FS_Subset, FS_CardinalityType DEF Sharing
    <2>w. new \in Tokened
      BY <2>0, <2>5 DEF Tokened
    <2> HIDE DEF T, new
    <2>6. IsFiniteSet(DOMAIN T)
      BY <2>2, <2>4, FS_AddElement
    <2>7. ASSUME NEW m
          PROVE  /\ m # l => Sharing(T, m) = Sharing(S, m)
                 /\ m = l => Sharing(T, m) = Sharing(S, l) \cup {q.value}
      BY <1>2, <2>2, <2>3, <2>n DEF Sharing
    <2>8. Cardinality(Sharing(T, l)) = Cardinality(Sharing(S, l)) + 1
      <3>1. q.value \notin Sharing(S, l)
        BY <1>2 DEF Sharing
      <3> QED BY <2>5, <2>7, <3>1, FS_AddElement
    <2>9. \A m : Cardinality(Sharing(S, m)) <= Cardinality(Sharing(T, m))
                 /\ Cardinality(Sharing(T, m)) \in Nat
      BY <2>5, <2>7, <2>8
    <2>10. ASSUME NEW v \in DOMAIN S
           PROVE  /\ S[v] \in Tokened /\ S[v].n <= Cardinality(Sharing(S, S[v].label))
                  /\ \A w \in DOMAIN S : S[v] = S[w] => v = w
      BY DEF Numbered, Sharing, Tokened
    <2>11. ASSUME NEW v \in DOMAIN T PROVE T[v] \in Tokened
      BY <2>2, <2>3, <2>10, <2>w
    <2>12. ASSUME NEW v \in DOMAIN T PROVE T[v].n <= Cardinality(Sharing(T, T[v].label))
      <3>1. CASE v \in DOMAIN S
        <4>1. S[v].n \in Nat /\ T[v] = S[v] /\ S[v].n <= Cardinality(Sharing(S, S[v].label))
          BY <2>3, <2>10, <3>1 DEF Tokened
        <4>2. Cardinality(Sharing(S, S[v].label)) <= Cardinality(Sharing(T, S[v].label))
              /\ Cardinality(Sharing(S, S[v].label)) \in Nat
              /\ Cardinality(Sharing(T, S[v].label)) \in Nat
          BY <2>5, <2>9
        <4> QED BY <4>1, <4>2
      <3>2. CASE v = q.value
        <4>1. T[v] = new
          BY <2>3, <3>2
        <4> QED BY <2>5, <2>8, <2>n, <4>1
      <3> QED BY <2>2, <3>1, <3>2
    <2>13. ASSUME NEW v \in DOMAIN S PROVE S[v] # new
      <3>1. CASE S[v].label = l
        <4>1. S[v].n <= Cardinality(Sharing(S, l)) /\ S[v].n \in Nat
          BY <2>10, <3>1 DEF Tokened
        <4>2. S[v].n # new.n
          BY <2>5, <2>n, <4>1
        <4> QED BY <4>2
      <3>2. CASE S[v].label # l
        BY <2>n, <3>2
      <3> QED BY <3>1, <3>2
    <2>14. ASSUME NEW v \in DOMAIN T, NEW w \in DOMAIN T, T[v] = T[w] PROVE v = w
      BY <2>2, <2>3, <2>10, <2>13, <2>14
    <2>15. Numbered(T)
      BY <2>6, <2>11, <2>12, <2>14 DEF Numbered, Sharing, Tokened
    <2>16. Grows(S, T) /\ q.value \in DOMAIN T
      BY <2>2, <2>3 DEF Grows
    <2> QED BY <2>15, <2>16 DEF T
  <1> QED BY <1>1, <1>2

---------------------------------------------------------------------------
(* What holds of an answer e, when the store knows S and E are all answers. *)

Entry(S, v) == <<TokenText(S[v]), v>>
KeysOK(d, K) ==
    /\ IsFiniteSet(K) /\ K \subseteq Seq(Alphabet)
    /\ <<>> \in K => Literals(d)

\* What replaces a value is its token, what replaces a document its text.
ReplacedOK(e, S) ==
    /\ KeysOK(e.doc, DOMAIN e.replacement)
    /\ \A w \in Own(e) : /\ w \in DOMAIN S /\ e.replacement[w] = TokenText(S[w])
                         /\ Entry(S, w) \in e.mapping
    /\ \A b \in Blobs(e) :
          /\ b \in DOMAIN e.replacement
          /\ \E i \in DOMAIN e.got : /\ e.doc.leaves[i].text = b
                                     /\ e.replacement[b] = e.got[i].text

MappingOK(e, S) ==
    /\ IsFiniteSet(e.mapping)
    /\ \A p \in e.mapping : \E v \in DOMAIN S : v \in Seq(Alphabet) /\ p = Entry(S, v)
    /\ \A i \in DOMAIN e.got : e.got[i].mapping \subseteq e.mapping
    /\ \A p \in e.mapping : \/ p[2] \in DOMAIN e.replacement
                            \/ \E i \in DOMAIN e.got : p \in e.got[i].mapping

\* Without a token, a text was not changed.
TextOK(e) ==
    /\ e.text \in Seq(Alphabet)
    /\ e.doc.format # "freetext" => e.text # <<>>
    /\ Without("[", e.text) => e.text = Render(e.doc)

\* Nothing is mistaken or damaged on the way back.
Faithful(E) == \A a \in E : Untangled(a) /\ Undamaged(a, E)

\* What the text stands for.
ReadsOK(e, E) ==
    Faithful(E) =>
        /\ \A p \in e.mapping : Without("[", p[2])
        /\ Without("[", Render(e.doc)) =>
              Reads(Alphabet, "[", e.mapping, e.text, Render(e.doc))

Answered(e, S, E) ==
    /\ Built(e, E) /\ ReplacedOK(e, S) /\ MappingOK(e, S) /\ TextOK(e) /\ ReadsOK(e, E)
    /\ e.text = Reinject(e.doc, OwnText(e), e.replacement)

Answers(S, E) == \A e \in E : Answered(e, S, E)

\* The texts of answers are texts.
LEMMA AnswersWritten ==
  ASSUME NEW S, NEW E, Answers(S, E)
  PROVE  Written(E)
  BY DEF Answers, Answered, TextOK, Written

\* A document in a value: it is json or xml, so neither its text nor what
\* replaces it is empty.
LEMMA BlobFacts ==
  ASSUME NEW S, NEW E, Answers(S, E), NEW x, Built(x, E), x.doc.format # "freetext",
         NEW i \in DOMAIN x.got
  PROVE  /\ x.doc.leaves[i].text \in Seq(Alphabet) /\ x.doc.leaves[i].text # <<>>
         /\ x.doc.leaves[i].text = Render(x.got[i].doc)
         /\ x.got[i].doc \in Docs /\ x.got[i].doc.format \in {"json", "xml"}
         /\ x.got[i] \in E
         /\ x.got[i].text \in Seq(Alphabet) /\ x.got[i].text # <<>>
         /\ Without("[", x.got[i].text) => x.got[i].text = x.doc.leaves[i].text
  <1>1. x.doc \in Docs /\ i \in Nests(x.doc) /\ Gave(x.doc, i, x.got[i], E)
    BY DEF Built
  <1>2. i \in 1..Len(x.doc.leaves) /\ x.doc.leaves[i].inner # None
    BY <1>1, PairFacts
  <1>3. PICK a \in E : /\ a = x.got[i] /\ a.doc = x.doc.leaves[i].inner
                      /\ a.doc.format # "freetext" /\ a.doc.format \in {"json", "xml"}
    BY <1>1 DEF Gave
  <1>4. x.doc.leaves[i].text = Render(a.doc) /\ a.doc \in Docs
    BY <1>1, <1>2, <1>3, LeafFacts
  <1>5. TextOK(a)
    BY <1>3 DEF Answers, Answered
  <1> QED BY <1>3, <1>4, <1>5, RenderIs DEF TextOK

\* Documents in values are finitely many texts, none of them empty.
LEMMA BlobsAre ==
  ASSUME NEW S, NEW E, Answers(S, E), NEW x, Built(x, E)
  PROVE  /\ IsFiniteSet(Blobs(x)) /\ Blobs(x) \subseteq Seq(Alphabet) /\ <<>> \notin Blobs(x)
         /\ IsFiniteSet(DOMAIN x.got)
  <1>0. x.doc \in Docs /\ DOMAIN x.got \subseteq 1..Len(x.doc.leaves) /\ Len(x.doc.leaves) \in Nat
    BY PairFacts, DocFacts DEF Built
  <1>1. IsFiniteSet(DOMAIN x.got)
    <2>1. IsFiniteSet(1..Len(x.doc.leaves))
      <3>1. 1 \in Int /\ Len(x.doc.leaves) \in Int
        BY <1>0
      <3> QED BY <3>1, FS_Interval
    <2> QED BY <1>0, <2>1, FS_Subset
  <1>2. CASE x.doc.format = "freetext"
    <2>1. Blobs(x) = {}
      BY <1>2 DEF Blobs
    <2> QED BY <1>1, <2>1, FS_EmptySet
  <1>3. CASE x.doc.format # "freetext"
    <2>1. Blobs(x) = {x.doc.leaves[i].text : i \in DOMAIN x.got}
      BY <1>3 DEF Blobs
    <2>2. \A b \in Blobs(x) : b \in Seq(Alphabet) /\ b # <<>>
      BY <1>3, <2>1, BlobFacts
    <2>3. PICK f : f = [i \in DOMAIN x.got |-> x.doc.leaves[i].text]
      OBVIOUS
    <2>4. f \in Surjection(DOMAIN x.got, Blobs(x))
      BY <2>1, <2>3 DEF Surjection
    <2>5. IsFiniteSet(Blobs(x))
      BY <1>1, <2>4, FS_Surjection
    <2> QED BY <1>1, <2>2, <2>5
  <1> QED BY <1>2, <1>3

\* What replaces the keys: texts that are not empty, and that hold a token
\* unless they are the key itself, a document.
Document(w) == \E g \in Docs : g.format \in {"json", "xml"} /\ w = Render(g)

LEMMA ReplacementFacts ==
  ASSUME NEW S, NEW E, Answers(S, E), Numbered(S), NEW e, Built(e, E), ReplacedOK(e, S)
  PROVE  /\ IsFiniteSet(DOMAIN e.replacement) /\ Words(Alphabet, e.replacement)
         /\ Marks(e.replacement)
         /\ ~Literals(e.doc) => Marked(Alphabet, e.replacement)
         /\ \A w \in DOMAIN e.replacement :
               Without("[", e.replacement[w]) => e.replacement[w] = w /\ Document(w)
         /\ \A w \in Own(e) : S[w] \in Tokened
  <1>1. IsFiniteSet(DOMAIN e.replacement) /\ DOMAIN e.replacement \subseteq Seq(Alphabet)
    BY DEF ReplacedOK, KeysOK
  <1>2. ASSUME NEW w \in DOMAIN e.replacement
        PROVE  /\ e.replacement[w] \in Seq(Alphabet) /\ e.replacement[w] # <<>>
               /\ Without("[", e.replacement[w]) => e.replacement[w] = w /\ Document(w)
               /\ w \in Own(e) => S[w] \in Tokened
    <2>1. CASE w \in Own(e)
      <3>1. e.replacement[w] = TokenText(S[w]) /\ w \in DOMAIN S
        BY <2>1 DEF ReplacedOK
      <3>2. S[w] \in Tokened
        BY <3>1 DEF Numbered, Tokened
      <3>3. PICK t : t = TokenText(S[w])
        OBVIOUS
      <3>4. t \in Seq(Alphabet) /\ Bracketed("[", "]", t)
        BY <3>2, <3>3, TokenShape, TokenBracketed
      <3>5. t # <<>> /\ t[1] = "["
        BY <3>4 DEF Bracketed
      <3>6. Len(t) \in Nat \ {0}
        BY <3>4, <3>5, EmptySeq, LenProperties
      <3>7. ~Without("[", t)
        BY <3>5, <3>6 DEF Without
      <3> QED BY <3>1, <3>2, <3>3, <3>4, <3>5, <3>7
    <2>2. CASE w \notin Own(e)
      <3>1. w \in Blobs(e)
        BY <2>2 DEF Own
      <3>2. PICK i \in DOMAIN e.got : /\ e.doc.leaves[i].text = w
                                      /\ e.replacement[w] = e.got[i].text
        BY <3>1 DEF ReplacedOK
      <3>3. e.doc.format # "freetext"
        BY <3>1 DEF Blobs
      <3>4. /\ e.got[i].text \in Seq(Alphabet) /\ e.got[i].text # <<>>
            /\ Without("[", e.got[i].text) => e.got[i].text = e.doc.leaves[i].text
            /\ Document(e.doc.leaves[i].text)
        BY <3>2, <3>3, BlobFacts DEF Document
      <3> QED BY <2>2, <3>2, <3>4
    <2> QED BY <2>1, <2>2
  <1>3. Words(Alphabet, e.replacement) /\ Marks(e.replacement)
    BY <1>1, <1>2 DEF Words, Marks
  <1>4. ~Literals(e.doc) => Marked(Alphabet, e.replacement)
    BY <1>1, <1>3 DEF Marked, ReplacedOK, KeysOK
  <1>5. Own(e) \subseteq DOMAIN e.replacement
    BY DEF Own
  <1> QED BY <1>1, <1>2, <1>3, <1>4, <1>5

---------------------------------------------------------------------------
(* The text of an answer. *)

\* What becomes of a leaf.
Became(d, l, map, r) ==
    \/ r = l
    \/ /\ d.format # "sql" /\ r.string = l.string
       /\ r.text = ReplaceInTurn(l.text, map)
    \/ /\ d.format = "sql" /\ r.string = TRUE
       /\ l.text \in DOMAIN map /\ r.text = map[l.text]

\* How reinject treats a leaf.
LEMMA LeafBecomes ==
  ASSUME NEW d, ByLeaf(d), NEW l \in Leaves, NEW map
  PROVE  Became(d, l, map, ReinjectLeaf(d, l, map))
  <1>0. ASSUME NEW t, NEW b
        PROVE  /\ [l EXCEPT !.text = t].text = t /\ [l EXCEPT !.text = t].string = l.string
               /\ [l EXCEPT !.text = t, !.string = b].text = t
               /\ [l EXCEPT !.text = t, !.string = b].string = b
    BY DEF Leaves
  <1>1. d.format = "json" \/ d.format = "xml" \/ d.format = "sql"
    BY DEF ByLeaf
  <1>2. CASE d.format = "json"
    <2>1. PICK r : r = ReinjectLeaf(d, l, map) /\ r = ReinjectJson(l, map)
      BY <1>2 DEF ReinjectLeaf
    <2>2. r = l \/ (r.text = ReplaceInTurn(l.text, map) /\ r.string = l.string)
      BY <1>0, <2>1 DEF ReinjectJson
    <2>3. d.format # "sql"
      BY <1>2
    <2>4. Became(d, l, map, r)
      BY <2>2, <2>3, Zenon DEF Became
    <2> QED BY <2>1, <2>4
  <1>3. CASE d.format = "xml"
    <2>1. ReinjectLeaf(d, l, map) = [l EXCEPT !.text = ReplaceInTurn(l.text, map)]
      BY <1>3 DEF ReinjectLeaf, ReinjectXml
    <2> QED BY <1>0, <1>3, <2>1 DEF Became
  <1>4. CASE d.format = "sql"
    <2>1. PICK r : r = ReinjectLeaf(d, l, map) /\ r = ReinjectSql(l, map)
      BY <1>4 DEF ReinjectLeaf
    <2>2. r = l \/ (r.string = TRUE /\ l.text \in DOMAIN map /\ r.text = map[l.text])
      BY <1>0, <2>1 DEF ReinjectSql
    <2>3. Became(d, l, map, r)
      BY <1>4, <2>2, Zenon DEF Became
    <2> QED BY <2>1, <2>3
  <1> QED BY <1>1, <1>2, <1>3, <1>4

\* Every key is replaced by a text, which has a token in it or is the key.
Sends(map) ==
    /\ IsFiniteSet(DOMAIN map) /\ Words(Alphabet, map) /\ Marks(map)
    /\ \A w \in DOMAIN map : Without("[", map[w]) => map[w] = w /\ Document(w)

\* A leaf in which no token is left is written as before.
LEMMA BecameKept ==
  ASSUME NEW d \in Docs, NEW i \in 1..Len(d.leaves), NEW map, Sends(map),
         NEW r, Became(d, d.leaves[i], map, r)
  PROVE  /\ r.text \in Seq(Alphabet) /\ Literal(d.format, r) \in Seq(Alphabet)
         /\ Without("[", Literal(d.format, r)) =>
               Literal(d.format, r) = Literal(d.format, d.leaves[i])
  <1> DEFINE l == d.leaves[i]
             t == d.leaves[i].text
  <1>0. t \in Seq(Alphabet) /\ l.string \in BOOLEAN /\ d.format \in Formats
    BY DocFacts, LeafFacts
  <1>1. \A k : /\ k.text = t /\ k.string = l.string
               => Literal(d.format, k) = Literal(d.format, l)
    BY DEF Literal
  <1>2. r.text \in Seq(Alphabet)
        /\ (Without("[", r.text) => r.text = t /\ r.string = l.string)
    <2>1. CASE r = l
      BY <1>0, <2>1
    <2>2. CASE r.string = l.string /\ r.text = ReplaceInTurn(t, map)
      <3>1. r.text \in Seq(Alphabet)
        BY <1>0, <2>2, InTurnType DEF Sends
      <3>2. Without("[", r.text) => r.text = t
        BY <1>0, <2>2, NothingChangedInTurn DEF Sends
      <3> QED BY <2>2, <3>1, <3>2
    <2>3. CASE d.format = "sql" /\ r.string = TRUE /\ t \in DOMAIN map /\ r.text = map[t]
      <3>1. r.text \in Seq(Alphabet)
        BY <2>3 DEF Sends, Words
      <3>2. ASSUME Without("[", r.text) PROVE r.text = t /\ r.string = l.string
        <4>1. r.text = t /\ Document(t)
          BY <2>3, <3>2 DEF Sends
        <4>2. l.string
          BY <2>3, <4>1, LeafFacts DEF Document
        <4> QED BY <1>0, <2>3, <4>1, <4>2
      <3> QED BY <3>1, <3>2
    <2> QED BY <2>1, <2>2, <2>3 DEF Became
  <1>3. Literal(d.format, r) \in Seq(Alphabet)
        /\ (Without("[", Literal(d.format, r)) => Without("[", r.text))
    BY <1>0, <1>2, LiteralIs
  <1> QED BY <1>1, <1>2, <1>3

New(e) ==
    [i \in 1..Len(e.doc.leaves) |->
        Literal(e.doc.format, ReinjectLeaf(e.doc, e.doc.leaves[i], e.replacement))]

\* The leaves reinject writes.
LEMMA NewFacts ==
  ASSUME NEW e, e.doc \in Docs, ByLeaf(e.doc), Sends(e.replacement)
  PROVE  /\ Fills(e.doc, New(e))
         /\ \A i \in 1..Len(e.doc.leaves) :
               /\ \E r : /\ Became(e.doc, e.doc.leaves[i], e.replacement, r)
                         /\ New(e)[i] = Literal(e.doc.format, r)
               /\ Without("[", New(e)[i]) => New(e)[i] = AsIs(e.doc)[i]
         /\ Reinject(e.doc, OwnText(e), e.replacement) = WithTexts(e.doc, New(e))
  <1>1. ASSUME NEW i \in 1..Len(e.doc.leaves)
        PROVE  /\ \E r : /\ Became(e.doc, e.doc.leaves[i], e.replacement, r)
                         /\ New(e)[i] = Literal(e.doc.format, r)
               /\ New(e)[i] \in Seq(Alphabet)
               /\ Without("[", New(e)[i]) => New(e)[i] = AsIs(e.doc)[i]
    <2>1. PICK r : r = ReinjectLeaf(e.doc, e.doc.leaves[i], e.replacement)
      OBVIOUS
    <2>2. New(e)[i] = Literal(e.doc.format, r)
      BY <2>1 DEF New
    <2>3. Became(e.doc, e.doc.leaves[i], e.replacement, r)
      BY <2>1, LeafFacts, LeafBecomes
    <2>4. AsIs(e.doc)[i] = Literal(e.doc.format, e.doc.leaves[i])
      BY RenderIs
    <2>5. /\ New(e)[i] \in Seq(Alphabet)
          /\ Without("[", New(e)[i]) => New(e)[i] = AsIs(e.doc)[i]
      BY <2>2, <2>3, <2>4, BecameKept
    <2> QED BY <2>2, <2>3, <2>5
  <1>2. Reinject(e.doc, OwnText(e), e.replacement) = WithTexts(e.doc, New(e))
    BY DEF Reinject, New
  <1> QED BY <1>1, <1>2 DEF Fills

\* A text that stands where a document was is a text of an answer.
LEMMA MineFacts ==
  ASSUME NEW S, NEW E, Answers(S, E), NEW e, Built(e, E), NEW i \in 1..Len(e.doc.leaves)
  PROVE  \/ Mine(e)[i] = AsIs(e.doc)[i]
         \/ /\ i \in DOMAIN e.got /\ Mine(e)[i] = e.got[i].text
            /\ e.got[i] \in E /\ AsIs(e.doc)[i] = Render(e.got[i].doc)
  <1>1. Written(E)
    BY AnswersWritten
  <1>2. CASE e.doc.format = "freetext" /\ i \in DOMAIN e.got
    <2>1. Mine(e)[i] = e.got[i].text
      BY <1>1, <1>2, OwnTextIs
    <2>2. /\ e.got[i] \in E /\ e.got[i].doc = e.doc.leaves[i].inner /\ i \in Nests(e.doc)
          /\ e.doc \in Docs
      BY <1>2 DEF Built, Gave
    <2>3. e.doc.leaves[i].text = Render(e.got[i].doc)
      BY <2>2, PairFacts, LeafFacts
    <2>4. AsIs(e.doc)[i] = e.doc.leaves[i].text
      BY <1>2, <2>2, RenderIs
    <2> QED BY <1>2, <2>1, <2>2, <2>3, <2>4
  <1>3. CASE ~(e.doc.format = "freetext" /\ i \in DOMAIN e.got)
    <2>1. Mine(e)[i] = Literal(e.doc.format, e.doc.leaves[i])
      BY <1>1, <1>3, OwnTextIs
    <2>2. e.doc \in Docs
      BY DEF Built
    <2> QED BY <2>1, <2>2, RenderIs
  <1> QED BY <1>2, <1>3

\* A text of its own without a token is the document as it was.
LEMMA OwnTextKept ==
  ASSUME NEW S, NEW E, Answers(S, E), NEW e, Built(e, E), Without("[", OwnText(e))
  PROVE  OwnText(e) = Render(e.doc)
  <1>0. e.doc \in Docs /\ Written(E)
    BY AnswersWritten DEF Built
  <1>1. OwnText(e) = WithTexts(e.doc, Mine(e)) /\ Fills(e.doc, Mine(e))
    BY <1>0, OwnTextIs
  <1>2. ASSUME NEW i \in 1..Len(e.doc.leaves) PROVE Mine(e)[i] = AsIs(e.doc)[i]
    <2>1. Without("[", Mine(e)[i])
      BY <1>0, <1>1, WithTextsWithout
    <2>2. ASSUME e.got[i] \in E PROVE TextOK(e.got[i])
      BY <2>2 DEF Answers, Answered
    <2> QED BY <2>1, <2>2, MineFacts DEF TextOK
  <1>3. WithTexts(e.doc, Mine(e)) = WithTexts(e.doc, AsIs(e.doc))
    BY <1>2, WithSameTexts
  <1> QED BY <1>0, <1>1, <1>3, RenderIs

\* The text at the end of a call.
LEMMA TextEnd ==
  ASSUME NEW S, NEW E, Answers(S, E), Numbered(S), NEW e, Built(e, E), ReplacedOK(e, S),
         e.text = Reinject(e.doc, OwnText(e), e.replacement)
  PROVE  TextOK(e)
  <1> DEFINE d == e.doc
             R == e.replacement
  <1>0. d \in Docs /\ Written(E) /\ Sends(R)
    BY AnswersWritten, ReplacementFacts DEF Built, Sends
  <1>1. CASE ByLeaf(d)
    <2>1. e.text = WithTexts(d, New(e)) /\ Fills(d, New(e))
      BY <1>0, <1>1, NewFacts
    <2>2. e.text \in Seq(Alphabet) /\ (d.format # "freetext" => e.text # <<>>)
      BY <1>0, <2>1, WithTextsType
    <2>3. ASSUME Without("[", e.text) PROVE e.text = Render(d)
      <3>1. \A i \in 1..Len(d.leaves) : Without("[", New(e)[i])
        BY <1>0, <2>1, <2>3, WithTextsWithout
      <3>2. \A i \in 1..Len(d.leaves) : New(e)[i] = AsIs(d)[i]
        BY <1>0, <1>1, <3>1, NewFacts, RenderIs
      <3>3. WithTexts(d, New(e)) = WithTexts(d, AsIs(d))
        BY <3>2, WithSameTexts
      <3> QED BY <1>0, <2>1, <3>3, RenderIs
    <2> QED BY <2>2, <2>3 DEF TextOK
  <1>2. CASE ~ByLeaf(d)
    <2>0. PICK own : own = OwnText(e)
      OBVIOUS
    <2>1. e.text = ReplaceInTurn(own, R)
      BY <1>2, <2>0 DEF Reinject
    <2>2. own \in Seq(Alphabet) /\ (d.format # "freetext" => own # <<>>)
      BY <1>0, <2>0, OwnTextIs
    <2>3. e.text \in Seq(Alphabet) /\ (d.format # "freetext" => e.text # <<>>)
      BY <1>0, <2>1, <2>2, InTurnType DEF Sends
    <2>4. ASSUME Without("[", e.text) PROVE e.text = Render(d)
      <3>1. e.text = own
        BY <1>0, <2>1, <2>2, <2>4, NothingChangedInTurn DEF Sends
      <3> QED BY <2>0, <2>4, <3>1, OwnTextKept
    <2> QED BY <2>3, <2>4 DEF TextOK
  <1> QED BY <1>1, <1>2

---------------------------------------------------------------------------
(* What the text of an answer stands for. *)

\* The mapping is a book of tokens.
LEMMA MappingBook ==
  ASSUME NEW S, Numbered(S), NEW e, MappingOK(e, S)
  PROVE  Book(Alphabet, "[", "]", e.mapping)
  <1>1. ASSUME NEW p \in e.mapping
        PROVE  p \in Seq(Alphabet) \X Seq(Alphabet) /\ Bracketed("[", "]", p[1])
    <2>1. PICK v \in DOMAIN S : v \in Seq(Alphabet) /\ p = Entry(S, v)
      BY DEF MappingOK
    <2>2. S[v] \in Tokened
      BY DEF Numbered, Tokened
    <2>3. TokenText(S[v]) \in Seq(Alphabet) /\ Bracketed("[", "]", TokenText(S[v]))
      BY <2>2, TokenShape, TokenBracketed
    <2> QED BY <2>1, <2>3 DEF Entry
  <1> QED BY <1>1 DEF Book

\* No token of it has two values.
LEMMA MappingFunctional ==
  ASSUME NEW S, Numbered(S), NEW e, MappingOK(e, S), NEW p \in e.mapping, NEW q \in e.mapping,
         p[1] = q[1]
  PROVE  p = q
  <1>1. PICK v \in DOMAIN S : p = Entry(S, v)
    BY DEF MappingOK
  <1>2. PICK w \in DOMAIN S : q = Entry(S, w)
    BY DEF MappingOK
  <1>3. TokenText(S[v]) = TokenText(S[w])
    BY <1>1, <1>2 DEF Entry
  <1>4. S[v] \in Tokened /\ S[w] \in Tokened
    BY DEF Numbered, Tokened
  <1>5. S[v] = S[w]
    BY <1>3, <1>4, TokenInjective
  <1>6. v = w
    BY <1>5 DEF Numbered
  <1> QED BY <1>1, <1>2, <1>6

\* Keys that cannot be mistaken stay clear of the tokens.
LEMMA KeyClear ==
  ASSUME NEW S, Numbered(S), NEW e, ReplacedOK(e, S), MappingOK(e, S), Untangled(e),
         NEW w \in DOMAIN e.replacement
  PROVE  /\ w \in Seq(Alphabet) /\ Without("[", w)
         /\ w # <<>> => \A p \in e.mapping : Clear(w, p[1])
  <1>1. w \in Seq(Alphabet)
    BY DEF ReplacedOK, KeysOK
  <1>2. \A i \in 1..Len(w) : w[i] # "[" /\ w[i] # "]"
    <2>1. ToSet(w) \cap {"[", "]"} = {}
      BY DEF Untangled
    <2>2. \A i \in 1..Len(w) : w[i] \in ToSet(w)
      BY <1>1 DEF ToSet
    <2> QED BY <2>1, <2>2
  <1>3. ASSUME w # <<>>, NEW p \in e.mapping PROVE Clear(w, p[1])
    <2>1. ~Occurs(w, p[1])
      BY <1>3 DEF Untangled
    <2>2. Bracketed("[", "]", p[1])
      BY MappingBook DEF Book
    <2>3. p[1][1] = "[" /\ p[1][Len(p[1])] = "]"
      BY <2>2 DEF Bracketed
    <2> QED BY <1>2, <2>1, <2>3 DEF Clear
  <1> QED BY <1>1, <1>2, <1>3 DEF Without

\* The text of an answer stands for its document.
LEMMA AnswerReads ==
  ASSUME NEW S, NEW E, Answers(S, E), Faithful(E), NEW a \in E,
         Without("[", Render(a.doc)), NEW P, a.mapping \subseteq P
  PROVE  Reads(Alphabet, "[", P, a.text, Render(a.doc))
  <1>1. ReadsOK(a, E)
    BY DEF Answers, Answered
  <1>2. Reads(Alphabet, "[", a.mapping, a.text, Render(a.doc))
    BY <1>1 DEF ReadsOK
  <1> QED BY <1>2, ReadsMore

\* What replaces a key stands for it.
LEMMA KeyReads ==
  ASSUME NEW S, NEW E, Answers(S, E), Numbered(S), NEW e, Built(e, E), ReplacedOK(e, S),
         MappingOK(e, S), Faithful(E), Untangled(e), NEW w \in DOMAIN e.replacement
  PROVE  Reads(Alphabet, "[", e.mapping, e.replacement[w], w)
  <1>0. w \in Seq(Alphabet) /\ Without("[", w) /\ Book(Alphabet, "[", "]", e.mapping)
    BY KeyClear, MappingBook
  <1>1. CASE w \in Own(e)
    <2>1. e.replacement[w] = TokenText(S[w]) /\ Entry(S, w) \in e.mapping
      BY <1>1 DEF ReplacedOK
    <2>2. PICK p \in e.mapping : p = Entry(S, w)
      BY <2>1
    <2>3. p[1] = e.replacement[w] /\ p[2] = w /\ p[1] \in Seq(Alphabet)
      BY <1>0, <2>1, <2>2 DEF Entry, Book
    <2>4. PICK z \in Seq(Alphabet) : z = <<>> /\ Len(z) = 0
      BY EmptySeq
    <2>5. Reads(Alphabet, "[", e.mapping, z, z)
      BY <2>4, ReadsEmpty
    <2>6. Reads(Alphabet, "[", e.mapping, p[1] \o z, p[2] \o z)
      BY <1>0, <2>5, ReadsToken
    <2>7. p[1] \o z = p[1] /\ p[2] \o z = p[2]
      BY <1>0, <2>3, <2>4, ConcatEmptySeq
    <2> QED BY <2>3, <2>6, <2>7
  <1>2. CASE w \notin Own(e)
    <2>1. w \in Blobs(e) /\ e.doc.format # "freetext"
      BY <1>2 DEF Own, Blobs
    <2>2. PICK i \in DOMAIN e.got : e.doc.leaves[i].text = w /\ e.replacement[w] = e.got[i].text
      BY <2>1 DEF ReplacedOK
    <2>3. e.got[i] \in E /\ w = Render(e.got[i].doc)
      BY <2>1, <2>2, BlobFacts
    <2>4. e.got[i].mapping \subseteq e.mapping
      BY DEF MappingOK
    <2> QED BY <1>0, <2>2, <2>3, <2>4, AnswerReads
  <1> QED BY <1>1, <1>2

\* No value of the mapping has a bracket in it.
LEMMA ValuesPlain ==
  ASSUME NEW S, NEW E, Answers(S, E), Numbered(S), NEW e, Built(e, E), ReplacedOK(e, S),
         MappingOK(e, S), Faithful(E), Untangled(e), NEW p \in e.mapping
  PROVE  Without("[", p[2])
  <1>1. CASE p[2] \in DOMAIN e.replacement
    BY <1>1, KeyClear
  <1>2. CASE \E i \in DOMAIN e.got : p \in e.got[i].mapping
    <2>1. PICK i \in DOMAIN e.got : p \in e.got[i].mapping
      BY <1>2
    <2>2. e.got[i] \in E
      BY DEF Built, Gave
    <2>3. ReadsOK(e.got[i], E)
      BY <2>2 DEF Answers, Answered
    <2> QED BY <2>1, <2>3 DEF ReadsOK
  <1> QED BY <1>1, <1>2 DEF MappingOK

\* Neither the tokens nor the values of an undamaged answer are escaped in it.
LEMMA MappingUnescaped ==
  ASSUME NEW S, Numbered(S), NEW e, MappingOK(e, S), e.doc \in Docs, Undamaged(e, {e})
  PROVE  Unescaped(e.doc.format, e.mapping)
  <1>1. ASSUME NEW p \in e.mapping
        PROVE  Escape(e.doc.format, p[1]) = p[1] /\ Escape(e.doc.format, p[2]) = p[2]
    <2>1. PICK v \in DOMAIN S : p = Entry(S, v)
      BY DEF MappingOK
    <2>2. S[v] \in Tokened /\ p[1] = TokenText(S[v])
      BY <2>1 DEF Numbered, Tokened, Entry
    <2>3. Escape(e.doc.format, p[1]) = p[1]
      BY <2>2, DocFacts, TokenPlain
    <2>4. Escape(e.doc.format, p[2]) = p[2]
      BY DEF Undamaged
    <2> QED BY <2>3, <2>4
  <1> QED BY <1>1 DEF Unescaped

\* The text at the end of a call stands for its document.
LEMMA TextReads ==
  ASSUME NEW S, NEW E, Answers(S, E), Numbered(S), NEW e, Built(e, E), ReplacedOK(e, S),
         MappingOK(e, S), e.text = Reinject(e.doc, OwnText(e), e.replacement),
         Faithful(E), Untangled(e), Undamaged(e, {e}), Without("[", Render(e.doc))
  PROVE  Reads(Alphabet, "[", e.mapping, e.text, Render(e.doc))
  <1> DEFINE d == e.doc
             R == e.replacement
             P == e.mapping
  <1>0. d \in Docs /\ Written(E) /\ Sends(R) /\ Book(Alphabet, "[", "]", P)
    BY AnswersWritten, ReplacementFacts, MappingBook DEF Built, Sends
  <1>1. \A i \in 1..Len(d.leaves) :
           /\ AsIs(d)[i] \in Seq(Alphabet) /\ Without("[", AsIs(d)[i])
           /\ AsIs(d)[i] = Literal(d.format, d.leaves[i])
    BY <1>0, RenderIs, WithTextsWithout DEF Fills
  <1>2. \A i \in 1..Len(d.leaves) :
           /\ d.leaves[i].text \in Seq(Alphabet) /\ Without("[", d.leaves[i].text)
           /\ Reads(Alphabet, "[", P, d.leaves[i].text, d.leaves[i].text)
           /\ Reads(Alphabet, "[", P, AsIs(d)[i], AsIs(d)[i])
    <2> SUFFICES ASSUME NEW i \in 1..Len(d.leaves)
                 PROVE  /\ d.leaves[i].text \in Seq(Alphabet) /\ Without("[", d.leaves[i].text)
                        /\ Reads(Alphabet, "[", P, d.leaves[i].text, d.leaves[i].text)
                        /\ Reads(Alphabet, "[", P, AsIs(d)[i], AsIs(d)[i])
      OBVIOUS
    <2>1. d.leaves[i].text \in Seq(Alphabet)
      BY <1>0, LeafFacts
    <2>2. Without("[", d.leaves[i].text)
      BY <1>0, <1>1, <2>1, DocFacts, LiteralIs
    <2> QED BY <1>1, <2>1, <2>2, ReadsPlain
  <1>3. ~Literals(d) => /\ Marked(Alphabet, R)
                        /\ \A w \in DOMAIN R : Fits(Alphabet, "[", "]", P, w, R[w])
    <2> SUFFICES ASSUME ~Literals(d)
                 PROVE  /\ Marked(Alphabet, R)
                        /\ \A w \in DOMAIN R : Fits(Alphabet, "[", "]", P, w, R[w])
      OBVIOUS
    <2>1. Marked(Alphabet, R)
      BY ReplacementFacts
    <2>2. ASSUME NEW w \in DOMAIN R PROVE Fits(Alphabet, "[", "]", P, w, R[w])
      <3>1. w # <<>> /\ R[w] \in Seq(Alphabet)
        BY <2>1 DEF Marked, Words
      <3>2. w \in Seq(Alphabet) /\ Without("[", w) /\ \A p \in P : Clear(w, p[1])
        BY <3>1, KeyClear
      <3>3. Reads(Alphabet, "[", P, R[w], w)
        BY KeyReads
      <3> QED BY <3>1, <3>2, <3>3 DEF Fits
    <2> QED BY <2>1, <2>2
  <1>4. CASE ByLeaf(d)
    <2>1. e.text = WithTexts(d, New(e)) /\ Fills(d, New(e))
      BY <1>0, <1>4, NewFacts
    <2>2. ASSUME NEW i \in 1..Len(d.leaves)
          PROVE  Reads(Alphabet, "[", P, New(e)[i], AsIs(d)[i])
      <3> DEFINE l == d.leaves[i]
                 t == d.leaves[i].text
      <3>1. PICK r : Became(d, l, R, r) /\ New(e)[i] = Literal(d.format, r)
        BY <1>0, <1>4, NewFacts
      <3>2. Reads(Alphabet, "[", P, r.text, t) /\ r.string = l.string
        <4>1. CASE r = l
          BY <1>2, <4>1
        <4>2. CASE d.format # "sql" /\ r.string = l.string /\ r.text = ReplaceInTurn(t, R)
          <5>1. ~Literals(d)
            BY <4>2 DEF Literals
          <5>2. Reads(Alphabet, "[", P, ReplaceInTurn(t, R), t)
            BY <1>0, <1>2, <1>3, <5>1, ReadsInTurn
          <5> QED BY <4>2, <5>2
        <4>3. CASE d.format = "sql" /\ r.string = TRUE /\ t \in DOMAIN R /\ r.text = R[t]
          <5>1. Reads(Alphabet, "[", P, R[t], t)
            BY <4>3, KeyReads
          <5>2. l.string = TRUE
            <6>1. l.string /\ l.string \in BOOLEAN
              BY <1>0, <4>3, LeafFacts DEF Undamaged
            <6> QED BY <6>1
          <5> QED BY <4>3, <5>1, <5>2
        <4> QED BY <3>1, <4>1, <4>2, <4>3 DEF Became
      <3>3. Unescaped(d.format, P) /\ d.format \in Formats
        BY <1>0, MappingUnescaped, DocFacts
      <3>4. Reads(Alphabet, "[", P, Literal(d.format, r), Literal(d.format, l))
        BY <1>0, <3>2, <3>3, LiteralReads
      <3> QED BY <1>1, <3>1, <3>4
    <2>3. Fills(d, AsIs(d)) /\ Render(d) = WithTexts(d, AsIs(d))
      BY <1>0, RenderIs
    <2> QED BY <1>0, <2>1, <2>2, <2>3, WithTextsReads
  <1>5. CASE ~ByLeaf(d)
    <2>0. PICK own : own = OwnText(e)
      OBVIOUS
    <2>1. e.text = ReplaceInTurn(own, R)
      BY <1>5, <2>0 DEF Reinject
    <2>2. own = WithTexts(d, Mine(e)) /\ Fills(d, Mine(e))
      BY <1>0, <2>0, OwnTextIs
    <2>3. ASSUME NEW i \in 1..Len(d.leaves)
          PROVE  Reads(Alphabet, "[", P, Mine(e)[i], AsIs(d)[i])
      <3>1. Without("[", AsIs(d)[i])
        BY <1>1
      <3>2. CASE Mine(e)[i] = AsIs(d)[i]
        BY <1>2, <3>2
      <3>3. CASE /\ i \in DOMAIN e.got /\ Mine(e)[i] = e.got[i].text
                 /\ e.got[i] \in E /\ AsIs(d)[i] = Render(e.got[i].doc)
        <4>1. e.got[i].mapping \subseteq P
          BY <3>3 DEF MappingOK
        <4>2. Reads(Alphabet, "[", P, e.got[i].text, Render(e.got[i].doc))
          BY <3>1, <3>3, <4>1, AnswerReads
        <4> QED BY <3>1, <3>3, <4>2
      <3> QED BY <3>2, <3>3, MineFacts
    <2>4. Fills(d, AsIs(d)) /\ Render(d) = WithTexts(d, AsIs(d))
      BY <1>0, RenderIs
    <2>5. Reads(Alphabet, "[", P, own, Render(d))
      BY <1>0, <2>2, <2>3, <2>4, WithTextsReads
    <2>6. ~Literals(d)
      BY <1>5 DEF Literals, ByLeaf
    <2> QED BY <1>0, <1>3, <2>1, <2>5, <2>6, ReadsInTurn
  <1> QED BY <1>4, <1>5

---------------------------------------------------------------------------
(* Calls under way. *)

FrameOK(f, S, E) ==
    /\ f = [doc |-> f.doc, place |-> f.place, untried |-> f.untried,
            got |-> f.got, known |-> f.known]
    /\ Built(f, E) /\ f.untried \subseteq Nests(f.doc)
    /\ KeysOK(f.doc, f.known) /\ f.known \subseteq DOMAIN S

\* The call g is one that the call f makes of itself.
Nesting(f, g) ==
    /\ g.place \in Nests(f.doc) /\ g.doc = f.doc.leaves[g.place].inner
    /\ f.doc.format = "freetext" \/ g.doc.format \in {"json", "xml"}

StackOK(st, d, S, E) ==
    /\ \E F : st \in Seq(F)
    /\ \A i \in 1..Len(st) : FrameOK(st[i], S, E)
    /\ \A i \in 1..Len(st) : i > 1 => Nesting(st[i - 1], st[i])
    /\ Len(st) > 0 => st[1].doc = d

\* More answers change nothing of a frame or an answer.
LEMMA BuiltMore ==
  ASSUME NEW x, NEW E, NEW F, Built(x, E), E \subseteq F
  PROVE  Built(x, F)
  BY DEF Built, Gave

\* What is faithful among many answers is so among fewer.
LEMMA FaithfulLess ==
  ASSUME NEW E, NEW F, E \subseteq F, Faithful(F)
  PROVE  Faithful(E)
  BY DEF Faithful, Undamaged

\* An answer stays one when the store grows and others come.
LEMMA AnsweredMore ==
  ASSUME NEW S, NEW T, Grows(S, T), NEW E, NEW F, E \subseteq F, NEW e, Answered(e, S, E)
  PROVE  Answered(e, T, F)
  <1>1. Built(e, F)
    BY BuiltMore DEF Answered
  <1>2. ReplacedOK(e, T)
    BY DEF Answered, ReplacedOK, Grows, Entry
  <1>3. MappingOK(e, T)
    <2>1. MappingOK(e, S)
      BY DEF Answered
    <2>2. ASSUME NEW p \in e.mapping
          PROVE  \E v \in DOMAIN T : v \in Seq(Alphabet) /\ p = Entry(T, v)
      <3>1. PICK v \in DOMAIN S : v \in Seq(Alphabet) /\ p = Entry(S, v)
        BY <2>1 DEF MappingOK
      <3> QED BY <3>1 DEF Grows, Entry
    <2> QED BY <2>1, <2>2 DEF MappingOK
  <1>4. ReadsOK(e, F)
    BY FaithfulLess DEF Answered, ReadsOK
  <1> QED BY <1>1, <1>2, <1>3, <1>4 DEF Answered

\* So does a call under way.
LEMMA FrameMore ==
  ASSUME NEW S, NEW T, Grows(S, T), NEW E, NEW F, E \subseteq F, NEW f, FrameOK(f, S, E)
  PROVE  FrameOK(f, T, F)
  <1>1. Built(f, F)
    BY BuiltMore DEF FrameOK
  <1>2. f.known \subseteq DOMAIN T
    BY DEF FrameOK, Grows
  <1> QED BY <1>1, <1>2 DEF FrameOK

\* So do all of them.
LEMMA StackMore ==
  ASSUME NEW S, NEW T, Grows(S, T), NEW E, NEW F, E \subseteq F,
         NEW st, NEW d, StackOK(st, d, S, E)
  PROVE  StackOK(st, d, T, F)
  BY FrameMore DEF StackOK

\* The innermost call changes, but not its document.
LEMMA StackTop ==
  ASSUME NEW st, NEW d, NEW S, NEW E, StackOK(st, d, S, E), Len(st) > 0,
         NEW g, FrameOK(g, S, E), g.doc = st[Len(st)].doc, g.place = st[Len(st)].place
  PROVE  LET new == [st EXCEPT ![Len(st)] = g]
         IN StackOK(new, d, S, E) /\ Len(new) = Len(st) /\ new[Len(st)] = g
  <1> DEFINE n == Len(st)
             new == [st EXCEPT ![n] = g]
  <1>1. PICK F : st \in Seq(F)
    BY DEF StackOK
  <1>2. st \in Seq(F \cup {g}) /\ n \in 1..Len(st) /\ n \in Nat
    BY <1>1
  <1>3. /\ new \in Seq(F \cup {g}) /\ Len(new) = n /\ new[n] = g
        /\ \A i \in 1..n : i # n => new[i] = st[i]
    BY <1>2
  <1>4. \A i \in 1..n : new[i].doc = st[i].doc /\ new[i].place = st[i].place
    BY <1>3
  <1>5. \A i \in 1..n : FrameOK(new[i], S, E)
    BY <1>3 DEF StackOK
  <1>6. ASSUME NEW i \in 1..n, i > 1 PROVE Nesting(new[i - 1], new[i])
    <2>1. Nesting(st[i - 1], st[i]) /\ i - 1 \in 1..n
      BY <1>2, <1>6 DEF StackOK
    <2> QED BY <1>4, <2>1 DEF Nesting
  <1>7. new[1].doc = d
    BY <1>2, <1>4 DEF StackOK
  <1> HIDE DEF new
  <1>8. StackOK(new, d, S, E)
    BY <1>3, <1>5, <1>6, <1>7 DEF StackOK
  <1> QED BY <1>3, <1>8 DEF new

\* The innermost call calls itself.
LEMMA StackPush ==
  ASSUME NEW st, NEW d, NEW S, NEW E, StackOK(st, d, S, E), Len(st) > 0,
         NEW g, FrameOK(g, S, E), Nesting(st[Len(st)], g)
  PROVE  StackOK(Append(st, g), d, S, E) /\ Len(Append(st, g)) > 0
  <1> DEFINE n == Len(st)
             new == Append(st, g)
  <1>1. PICK F : st \in Seq(F)
    BY DEF StackOK
  <1>2. st \in Seq(F \cup {g}) /\ n \in Nat /\ n > 0
    BY <1>1
  <1>3. /\ new \in Seq(F \cup {g}) /\ Len(new) = n + 1 /\ new[n + 1] = g
        /\ \A i \in 1..n : new[i] = st[i]
    BY <1>2
  <1> HIDE DEF new
  <1>5. \A i \in 1..(n + 1) : FrameOK(new[i], S, E)
    BY <1>2, <1>3 DEF StackOK
  <1>6. ASSUME NEW i \in 1..(n + 1), i > 1 PROVE Nesting(new[i - 1], new[i])
    <2>1. CASE i = n + 1
      BY <1>2, <1>3, <2>1
    <2>2. CASE i # n + 1
      <3>1. i \in 1..n /\ i - 1 \in 1..n
        BY <1>2, <1>6, <2>2
      <3>2. Nesting(st[i - 1], st[i])
        BY <1>6, <3>1 DEF StackOK
      <3> QED BY <1>3, <3>1, <3>2
    <2> QED BY <2>1, <2>2
  <1>7. new[1].doc = d
    BY <1>2, <1>3 DEF StackOK
  <1>8. StackOK(new, d, S, E) /\ Len(new) > 0
    BY <1>2, <1>3, <1>5, <1>6, <1>7 DEF StackOK
  <1> QED BY <1>8 DEF new

\* The innermost call ends or fails.
LEMMA StackPop ==
  ASSUME NEW st, NEW d, NEW S, NEW E, StackOK(st, d, S, E), Len(st) > 1
  PROVE  /\ StackOK(Front(st), d, S, E) /\ Len(Front(st)) = Len(st) - 1
         /\ Front(st)[Len(st) - 1] = st[Len(st) - 1]
  <1> DEFINE n == Len(st)
             new == Front(st)
  <1>1. PICK F : st \in Seq(F)
    BY DEF StackOK
  <1>2. n \in Nat /\ n > 1
    BY <1>1
  <1>3. /\ new \in Seq(F) /\ Len(new) = n - 1
        /\ \A i \in 1..(n - 1) : new[i] = st[i]
    BY <1>1, <1>2 DEF Front
  <1> HIDE DEF new
  <1>5. \A i \in 1..(n - 1) : FrameOK(new[i], S, E)
    BY <1>2, <1>3 DEF StackOK
  <1>6. ASSUME NEW i \in 1..(n - 1), i > 1 PROVE Nesting(new[i - 1], new[i])
    <2>1. i \in 1..n /\ i - 1 \in 1..(n - 1)
      BY <1>2, <1>6
    <2> QED BY <1>3, <1>6, <2>1 DEF StackOK
  <1>7. new[1].doc = d
    BY <1>2, <1>3 DEF StackOK
  <1>8. StackOK(new, d, S, E)
    BY <1>2, <1>3, <1>5, <1>6, <1>7 DEF StackOK
  <1> QED BY <1>2, <1>3, <1>8 DEF new

\* A stack is empty when its length is zero.
LEMMA NotEmpty ==
  ASSUME NEW F, NEW s \in Seq(F)
  PROVE  s # <<>> <=> Len(s) > 0
  <1>1. PICK z \in Seq(F) : z = <<>> /\ Len(z) = 0
    BY EmptySeq
  <1>2. s = z <=> Len(s) = 0
    BY <1>1
  <1>3. Len(s) \in Nat
    OBVIOUS
  <1>4. s = <<>> <=> Len(s) = 0
    BY <1>1, <1>2
  <1> QED BY <1>3, <1>4

\* A call that begins.
LEMMA FrameBegins ==
  ASSUME NEW d \in Docs, NEW place, NEW S, NEW E
  PROVE  FrameOK(Frame(d, place), S, E)
  <1> DEFINE f == Frame(d, place)
  <1>1. PICK z : z = <<>> /\ DOMAIN z = {}
    <2>1. PICK z \in Seq({}) : z = <<>> /\ Len(z) = 0
      BY EmptySeq
    <2>2. DOMAIN z = {}
      BY <2>1
    <2> QED BY <2>1, <2>2
  <1>2. f = [doc |-> d, place |-> place, untried |-> Nests(d), got |-> z, known |-> {}]
    BY <1>1 DEF Frame
  <1>3. /\ f = [doc |-> f.doc, place |-> f.place, untried |-> f.untried,
                got |-> f.got, known |-> f.known]
        /\ f.doc = d /\ f.untried = Nests(d) /\ f.got = z /\ f.known = {}
    BY <1>2
  <1> HIDE DEF f
  <1>4. Built(f, E)
    BY <1>1, <1>3 DEF Built
  <1>5. KeysOK(f.doc, f.known)
    BY <1>3, FS_EmptySet DEF KeysOK
  <1>6. FrameOK(f, S, E)
    BY <1>3, <1>4, <1>5 DEF FrameOK
  <1> QED BY <1>6 DEF f

---------------------------------------------------------------------------
(* The end of a call. *)

\* What is asked depends on the document and on what was given back for the
\* documents in it.
LEMMA SameAsked ==
  ASSUME NEW x, NEW y, x.doc = y.doc, x.got = y.got
  PROVE  Columns(x) = Columns(y) /\ \A i : Requests(x, i) = Requests(y, i)
  <1>1. Scalars(x) = Scalars(y)
    BY DEF Scalars
  <1>2. \A i : SameField(x, i) = SameField(y, i)
    BY <1>1 DEF SameField
  <1>3. OwnText(x) = OwnText(y)
    BY DEF OwnText
  <1>4. Columns(x) = Columns(y)
    BY <1>1, <1>2 DEF Columns
  <1>5. \A i : Requests(x, i) = Requests(y, i)
    BY <1>2, <1>3 DEF Requests
  <1> QED BY <1>4, <1>5

\* When no request is open, all of them were met.
LEMMA CompleteAsked ==
  ASSUME NEW f, Complete(f)
  PROVE  Asked(f, f.known \cup Blobs(f))
  <1> SUFFICES ASSUME NEW i \in Columns(f), NEW q \in Requests(f, i)
               PROVE  q.value \in f.known \cup Blobs(f)
    BY DEF Asked
  <1>1. i \notin Unfinished(f)
    BY DEF Complete
  <1>2. Open(f, i) = {}
    BY <1>1 DEF Unfinished
  <1>3. q \notin Open(f, i)
    BY <1>2
  <1> QED BY <1>3 DEF Open

\* The parts of what a call gives at its end.
LEMMA EndedIs ==
  ASSUME NEW f
  PROVE  /\ Ended(f).doc = f.doc /\ Ended(f).got = f.got
         /\ Ended(f).replacement = Replacement(f) /\ Ended(f).mapping = Mapping(f)
         /\ Ended(f).text = Reinject(f.doc, OwnText(f), Replacement(f))
         /\ DOMAIN Replacement(f) = f.known \cup Blobs(f)
         /\ Blobs(Ended(f)) = Blobs(f) /\ OwnText(Ended(f)) = OwnText(f)
  <1>1. /\ Ended(f).doc = f.doc /\ Ended(f).got = f.got
        /\ Ended(f).replacement = Replacement(f) /\ Ended(f).mapping = Mapping(f)
        /\ Ended(f).text = Reinject(f.doc, OwnText(f), Replacement(f))
    BY DEF Ended
  <1>2. DOMAIN Replacement(f) = f.known \cup Blobs(f)
    BY DEF Replacement
  <1>3. Blobs(Ended(f)) = Blobs(f)
    BY <1>1 DEF Blobs
  <1>4. OwnText(Ended(f)) = OwnText(f)
    BY <1>1 DEF OwnText
  <1> QED BY <1>1, <1>2, <1>3, <1>4

\* At the end of a call, what replaces each key is its token or an answer.
LEMMA EndedReplaced ==
  ASSUME NEW E, Answers(store, E), NEW f, FrameOK(f, store, E)
  PROVE  ReplacedOK(Ended(f), store)
  <1> DEFINE e == Ended(f)
             R == Replacement(f)
  <1>0. /\ e.doc = f.doc /\ e.got = f.got /\ e.replacement = R /\ e.mapping = Mapping(f)
        /\ DOMAIN R = f.known \cup Blobs(f) /\ Blobs(e) = Blobs(f)
    BY EndedIs
  <1>1. /\ Built(f, E) /\ f.known \subseteq DOMAIN store
        /\ IsFiniteSet(f.known) /\ f.known \subseteq Seq(Alphabet)
        /\ <<>> \in f.known => Literals(f.doc)
    BY DEF FrameOK, KeysOK
  <1>2. IsFiniteSet(Blobs(f)) /\ Blobs(f) \subseteq Seq(Alphabet) /\ <<>> \notin Blobs(f)
    BY <1>1, BlobsAre
  <1>3. IsFiniteSet(f.known \cup Blobs(f))
    BY <1>1, <1>2, FS_Union
  <1> HIDE DEF e, R
  <1>4. KeysOK(e.doc, DOMAIN e.replacement)
    <2>1. DOMAIN e.replacement \subseteq Seq(Alphabet)
      BY <1>0, <1>1, <1>2
    <2>2. <<>> \in DOMAIN e.replacement => Literals(e.doc)
      BY <1>0, <1>1, <1>2, Zenon
    <2>3. IsFiniteSet(DOMAIN e.replacement)
      BY <1>0, <1>3
    <2> QED BY <2>1, <2>2, <2>3 DEF KeysOK
  <1>5. ASSUME NEW w \in Own(e)
        PROVE  /\ w \in DOMAIN store /\ e.replacement[w] = TokenText(store[w])
               /\ Entry(store, w) \in e.mapping
    <2>1. w \in f.known /\ w \notin Blobs(f)
      BY <1>0 DEF Own
    <2>2. e.replacement[w] = TokenText(store[w])
      BY <1>0, <2>1 DEF R, Replacement
    <2>3. Entry(store, w) \in e.mapping
      BY <1>0, <2>1 DEF Mapping, Entry
    <2> QED BY <1>1, <2>1, <2>2, <2>3
  <1>6. ASSUME NEW b \in Blobs(e)
        PROVE  /\ b \in DOMAIN e.replacement
               /\ \E i \in DOMAIN e.got : /\ e.doc.leaves[i].text = b
                                          /\ e.replacement[b] = e.got[i].text
    <2>1. b \in Blobs(f) /\ b \in DOMAIN R
      BY <1>0
    <2>2. \E i \in DOMAIN f.got : f.doc.leaves[i].text = b
      BY <2>1 DEF Blobs
    <2> DEFINE i == CHOOSE i \in DOMAIN f.got : f.doc.leaves[i].text = b
    <2>3. i \in DOMAIN f.got /\ f.doc.leaves[i].text = b
      BY <2>2
    <2>4. R[b] = f.got[i].text
      BY <2>1 DEF R, Replacement
    <2> HIDE DEF i
    <2> QED BY <1>0, <2>1, <2>3, <2>4
  <1>7. ReplacedOK(e, store)
    BY <1>4, <1>5, <1>6 DEF ReplacedOK
  <1> QED BY <1>7 DEF e

\* At the end of a call, the mapping has the tokens of all keys, nested ones
\* too.
LEMMA EndedMapping ==
  ASSUME NEW E, Answers(store, E), NEW f, FrameOK(f, store, E)
  PROVE  MappingOK(Ended(f), store)
  <1> DEFINE e == Ended(f)
             M == {Entry(store, v) : v \in f.known}
             G == {f.got[i].mapping : i \in DOMAIN f.got}
  <1>0. /\ e.got = f.got /\ e.mapping = Mapping(f)
        /\ DOMAIN e.replacement = f.known \cup Blobs(f)
    BY EndedIs
  <1>1. /\ Built(f, E) /\ f.known \subseteq DOMAIN store
        /\ IsFiniteSet(f.known) /\ f.known \subseteq Seq(Alphabet)
    BY DEF FrameOK, KeysOK
  <1>2. e.mapping = M \cup UNION G
    BY <1>0 DEF Mapping, Entry
  <1>3. \A i \in DOMAIN f.got : f.got[i] \in E /\ MappingOK(f.got[i], store)
    BY <1>1 DEF Built, Gave, Answers, Answered
  <1>4. IsFiniteSet(M)
    <2> DEFINE g == [v \in f.known |-> Entry(store, v)]
    <2>1. g \in Surjection(f.known, M)
      BY DEF Surjection
    <2> QED BY <1>1, <2>1, FS_Surjection
  <1>5. IsFiniteSet(UNION G)
    <2>1. IsFiniteSet(DOMAIN f.got)
      BY <1>1, BlobsAre
    <2> DEFINE g == [i \in DOMAIN f.got |-> f.got[i].mapping]
    <2>2. g \in Surjection(DOMAIN f.got, G)
      BY DEF Surjection
    <2>3. IsFiniteSet(G)
      BY <2>1, <2>2, FS_Surjection
    <2>4. \A m \in G : IsFiniteSet(m)
      BY <1>3 DEF MappingOK
    <2> QED BY <2>3, <2>4, FS_UNION
  <1>6. IsFiniteSet(e.mapping)
    BY <1>2, <1>4, <1>5, FS_Union
  <1>7. ASSUME NEW p \in e.mapping
        PROVE  /\ \E v \in DOMAIN store : v \in Seq(Alphabet) /\ p = Entry(store, v)
               /\ \/ p[2] \in DOMAIN e.replacement
                  \/ \E i \in DOMAIN e.got : p \in e.got[i].mapping
    <2>1. CASE \E v \in f.known : p = Entry(store, v)
      <3>1. PICK v \in f.known : p = Entry(store, v)
        BY <2>1
      <3>2. p[2] = v
        BY <3>1 DEF Entry
      <3> QED BY <1>0, <1>1, <3>1, <3>2
    <2>2. CASE \E i \in DOMAIN f.got : p \in f.got[i].mapping
      <3>1. PICK i \in DOMAIN f.got : p \in f.got[i].mapping
        BY <2>2
      <3>2. \E v \in DOMAIN store : v \in Seq(Alphabet) /\ p = Entry(store, v)
        BY <1>3, <3>1 DEF MappingOK
      <3> QED BY <1>0, <3>1, <3>2
    <2>3. p \in M \/ p \in UNION G
      BY <1>2
    <2> QED BY <2>1, <2>2, <2>3
  <1>8. \A i \in DOMAIN e.got : e.got[i].mapping \subseteq e.mapping
    BY <1>0, <1>2
  <1> HIDE DEF e
  <1>9. MappingOK(e, store)
    BY <1>6, <1>7, <1>8 DEF MappingOK
  <1> QED BY <1>9 DEF e

\* What a call gives at its end is an answer, and every value asked for is
\* replaced.
LEMMA Ending ==
  ASSUME NEW E, Answers(store, E), Numbered(store), NEW f, FrameOK(f, store, E), Ends(f)
  PROVE  /\ Answered(Ended(f), store, E \cup {Ended(f)})
         /\ Asked(Ended(f), DOMAIN Ended(f).replacement)
  <1> DEFINE e == Ended(f)
             F == E \cup {e}
  <1>0. /\ e.doc = f.doc /\ e.got = f.got
        /\ e.text = Reinject(e.doc, OwnText(e), e.replacement)
        /\ DOMAIN e.replacement = f.known \cup Blobs(f)
    BY EndedIs
  <1>1. ReplacedOK(e, store) /\ MappingOK(e, store)
    BY EndedReplaced, EndedMapping
  <1>2. Asked(e, DOMAIN e.replacement)
    <2>1. Asked(f, f.known \cup Blobs(f))
      BY CompleteAsked DEF Ends
    <2>2. Columns(e) = Columns(f) /\ \A i : Requests(e, i) = Requests(f, i)
      BY <1>0, SameAsked
    <2> QED BY <1>0, <2>1, <2>2 DEF Asked
  <1> HIDE DEF e
  <1>3. Built(e, E)
    BY <1>0 DEF FrameOK, Built
  <1>4. TextOK(e)
    BY <1>0, <1>1, <1>3, TextEnd
  <1>5. ReadsOK(e, F)
    <2> SUFFICES ASSUME Faithful(F)
                 PROVE  /\ \A p \in e.mapping : Without("[", p[2])
                        /\ Without("[", Render(e.doc)) =>
                              Reads(Alphabet, "[", e.mapping, e.text, Render(e.doc))
      BY DEF ReadsOK
    <2>1. Untangled(e) /\ Undamaged(e, {e}) /\ Faithful(E)
      <3>1. Faithful(E)
        BY FaithfulLess
      <3>2. Untangled(e) /\ Undamaged(e, F) /\ e \in F
        BY DEF Faithful
      <3>3. Undamaged(e, {e})
        BY <3>2 DEF Undamaged
      <3> QED BY <3>1, <3>2, <3>3
    <2>2. \A p \in e.mapping : Without("[", p[2])
      BY <1>1, <1>3, <2>1, ValuesPlain
    <2>3. Without("[", Render(e.doc)) =>
              Reads(Alphabet, "[", e.mapping, e.text, Render(e.doc))
      BY <1>0, <1>1, <1>3, <2>1, TextReads
    <2> QED BY <2>2, <2>3
  <1>6. Built(e, F)
    BY <1>3, BuiltMore
  <1>7. Answered(e, store, F)
    BY <1>0, <1>1, <1>4, <1>5, <1>6 DEF Answered
  <1> QED BY <1>2, <1>7 DEF e

---------------------------------------------------------------------------
(* The invariant and the steps. *)

Keeping == \A e \in ended : Asked(e, DOMAIN e.replacement)
Replied ==
    \E e \in ended : e.doc = doc /\ result = e.text /\ mapping = e.mapping
AnonInv ==
    /\ CallOK /\ Numbered(store)
    /\ StackOK(stack, doc, store, ended)
    /\ Answers(store, ended) /\ Keeping
    /\ pc \in {"idle", "running", "done", "failed"}
    /\ pc = "running" <=> Len(stack) > 0
    /\ pc = "done" => Replied
    /\ pc # "done" => mapping = {}

\* What is asked for does not change during a call.
LEMMA AskedStays ==
  ASSUME callUnchanged, NEW x, NEW K
  PROVE  Asked(x, K)' <=> Asked(x, K)
  <1>1. Context' = Context
    BY DEF callUnchanged, Context
  <1>2. \A i : Requests(x, i)' = Requests(x, i)
    BY <1>1 DEF callUnchanged, Requests, AnonymizeColumn
  <1> QED BY <1>2 DEF Asked

\* Init.
LEMMA AnonInitOK == Init => AnonInv
  <1> SUFFICES ASSUME Init PROVE AnonInv
    OBVIOUS
  <1>1. PICK call \in Calls : /\ doc = call.doc /\ context = call.context
                              /\ kb = call.kb /\ verdict = call.verdict
    BY DEF Init
  <1>2. CallOK
    <2>1. call \in [doc : Docs, context : [db : STRING \cup {None}, table : STRING \cup {None}],
                    kb : [FieldNames -> Seq(Rows)],
                    verdict : [FieldNames -> AllLabels \cup {None}]]
      BY AnonymizerAssumption DEF CallsAssumption
    <2>2. call = [doc |-> doc, context |-> context, kb |-> kb, verdict |-> verdict]
      BY <1>1, <2>1
    <2> QED BY <2>2 DEF CallOK
  <1>3. Numbered(store)
    BY AnonymizerAssumption DEF Init
  <1>4. \A F : stack \in Seq(F) /\ Len(stack) = 0
    <2>1. stack = <<>>
      BY DEF Init
    <2>2. ASSUME NEW F PROVE stack \in Seq(F) /\ Len(stack) = 0
      <3>1. PICK z \in Seq(F) : z = <<>> /\ Len(z) = 0
        BY EmptySeq
      <3> QED BY <2>1, <3>1
    <2> QED BY <2>2
  <1>5. StackOK(stack, doc, store, ended)
    BY <1>4 DEF StackOK
  <1>6. Answers(store, ended) /\ Keeping
    BY DEF Init, Answers, Keeping
  <1>7. pc = "idle" /\ mapping = {}
    BY DEF Init
  <1> QED BY <1>2, <1>3, <1>4, <1>5, <1>6, <1>7 DEF AnonInv

\* What a step that ends no call leaves.
LEMMA KeepingStays ==
  ASSUME callUnchanged, UNCHANGED ended, Keeping
  PROVE  Keeping'
  <1> SUFFICES ASSUME NEW e \in ended' PROVE Asked(e, DOMAIN e.replacement)'
    BY DEF Keeping
  <1>1. e \in ended /\ Asked(e, DOMAIN e.replacement)
    BY DEF Keeping
  <1> QED BY <1>1, AskedStays

\* The call stays the one that arrived.
LEMMA CallStays == ASSUME callUnchanged, CallOK PROVE CallOK'
  BY DEF callUnchanged, CallOK

\* A store that does not change has grown.
LEMMA GrowsItself == \A S : Grows(S, S)
  BY DEF Grows

\* POST /anonymize.
LEMMA RequestKeeps == ASSUME AnonInv, Request PROVE AnonInv'
  <1>1. doc \in Docs /\ callUnchanged /\ UNCHANGED <<store, mapping, ended>> /\ pc' = "running"
    BY CallFacts DEF AnonInv, Request
  <1>2. CallOK' /\ Keeping'
    BY <1>1, CallStays, KeepingStays DEF AnonInv
  <1> DEFINE f == Frame(doc, 0)
  <1>3. FrameOK(f, store, ended) /\ f.doc = doc
    BY <1>1, FrameBegins DEF Frame
  <1>4. stack' = <<f>>
    BY DEF Request
  <1> HIDE DEF f
  <1>5. stack' \in Seq({f}) /\ Len(stack') = 1 /\ stack'[1] = f
    BY <1>4
  <1>6. StackOK(stack', doc', store', ended')
    BY <1>1, <1>3, <1>5 DEF StackOK, callUnchanged
  <1>7. mapping' = {}
    BY <1>1 DEF AnonInv, Request
  <1> QED BY <1>1, <1>2, <1>5, <1>6, <1>7 DEF AnonInv

\* The innermost call.
LEMMA TopFacts ==
  ASSUME AnonInv, Len(stack) > 0
  PROVE  /\ \E F : stack \in Seq(F)
         /\ Len(stack) \in Nat /\ Len(stack) \in 1..Len(stack)
         /\ FrameOK(Top, store, ended) /\ Top.doc \in Docs /\ Built(Top, ended)
  <1>1. PICK F : stack \in Seq(F)
    BY DEF AnonInv, StackOK
  <1>2. Len(stack) \in Nat /\ Len(stack) \in 1..Len(stack)
    BY <1>1
  <1>3. FrameOK(Top, store, ended)
    BY <1>2 DEF AnonInv, StackOK, Top
  <1>4. Top.doc \in Docs /\ Built(Top, ended)
    BY <1>3 DEF FrameOK, Built
  <1> QED BY <1>1, <1>2, <1>3, <1>4

\* The function calls itself.
LEMMA EnterKeeps == ASSUME AnonInv, Enter PROVE AnonInv'
  <1>1. callUnchanged /\ UNCHANGED <<pc, store, mapping, ended, result>> /\ pc = "running"
    BY DEF Enter
  <1>2. CallOK' /\ Keeping'
    BY <1>1, CallStays, KeepingStays DEF AnonInv
  <1>3. Len(stack) > 0
    BY <1>1 DEF AnonInv
  <1> DEFINE n == Len(stack)
             f == stack[n]
  <1>4. PICK i \in Nested(f) :
           stack' = Append([stack EXCEPT ![n].untried = @ \ {i}],
                           Frame(f.doc.leaves[i].inner, i))
    BY DEF Enter, Top
  <1>5. /\ \E F : stack \in Seq(F)
        /\ n \in Nat /\ n \in 1..n /\ FrameOK(f, store, ended) /\ f.doc \in Docs
    BY <1>3, TopFacts DEF Top
  <1> DEFINE h == [f EXCEPT !.untried = @ \ {i}]
             st == [stack EXCEPT ![n] = h]
             g == Frame(f.doc.leaves[i].inner, i)
  <1>6. [stack EXCEPT ![n].untried = @ \ {i}] = st
    BY <1>5
  <1>7. /\ f = [doc |-> f.doc, place |-> f.place, untried |-> f.untried,
                got |-> f.got, known |-> f.known]
        /\ f.untried \subseteq Nests(f.doc)
    BY <1>5 DEF FrameOK
  <1>8. /\ h.doc = f.doc /\ h.place = f.place /\ h.untried = f.untried \ {i}
        /\ h.got = f.got /\ h.known = f.known
        /\ h = [doc |-> h.doc, place |-> h.place, untried |-> h.untried,
                got |-> h.got, known |-> h.known]
    BY <1>7
  <1> HIDE DEF h
  <1>9. FrameOK(h, store, ended)
    <2>1. Built(h, ended) /\ KeysOK(h.doc, h.known)
      BY <1>5, <1>8 DEF FrameOK, Built
    <2> QED BY <1>5, <1>8, <2>1 DEF FrameOK
  <1>10. StackOK(st, doc, store, ended) /\ Len(st) = n /\ st[n] = h
    BY <1>3, <1>8, <1>9, StackTop DEF AnonInv
  <1> HIDE DEF st
  <1>11. i \in f.untried /\ i \in Nests(f.doc) /\ i \in 1..Len(f.doc.leaves)
    BY <1>5, <1>7, PairFacts DEF Nested
  <1>12. f.doc.leaves[i].inner \in Docs
    BY <1>5, <1>11, PairFacts, LeafFacts
  <1>13. FrameOK(g, store, ended) /\ g.doc = f.doc.leaves[i].inner /\ g.place = i
    BY <1>12, FrameBegins DEF Frame
  <1>14. Nesting(st[Len(st)], g)
    <2>1. f.doc.format = "freetext" \/ f.doc.leaves[i].inner.format \in {"json", "xml"}
      BY DEF Nested
    <2> QED BY <1>8, <1>10, <1>11, <1>13, <2>1 DEF Nesting
  <1> HIDE DEF g
  <1>15. StackOK(stack', doc, store, ended) /\ Len(stack') > 0
    BY <1>3, <1>4, <1>6, <1>10, <1>13, <1>14, StackPush DEF g
  <1>16. StackOK(stack', doc', store', ended')
    BY <1>1, <1>15 DEF callUnchanged
  <1> QED BY <1>1, <1>2, <1>15, <1>16 DEF AnonInv

\* A frame with other values.
LEMMA KnownPut ==
  ASSUME NEW f, NEW K,
         f = [doc |-> f.doc, place |-> f.place, untried |-> f.untried,
              got |-> f.got, known |-> f.known]
  PROVE  LET h == [f EXCEPT !.known = K]
         IN /\ h.doc = f.doc /\ h.place = f.place /\ h.untried = f.untried
            /\ h.got = f.got /\ h.known = K
            /\ h = [doc |-> h.doc, place |-> h.place, untried |-> h.untried,
                    got |-> h.got, known |-> h.known]
  OBVIOUS

\* A token is asked for.
LEMMA TokenKeeps == ASSUME AnonInv, TokenStep PROVE AnonInv'
  <1>1. callUnchanged /\ UNCHANGED <<pc, result, mapping, ended>> /\ pc = "running"
    BY DEF TokenStep
  <1>2. CallOK' /\ Keeping'
    BY <1>1, CallStays, KeepingStays DEF AnonInv
  <1>3. Len(stack) > 0
    BY <1>1 DEF AnonInv
  <1> DEFINE n == Len(stack)
             f == stack[n]
             c == First(Unfinished(f))
  <1>4. PICK q \in Open(f, c) :
           Ask(q) /\ stack' = [stack EXCEPT ![n].known = @ \cup {q.value}]
    BY DEF TokenStep, Top
  <1>5. /\ \E F : stack \in Seq(F)
        /\ n \in Nat /\ n \in 1..n /\ FrameOK(f, store, ended) /\ f.doc \in Docs
        /\ Built(f, ended)
    BY <1>3, TopFacts DEF Top
  <1>6. c \in Columns(f)
    <2>1. Unfinished(f) # {}
      BY DEF TokenStep, Top
    <2>2. Unfinished(f) \subseteq Nat
      BY <1>5, ColumnFacts DEF Unfinished
    <2>3. c \in Unfinished(f)
      BY <2>1, <2>2, FirstOf
    <2> QED BY <2>3 DEF Unfinished
  <1>7. Right(f.doc, q)
    <2>1. q \in Requests(f, c)
      BY DEF Open
    <2>2. Written(ended)
      BY AnswersWritten DEF AnonInv
    <2> QED BY <1>5, <1>6, <2>1, <2>2, RequestType DEF AnonInv
  <1>8. store' = Asking(store, q)
    BY <1>4 DEF Ask, Asking, Sharing
  <1>9. Numbered(store') /\ Grows(store, store') /\ q.value \in DOMAIN store'
    BY <1>7, <1>8, AskingKeeps DEF AnonInv, Right
  <1>10. Answers(store', ended')
    BY <1>1, <1>9, AnsweredMore DEF AnonInv, Answers
  <1>11. StackOK(stack, doc, store', ended)
    BY <1>9, StackMore DEF AnonInv
  <1> DEFINE h == [f EXCEPT !.known = @ \cup {q.value}]
             st == [stack EXCEPT ![n] = h]
  <1>12. stack' = st
    BY <1>4, <1>5
  <1>13. FrameOK(f, store', ended)
    BY <1>5, <1>9, FrameMore
  <1>14. f = [doc |-> f.doc, place |-> f.place, untried |-> f.untried,
              got |-> f.got, known |-> f.known]
    BY <1>5 DEF FrameOK
  <1>15. /\ h.doc = f.doc /\ h.place = f.place /\ h.untried = f.untried
         /\ h.got = f.got /\ h.known = f.known \cup {q.value}
         /\ h = [doc |-> h.doc, place |-> h.place, untried |-> h.untried,
                 got |-> h.got, known |-> h.known]
    BY <1>14, KnownPut, Zenon
  <1> HIDE DEF h
  <1>16. FrameOK(h, store', ended)
    <2>1. Built(h, ended)
      BY <1>5, <1>15 DEF Built
    <2>2. KeysOK(h.doc, h.known)
      <3>1. KeysOK(f.doc, f.known)
        BY <1>5 DEF FrameOK
      <3>2. IsFiniteSet(h.known)
        BY <1>15, <3>1, FS_AddElement DEF KeysOK
      <3>3. h.known \subseteq Seq(Alphabet)
        BY <1>7, <1>15, <3>1 DEF KeysOK, Right, Wanted
      <3>4. <<>> \in h.known => Literals(h.doc)
        BY <1>7, <1>15, <3>1, Zenon DEF KeysOK, Right
      <3> QED BY <3>2, <3>3, <3>4 DEF KeysOK
    <2>3. h.known \subseteq DOMAIN store'
      BY <1>9, <1>13, <1>15 DEF FrameOK
    <2> QED BY <1>13, <1>15, <2>1, <2>2, <2>3 DEF FrameOK
  <1>17. StackOK(st, doc, store', ended) /\ Len(st) = n
    BY <1>3, <1>11, <1>15, <1>16, StackTop
  <1> HIDE DEF st
  <1>18. StackOK(stack', doc', store', ended') /\ Len(stack') > 0
    BY <1>1, <1>3, <1>12, <1>17 DEF callUnchanged
  <1> QED BY <1>1, <1>2, <1>9, <1>10, <1>18 DEF AnonInv

\* The end of a call adds an answer.
LEMMA EndKeeps ==
  ASSUME AnonInv, Len(stack) > 0, Ends(Top), callUnchanged, UNCHANGED store,
         ended' = ended \cup {Ended(Top)}
  PROVE  /\ Numbered(store') /\ Answers(store', ended') /\ Keeping'
         /\ StackOK(stack, doc', store', ended')
  <1> DEFINE e == Ended(Top)
  <1>1. FrameOK(Top, store, ended)
    BY TopFacts
  <1>2. Answered(e, store, ended \cup {e}) /\ Asked(e, DOMAIN e.replacement)
    BY <1>1, Ending DEF AnonInv
  <1>3. PICK a : a = e
    OBVIOUS
  <1>4. Answered(a, store', ended') /\ Asked(a, DOMAIN a.replacement) /\ ended' = ended \cup {a}
    BY <1>2, <1>3
  <1> HIDE DEF e
  <1>5. ended \subseteq ended' /\ Grows(store, store')
    BY <1>4, GrowsItself
  <1>6. Answers(store', ended')
    BY <1>4, <1>5, AnsweredMore DEF AnonInv, Answers
  <1>7. Keeping'
    <2> SUFFICES ASSUME NEW b \in ended' PROVE Asked(b, DOMAIN b.replacement)'
      BY DEF Keeping
    <2>1. Asked(b, DOMAIN b.replacement)
      BY <1>4 DEF AnonInv, Keeping
    <2> QED BY <2>1, AskedStays
  <1>8. StackOK(stack, doc', store', ended')
    BY <1>5, StackMore DEF AnonInv, callUnchanged
  <1> QED BY <1>6, <1>7, <1>8 DEF AnonInv

\* A nested call ends and its caller receives the answer.
LEMMA LeaveKeeps == ASSUME AnonInv, Leave PROVE AnonInv'
  <1>1. /\ callUnchanged /\ UNCHANGED <<pc, store, result, mapping>> /\ pc = "running"
        /\ Len(stack) > 1 /\ Ends(Top) /\ ended' = ended \cup {Ended(Top)}
    BY DEF Leave
  <1>2. Len(stack) > 0 /\ Len(stack) \in Nat /\ \E F : stack \in Seq(F)
    <2>1. PICK F : stack \in Seq(F)
      BY DEF AnonInv, StackOK
    <2> QED BY <1>1, <2>1
  <1>3. /\ Numbered(store') /\ Answers(store', ended') /\ Keeping' /\ CallOK'
        /\ StackOK(stack, doc', store', ended')
    BY <1>1, <1>2, EndKeeps, CallStays DEF AnonInv
  <1> DEFINE n == Len(stack)
             m == n - 1
             g == stack[n]
             e == Ended(g)
             f == stack[m]
             got == [i \in DOMAIN f.got \cup {g.place} |-> IF i = g.place THEN e ELSE f.got[i]]
             st == Front(stack)
             h == [f EXCEPT !.got = got]
  <1>4. stack' = [st EXCEPT ![m].got = [i \in DOMAIN @ \cup {g.place} |->
                                           IF i = g.place THEN e ELSE @[i]]]
    BY DEF Leave, Top
  <1>5. StackOK(st, doc', store', ended') /\ Len(st) = m /\ st[m] = f /\ m \in Nat /\ m > 0
    BY <1>1, <1>2, <1>3, StackPop
  <1>6. m \in 1..n /\ n \in 1..n /\ m \in 1..m
    BY <1>1, <1>2
  <1>7. FrameOK(f, store', ended') /\ Nesting(f, g)
    BY <1>1, <1>3, <1>6 DEF StackOK
  <1>8. e \in ended' /\ e.doc = g.doc
    BY <1>1, EndedIs DEF Top
  <1> HIDE DEF e
  <1>9. f = [doc |-> f.doc, place |-> f.place, untried |-> f.untried,
             got |-> f.got, known |-> f.known]
    BY <1>7 DEF FrameOK
  <1>10. stack' = [st EXCEPT ![m] = h]
    <2>1. \E F : st \in Seq(F)
      BY <1>5 DEF StackOK
    <2> HIDE DEF st
    <2> QED BY <1>4, <1>5, <1>6, <2>1
  <1>11. /\ h.doc = f.doc /\ h.place = f.place /\ h.untried = f.untried
         /\ h.got = got /\ h.known = f.known
         /\ h = [doc |-> h.doc, place |-> h.place, untried |-> h.untried,
                 got |-> h.got, known |-> h.known]
    BY <1>9
  <1> HIDE DEF h
  <1>12. Built(h, ended')
    <2>1. Built(f, ended')
      BY <1>7 DEF FrameOK
    <2>2. ASSUME NEW i \in DOMAIN got PROVE Gave(f.doc, i, got[i], ended')
      <3>1. CASE i = g.place
        BY <1>7, <1>8, <3>1 DEF Gave, Nesting
      <3>2. CASE i # g.place
        BY <2>1, <3>2 DEF Built
      <3> QED BY <3>1, <3>2
    <2>3. DOMAIN got \subseteq Nests(f.doc)
      BY <1>7, <2>1 DEF Built, Nesting
    <2> HIDE DEF got
    <2> QED BY <1>11, <2>1, <2>2, <2>3 DEF Built
  <1>13. FrameOK(h, store', ended')
    BY <1>7, <1>11, <1>12 DEF FrameOK
  <1> HIDE DEF st
  <1>14. h.doc = st[Len(st)].doc /\ h.place = st[Len(st)].place /\ Len(st) > 0
    BY <1>5, <1>11
  <1> HIDE DEF m, got
  <1>15. PICK d, S, E : d = doc' /\ S = store' /\ E = ended'
    OBVIOUS
  <1>16. StackOK(st, d, S, E) /\ FrameOK(h, S, E)
    BY <1>5, <1>13, <1>15
  <1>17. StackOK([st EXCEPT ![Len(st)] = h], d, S, E)
         /\ Len([st EXCEPT ![Len(st)] = h]) = Len(st)
    BY <1>14, <1>16, StackTop
  <1>18. StackOK(stack', doc', store', ended') /\ Len(stack') = m
    BY <1>5, <1>10, <1>15, <1>17
  <1> QED BY <1>1, <1>3, <1>5, <1>18 DEF AnonInv

\* A nested call fails.
LEMMA AbandonKeeps == ASSUME AnonInv, Abandon PROVE AnonInv'
  <1>1. /\ callUnchanged /\ UNCHANGED <<pc, store, result, mapping, ended>> /\ pc = "running"
        /\ Len(stack) > 1 /\ stack' = Front(stack)
    BY DEF Abandon
  <1>2. CallOK' /\ Keeping'
    BY <1>1, CallStays, KeepingStays DEF AnonInv
  <1>3. Len(stack) \in Nat
    <2>1. PICK F : stack \in Seq(F)
      BY DEF AnonInv, StackOK
    <2> QED BY <2>1
  <1>4. StackOK(stack', doc, store, ended) /\ Len(stack') = Len(stack) - 1
    BY <1>1, StackPop DEF AnonInv
  <1>5. Len(stack') > 0
    BY <1>1, <1>3, <1>4
  <1>6. StackOK(stack', doc', store', ended')
    BY <1>1, <1>4 DEF callUnchanged
  <1> QED BY <1>1, <1>2, <1>5, <1>6 DEF AnonInv

\* No call is under way any more.
LEMMA NoneLeft ==
  ASSUME stack' = <<>>
  PROVE  Len(stack') = 0 /\ \A d, S, E : StackOK(stack', d, S, E)
  <1>1. ASSUME NEW F PROVE stack' \in Seq(F) /\ Len(stack') = 0
    <2>1. PICK z \in Seq(F) : z = <<>> /\ Len(z) = 0
      BY EmptySeq
    <2> QED BY <2>1
  <1> QED BY <1>1 DEF StackOK

\* The outermost call ends.
LEMMA FinishKeeps == ASSUME AnonInv, Finish PROVE AnonInv'
  <1>1. /\ callUnchanged /\ UNCHANGED store /\ pc = "running" /\ pc' = "done"
        /\ Len(stack) = 1 /\ Ends(Top) /\ stack' = <<>> /\ ended' = ended \cup {Ended(Top)}
        /\ result' = Ended(Top).text /\ mapping' = Ended(Top).mapping
    BY DEF Finish
  <1>2. /\ Numbered(store') /\ Answers(store', ended') /\ Keeping' /\ CallOK'
    BY <1>1, EndKeeps, CallStays DEF AnonInv
  <1>3. Len(stack') = 0 /\ StackOK(stack', doc', store', ended')
    BY <1>1, NoneLeft
  <1>4. Replied'
    <2>1. Ended(Top).doc = Top.doc
      BY EndedIs
    <2>2. Top.doc = doc
      BY <1>1 DEF AnonInv, StackOK, Top
    <2>3. PICK e : e = Ended(Top)
      OBVIOUS
    <2>4. e \in ended' /\ e.doc = doc' /\ result' = e.text /\ mapping' = e.mapping
      BY <1>1, <2>1, <2>2, <2>3 DEF callUnchanged
    <2> QED BY <2>4 DEF Replied
  <1> QED BY <1>1, <1>2, <1>3, <1>4 DEF AnonInv

\* The outermost call fails.
LEMMA FailKeeps == ASSUME AnonInv, Fail PROVE AnonInv'
  <1>1. /\ callUnchanged /\ UNCHANGED <<store, result, mapping, ended>> /\ pc' = "failed"
        /\ stack' = <<>> /\ pc = "running"
    BY DEF Fail
  <1>2. CallOK' /\ Keeping'
    BY <1>1, CallStays, KeepingStays DEF AnonInv
  <1>3. Len(stack') = 0 /\ StackOK(stack', doc', store', ended')
    BY <1>1, NoneLeft
  <1> QED BY <1>1, <1>2, <1>3 DEF AnonInv

\* A dashboard does something, or nothing happens.
LEMMA QuietKeeps == ASSUME AnonInv, UNCHANGED callVars PROVE AnonInv'
  <1>1. callUnchanged /\ UNCHANGED <<pc, stack, store, result, mapping, ended>>
    BY DEF callVars, callUnchanged
  <1>2. CallOK' /\ Keeping'
    BY <1>1, CallStays, KeepingStays DEF AnonInv
  <1>3. Numbered(store') /\ Answers(store', ended') /\ StackOK(stack', doc', store', ended')
    BY <1>1 DEF AnonInv, callUnchanged
  <1>4. Replied => Replied'
    BY <1>1 DEF Replied, callUnchanged
  <1> QED BY <1>1, <1>2, <1>3, <1>4 DEF AnonInv

\* Every step keeps the invariant.
LEMMA NextKeeps == AnonInv /\ [Next]_vars => AnonInv'
  <1> SUFFICES ASSUME AnonInv, [Next]_vars PROVE AnonInv'
    OBVIOUS
  <1>1. CASE Request
    BY <1>1, RequestKeeps
  <1>2. CASE Enter
    BY <1>2, EnterKeeps
  <1>3. CASE TokenStep
    BY <1>3, TokenKeeps
  <1>4. CASE Leave
    BY <1>4, LeaveKeeps
  <1>5. CASE Abandon
    BY <1>5, AbandonKeeps
  <1>6. CASE Finish
    BY <1>6, FinishKeeps
  <1>7. CASE Fail
    BY <1>7, FailKeeps
  <1>8. ASSUME NEW s \in Subscribers, DashboardStep(s) PROVE AnonInv'
    BY <1>8, QuietKeeps DEF DashboardStep
  <1>9. CASE UNCHANGED vars
    BY <1>9, QuietKeeps DEF vars
  <1> QED BY <1>1, <1>2, <1>3, <1>4, <1>5, <1>6, <1>7, <1>8, <1>9 DEF Next, CallStep

\* The conjunction AnonInv is an invariant of the anonymizer.
THEOREM AnonInvariance == Spec => []AnonInv
  BY AnonInitOK, NextKeeps, PTL DEF Spec

---------------------------------------------------------------------------
(* The properties. *)

\* What a call and the dashboards that watch it do to the event bus are steps
\* of the bus, or none (dashboard_events.py): BusSpec.
THEOREM BusImplemented == Spec => BusSpec
  <1>1. Init => BusInit
    BY DEF Init
  <1>2. [Next]_vars => [BusNext]_busVars
    <2> SUFFICES ASSUME [Next]_vars PROVE [BusNext]_busVars
      OBVIOUS
    <2>1. CASE TokenStep
      BY <2>1 DEF TokenStep, Ask, BusNext
    <2>2. ASSUME NEW s \in Subscribers, DashboardStep(s) PROVE [BusNext]_busVars
      BY <2>2 DEF DashboardStep, BusNext
    <2>3. CASE Request \/ Enter \/ Leave \/ Abandon \/ Finish \/ Fail
      BY <2>3 DEF Request, Enter, Leave, Abandon, Finish, Fail
    <2>4. CASE UNCHANGED vars
      BY <2>4 DEF vars
    <2> QED BY <2>1, <2>2, <2>3, <2>4 DEF Next, CallStep
  <1> QED BY <1>1, <1>2, PTL DEF Spec, BusSpec

\* A dashboard is sent the events of a call in order, none twice: InOrder
\* (dashboard_events.py:77-85).
THEOREM CallEventsInOrder == Spec => []InOrder
  BY BusImplemented, DeliveredInOrder, PTL

\* Nothing of a call falls between the replay and the live events:
\* NoSilentGap (dashboard_events.py:66-70, 78-80).
THEOREM CallEventsWhole == Spec => []NoSilentGap
  BY BusImplemented, NothingFallsBetween, PTL

\* Types, of the call, of the calls under way inside it and of the bus:
\* TypeOK.
THEOREM AnonTypeCorrect == Spec => []TypeOK
  <1>1. AnonInv /\ BusTypeOK => TypeOK
    <2> SUFFICES ASSUME AnonInv, BusTypeOK PROVE TypeOK
      OBVIOUS
    <2>1. \A i \in 1..Len(stack) :
             /\ stack[i].doc \in Docs
             /\ stack[i].untried \subseteq Nests(stack[i].doc)
             /\ DOMAIN stack[i].got \subseteq Nests(stack[i].doc)
             /\ stack[i].known \subseteq DOMAIN store
      BY DEF AnonInv, StackOK, FrameOK, Built
    <2>2. \A v \in DOMAIN store : store[v] \in [label : AllLabels, n : Nat \ {0}]
      BY DEF AnonInv, Numbered
    <2>3. PICK F : stack \in Seq(F)
      BY DEF AnonInv, StackOK
    <2>4. stack # <<>> <=> Len(stack) > 0
      BY <2>3, NotEmpty
    <2>5. pc = "running" <=> stack # <<>>
      BY <2>4 DEF AnonInv
    <2> QED BY <2>1, <2>2, <2>5 DEF TypeOK, AnonInv, CallOK
  <1>2. Spec => []BusTypeOK
    BY BusImplemented, BusTypeCorrect, PTL
  <1> QED BY <1>1, <1>2, AnonInvariance, PTL

\* The rows closest to the caller's context decide the label of a column,
\* for every call that may arrive: MostSpecificWins (kb_label_store.py:8-11).
THEOREM LabelMostSpecific == Spec => []MostSpecificWins
  <1>1. AnonInv => MostSpecificWins
    <2> SUFFICES ASSUME AnonInv PROVE MostSpecificWins
      OBVIOUS
    <2>1. kb \in [FieldNames -> Seq(Rows)]
      BY AnonymizerAssumption DEF AnonInv, CallOK, CallsAssumption
    <2>2. \A f \in DOMAIN kb : DOMAIN kb[f] \subseteq Nat
      BY <2>1
    <2> QED BY <2>2, ClosestDecide
  <1> QED BY <1>1, AnonInvariance, PTL

\* An answer that cannot be mistaken.
LEMMA AnswerFacts ==
  ASSUME AnonInv, NEW e \in ended, Untangled(e)
  PROVE  /\ Built(e, ended) /\ Written(ended) /\ e.doc \in Docs /\ e.text \in Seq(Alphabet)
         /\ ReplacedOK(e, store) /\ MappingOK(e, store) /\ Asked(e, DOMAIN e.replacement)
         /\ e.text = Reinject(e.doc, OwnText(e), e.replacement)
         /\ ~Literals(e.doc) => Marked(Alphabet, e.replacement)
         /\ \A w \in DOMAIN e.replacement :
               Without("[", e.replacement[w]) => e.replacement[w] = w
         /\ \A w \in DOMAIN e.replacement : w \in Seq(Alphabet) /\ Without("[", w)
         /\ \A w \in DOMAIN e.replacement, u \in Own(e) :
               w # <<>> => Clear(w, e.replacement[u])
         /\ \A v \in Own(e), w \in DOMAIN e.replacement :
               v # <<>> /\ Len(w) <= Len(v) => Clear(v, e.replacement[w])
  <1>1. Answered(e, store, ended) /\ Written(ended) /\ Numbered(store)
    BY AnswersWritten DEF AnonInv, Answers
  <1>2. /\ Built(e, ended) /\ e.doc \in Docs /\ e.text \in Seq(Alphabet)
        /\ ReplacedOK(e, store) /\ MappingOK(e, store)
        /\ e.text = Reinject(e.doc, OwnText(e), e.replacement)
    BY <1>1 DEF Answered, Built, TextOK
  <1>3. Asked(e, DOMAIN e.replacement)
    BY DEF AnonInv, Keeping
  <1>4. /\ ~Literals(e.doc) => Marked(Alphabet, e.replacement)
        /\ \A w \in DOMAIN e.replacement :
              Without("[", e.replacement[w]) => e.replacement[w] = w
    BY <1>1, <1>2, ReplacementFacts DEF AnonInv
  <1>5. ASSUME NEW w \in DOMAIN e.replacement
        PROVE  /\ w \in Seq(Alphabet) /\ Without("[", w)
               /\ w # <<>> => \A p \in e.mapping : Clear(w, p[1])
    BY <1>1, <1>2, KeyClear
  <1>6. ASSUME NEW w \in DOMAIN e.replacement, NEW u \in Own(e), w # <<>>
        PROVE  Clear(w, e.replacement[u])
    <2>1. e.replacement[u] = TokenText(store[u]) /\ Entry(store, u) \in e.mapping
      BY <1>2 DEF ReplacedOK
    <2>2. PICK p \in e.mapping : p = Entry(store, u)
      BY <2>1
    <2>3. p[1] = e.replacement[u]
      BY <2>1, <2>2 DEF Entry
    <2>4. Clear(w, p[1])
      BY <1>5, <1>6
    <2> QED BY <2>3, <2>4
  <1>7. ASSUME NEW v \in Own(e), NEW w \in DOMAIN e.replacement, v # <<>>, Len(w) <= Len(v)
        PROVE  Clear(v, e.replacement[w])
    <2>1. v \in DOMAIN e.replacement
      BY DEF Own
    <2>2. CASE w \in Own(e)
      BY <1>6, <1>7, <2>1, <2>2
    <2>3. CASE w \notin Own(e)
      <3>1. w \in Blobs(e)
        BY <2>3 DEF Own
      <3> QED BY <1>7, <3>1 DEF Untangled
    <2> QED BY <2>2, <2>3
  <1> QED BY <1>1, <1>2, <1>3, <1>4, <1>5, <1>6, <1>7

\* No private value that the code takes for a value and finds as it is written
\* is left in what a call rewrites, at any depth and whatever failed on the
\* way: PrivateHidden.  It was asked for (PrivateAsked), so it is a key, and
\* no key is left (NoKeyIsLeft) (anonymizer.py:165-223).
THEOREM NothingPrivateLeft == Spec => []PrivateHidden
  <1>1. AnonInv => PrivateHidden
    <2> SUFFICES ASSUME AnonInv, NEW e \in ended, Untangled(e), NEW i \in Plain(e),
                        NEW w \in Private(e.doc, e.doc.leaves[i]), w \notin Blobs(e),
                        Findable(e.doc, w), NEW text \in Rewritten(e), Left(e.doc, w, text)
                 PROVE  FALSE
      BY DEF PrivateHidden
    <2> DEFINE d == e.doc
               R == e.replacement
    <2>1. /\ Built(e, ended) /\ Written(ended) /\ d \in Docs
          /\ ReplacedOK(e, store) /\ Asked(e, DOMAIN R)
          /\ e.text = Reinject(d, OwnText(e), R)
          /\ ~Literals(d) => Marked(Alphabet, R)
          /\ \A v \in DOMAIN R : Without("[", R[v]) => R[v] = v
          /\ \A v \in DOMAIN R : v \in Seq(Alphabet) /\ Without("[", v)
          /\ \A v \in Own(e), u \in DOMAIN R :
                v # <<>> /\ Len(u) <= Len(v) => Clear(v, R[u])
      BY AnswerFacts
    <2>2. w \in DOMAIN R /\ w \in Own(e)
      BY <2>1, PrivateAsked DEF Own
    <2>3. i \in 1..Len(d.leaves)
      BY <2>1, PairFacts DEF Plain
    <2>4. w \in Seq(Alphabet) /\ w # <<>>
      BY <2>1, <2>3, PrivateCases
    <2>5. ASSUME NEW s \in Seq(Alphabet), ~Literals(d), Occurs(w, ReplaceInTurn(s, R))
          PROVE  FALSE
      BY <2>1, <2>2, <2>4, <2>5, NoKeyIsLeft
    <2>6. CASE ~ByLeaf(d)
      <3>1. text = ReplaceInTurn(OwnText(e), R)
        BY <2>1, <2>6 DEF Rewritten, Reinject
      <3>2. OwnText(e) \in Seq(Alphabet)
        BY <2>1, OwnTextIs
      <3>3. ~Literals(d) /\ Occurs(w, text)
        BY <2>6 DEF Literals, ByLeaf, Left, Findable
      <3> QED BY <2>5, <3>1, <3>2, <3>3
    <2>7. CASE ByLeaf(d)
      <3>1. PICK j \in Pairs(d) : text = ReinjectLeaf(d, d.leaves[j], R).text
        BY <2>7 DEF Rewritten
      <3>2. /\ j \in 1..Len(d.leaves) /\ d.leaves[j].text \in Seq(Alphabet)
            /\ d.leaves[j] \in Leaves
        BY <2>1, <3>1, PairFacts, LeafFacts
      <3>r. ASSUME NEW t, NEW b
            PROVE  /\ [d.leaves[j] EXCEPT !.text = t].text = t
                   /\ [d.leaves[j] EXCEPT !.text = t, !.string = b].text = t
        BY <3>2 DEF Leaves
      <3>3. CASE d.format = "json"
        <4>1. d.leaves[j].string
          BY <2>1, <3>1, <3>3, PairFacts
        <4>2. text = ReplaceInTurn(d.leaves[j].text, R)
          BY <3>1, <3>3, <3>r, <4>1 DEF ReinjectLeaf, ReinjectJson
        <4>3. ~Literals(d) /\ Occurs(w, text)
          BY <2>7, <3>3, <4>2 DEF Literals, Left
        <4> QED BY <2>5, <3>2, <4>2, <4>3
      <3>4. CASE d.format = "xml"
        <4>1. text = ReplaceInTurn(d.leaves[j].text, R)
          BY <3>1, <3>4, <3>r DEF ReinjectLeaf, ReinjectXml
        <4>2. ~Literals(d) /\ Occurs(w, text)
          BY <2>7, <3>4, <4>1 DEF Literals, Left
        <4> QED BY <2>5, <3>2, <4>1, <4>2
      <3>5. CASE d.format = "sql"
        <4>1. w = text
          BY <2>7, <3>5 DEF Left
        <4> DEFINE t == d.leaves[j].text
        <4>2. text = IF t \in DOMAIN R THEN R[t] ELSE t
          BY <3>1, <3>5, <3>r DEF ReinjectLeaf, ReinjectSql
        <4>3. t \in DOMAIN R /\ R[t] = w
          BY <2>2, <4>1, <4>2
        <4>4. R[t] = t
          BY <2>1, <2>2, <4>3
        <4>5. w \in Own(e) /\ w \in DOMAIN store /\ R[w] = TokenText(store[w])
          BY <2>1, <2>2 DEF ReplacedOK
        <4>6. store[w] \in Tokened
          BY <4>5 DEF AnonInv, Numbered, Tokened
        <4>7. TokenText(store[w])[1] = "[" /\ 1 \in 1..Len(TokenText(store[w]))
          <5>1. PICK n \in Nat : n = store[w].n
            BY <4>6 DEF Tokened
          <5>2. TokenText(store[w])[1] = "[" /\ Len(TokenText(store[w])) = n + 4
            BY <4>6, <5>1, TokenShape
          <5> QED BY <5>1, <5>2
        <4> QED BY <2>1, <2>2, <4>3, <4>4, <4>5, <4>7 DEF Without
      <3> QED BY <2>7, <3>3, <3>4, <3>5 DEF ByLeaf
    <2> QED BY <2>6, <2>7
  <1> QED BY <1>1, AnonInvariance, PTL

\* Replacing one value after another gives what replacing all of them at once
\* would, wherever the values do not overlap by halves: AtOnce
\* (formats.py:120-121).
THEOREM RewrittenAtOnce == Spec => []AtOnce
  <1>1. AnonInv => AtOnce
    <2> DEFINE Shown(e, i) == IF ByLeaf(e.doc) THEN e.doc.leaves[i].text
                              ELSE Literal(e.doc.format, e.doc.leaves[i])
    <2> SUFFICES ASSUME AnonInv, NEW e \in ended, Untangled(e), e.doc.format # "sql",
                        NEW i \in Plain(e), \A b \in Blobs(e) : ~Occurs(b, Shown(e, i))
                 PROVE  SameAtOnce(Shown(e, i), e.replacement)
      BY DEF AtOnce
    <2> DEFINE d == e.doc
               R == e.replacement
               t == Shown(e, i)
    <2>1. /\ d \in Docs
          /\ ~Literals(d) => Marked(Alphabet, R)
          /\ \A w \in DOMAIN R, u \in Own(e) : w # <<>> => Clear(w, R[u])
      BY AnswerFacts
    <2>2. t \in Seq(Alphabet)
      <3>1. i \in 1..Len(d.leaves)
        BY <2>1, PairFacts DEF Plain
      <3>2. d.leaves[i].text \in Seq(Alphabet) /\ d.format \in Formats
        BY <2>1, <3>1, LeafFacts, DocFacts
      <3>3. Literal(d.format, d.leaves[i]) \in Seq(Alphabet)
        BY <3>2, LiteralIs
      <3> QED BY <3>2, <3>3
    <2>3. Marked(Alphabet, R)
      BY <2>1 DEF Literals
    <2>4. Own(e) \subseteq DOMAIN R
      BY DEF Own
    <2>5. \A w \in DOMAIN R : \A u \in Own(e) : Clear(w, R[u])
      BY <2>1, <2>3 DEF Marked
    <2>6. \A w \in DOMAIN R \ Own(e) : ~Occurs(w, t)
      BY DEF Own
    <2> HIDE DEF R, t
    <2>7. SameAtOnce(t, R)
      BY <2>2, <2>3, <2>4, <2>5, <2>6, InTurnIsAtOnce
    <2> QED BY <2>7 DEF R, t
  <1> QED BY <1>1, AnonInvariance, PTL

\* The mapping handed back takes the answer back to the text that was sent,
\* quotes and escapes included, unless a value is escaped or a number of SQL
\* replaced in it (Undamaged): RoundTrip.  The answer reads as that text
\* (TextReads, LiteralReads), and what reads as a text is taken back to it
\* (TakenBack) (anonymizer.py:267-271, 279-283).
THEOREM AnswerTakenBack == Spec => []RoundTrip
  <1>1. AnonInv => RoundTrip
    <2> SUFFICES ASSUME AnonInv, pc = "done", Faithful(ended),
                        ~Occurs(<<"[">>, Render(doc))
                 PROVE  Deanonymize(result, mapping) = Render(doc)
      BY DEF RoundTrip, Faithful
    <2>1. PICK e \in ended : e.doc = doc /\ result = e.text /\ mapping = e.mapping
      BY DEF AnonInv, Replied
    <2>2. /\ Answered(e, store, ended) /\ Numbered(store) /\ doc \in Docs
      BY CallFacts DEF AnonInv, Answers
    <2>3. MappingOK(e, store) /\ ReadsOK(e, ended)
      BY <2>2 DEF Answered
    <2>4. Render(doc) \in Seq(Alphabet)
      BY <2>2, RenderIs
    <2>5. Without("[", Render(doc))
      <3> SUFFICES ASSUME NEW k \in 1..Len(Render(doc)), Render(doc)[k] = "[" PROVE FALSE
        BY DEF Without
      <3> DEFINE o == <<"[">>
      <3>1. Len(o) = 1 /\ o[1] = "["
        OBVIOUS
      <3>2. PICK x \in Seq(Alphabet) : x = Render(doc)
        BY <2>4
      <3> HIDE DEF o
      <3>3. StartsAt(x, o, k)
        BY <3>1, <3>2 DEF StartsAt
      <3> QED BY <3>2, <3>3 DEF o, Occurs, Positions
    <2>6. /\ \A p \in mapping : Without("[", p[2])
          /\ Reads(Alphabet, "[", mapping, result, Render(doc))
      BY <2>1, <2>3, <2>5 DEF ReadsOK
    <2>7. Book(Alphabet, "[", "]", mapping) /\ IsFiniteSet(mapping)
      BY <2>1, <2>2, <2>3, MappingBook DEF MappingOK
    <2>8. \A p, q \in mapping : p[1] = q[1] => p = q
      BY <2>1, <2>2, <2>3, MappingFunctional
    <2> QED BY <2>5, <2>6, <2>7, <2>8, TakenBack
  <1> QED BY <1>1, AnonInvariance, PTL
===========================================================================
