----------------------------- MODULE Replacing -----------------------------
(***************************************************************************)
(* How formats.py and Anonymizer.deanonymize replace the keys of a mapping *)
(* in a text: one str.replace after another, the longest key first.  A     *)
(* text is a sequence of symbols.                                          *)
(***************************************************************************)
EXTENDS Integers, Sequences, FiniteSets

\* w stands in s from position i on; everywhere it does.
StartsAt(s, w, i) ==
    i + Len(w) - 1 <= Len(s) /\ \A j \in 1..Len(w) : s[i + j - 1] = w[j]
Positions(w, s) == {i \in 1..Len(s) : StartsAt(s, w, i)}
Occurs(w, s) == Positions(w, s) # {}

\* sorted(mapping, key=len, reverse=True), its first.
\* (Mutant: the shortest first.)
MutLongest(S) == CHOOSE w \in S : \A v \in S : Len(w) <= Len(v)
Longest(S) == CHOOSE w \in S : \A v \in S : Len(v) <= Len(w)

\* Every key of map replaced at once, the longest first, from left to right.
KeysAt(s, map, i) == {w \in DOMAIN map : w # <<>> /\ StartsAt(s, w, i)}
Substitute(s, map) ==
    LET from[i \in 1..(Len(s) + 1)] ==
            IF i = Len(s) + 1 THEN <<>>
            ELSE IF KeysAt(s, map, i) = {} THEN <<s[i]>> \o from[i + 1]
            ELSE LET w == Longest(KeysAt(s, map, i)) IN map[w] \o from[i + Len(w)]
    IN from[1]

\* str.replace for one key after another; turn[n] is the text after n of them,
\* with the keys that are left.
Single(w, t) == [k \in {w} |-> t]
ReplaceInTurn(s, map) ==
    LET turn[n \in 0..Cardinality(DOMAIN map)] ==
            IF n = 0 THEN [text |-> s, left |-> DOMAIN map]
            ELSE LET before == turn[n - 1]
                     w == Longest(before.left)
                 IN [text |-> Substitute(before.text, Single(w, map[w])),
                     left |-> before.left \ {w}]
    IN turn[Cardinality(DOMAIN map)].text

\* Anonymizer.deanonymize, with the pairs token, value of the mapping.
Deanonymize(s, pairs) ==
    ReplaceInTurn(s, [t \in {p[1] : p \in pairs} |->
                        (CHOOSE p \in pairs : p[1] = t)[2]])

\* v does not stand in t, nor does it meet the ends of t.
Clear(v, t) ==
    /\ \A i \in 1..Len(v) : v[i] # t[1] /\ v[i] # t[Len(t)]
    /\ ~Occurs(v, t)

\* An occurrence of v in s ends inside one of w.
Overlapping(v, w, s) ==
    \E i \in Positions(v, s), j \in Positions(w, s) :
        i < j /\ j < i + Len(v) /\ i + Len(v) < j + Len(w)

\* One key after another is every key at once, unless two of them overlap by
\* halves.
SameAtOnce(s, map) ==
    (\A v, w \in DOMAIN map : ~Overlapping(v, w, s))
        => ReplaceInTurn(s, map) = Substitute(s, map)
===========================================================================
