------------------------ MODULE StreamDeanon_proofs ------------------------
(***************************************************************************)
(* Theorems about StreamDeanon, for every reply, every way to cut it and   *)
(* every mapping the assumptions admit: where held text is sent, and that  *)
(* the reply the user sees does not depend on where it was cut.            *)
(*                                                                         *)
(* The text is treated in this order.  Parts joined (FlattenSeq), by       *)
(* induction over their number; what the regular expressions match; the    *)
(* replacement of tokens, which may be done in two parts wherever no token *)
(* lies across the border; the tail held back, which replacing leaves, and *)
(* the beginning of a token, which it does not make; one more delta; the   *)
(* text of a reply so far; and the invariant of the steps.                 *)
(***************************************************************************)
EXTENDS StreamDeanon, SequenceTheorems, WellFoundedInduction, TLAPS

---------------------------------------------------------------------------
(* Where text is sent. *)
\* The events sent are a sequence, of whatever texts.
Sent == \E T : out \in Seq(T)

\* A text block that is being sent is the last one the client has seen open,
\* and no text has gone to a later block.
Opened(index) == \E j \in 1..Len(out) : out[j].type = "start" /\ out[j].index = index
LastIsOpen ==
  /\ Sent
  /\ block \in Nat \ {0} /\ textIndex \in Nat
  /\ phase = "start" => textIndex < block
  /\ textIndex <= block
  /\ textIndex # 0 => Opened(textIndex)
  /\ phase = "delta" /\ msg[block].kind = "text" => textIndex = block
  /\ \A i \in 1..Len(out) : out[i].type = "text" =>
        out[i].index \in Nat /\ out[i].index <= textIndex

OutInv == LastIsOpen /\ SyntheticOnLastText

\* One event more.
LEMMA SendFacts ==
  ASSUME Sent, NEW e, Send(e)
  PROVE  /\ Sent'
         /\ Len(out) \in Nat /\ Len(out') = Len(out) + 1
         /\ out'[Len(out) + 1] = e
         /\ \A i \in 1..Len(out) : out'[i] = out[i]
  <1>1. PICK T : out \in Seq(T)
    BY DEF Sent
  <1>2. out \in Seq(T \cup {e}) /\ e \in T \cup {e}
    BY <1>1
  <1> DEFINE U == T \cup {e}
  <1>3. out' = Append(out, e) /\ out \in Seq(U) /\ e \in U
    BY <1>2 DEF Send
  <1> HIDE DEF U
  <1>4. out' \in Seq(U)
    BY <1>3
  <1>5. Sent'
    BY <1>4 DEF Sent
  <1> QED BY <1>3, <1>5

\* An event that carries no text leaves the texts as they are.
LEMMA SendOther ==
  ASSUME OutInv, NEW e, Send(e), e.type # "text"
  PROVE  /\ Sent' /\ SyntheticOnLastText'
         /\ \A index : Opened(index) => Opened(index)'
         /\ \A i \in 1..Len(out') : out'[i].type = "text" =>
               i \in 1..Len(out) /\ out'[i] = out[i]
  <1>1. /\ Sent' /\ Len(out) \in Nat /\ Len(out') = Len(out) + 1
        /\ out'[Len(out) + 1] = e
        /\ \A i \in 1..Len(out) : out'[i] = out[i]
    BY SendFacts DEF OutInv, LastIsOpen
  <1>2. \A index : Opened(index) => Opened(index)'
    BY <1>1 DEF Opened
  <1>3. \A i \in 1..Len(out') : out'[i].type = "text" => i \in 1..Len(out) /\ out'[i] = out[i]
    BY <1>1
  <1>4. DOMAIN out = 1..Len(out) /\ DOMAIN out' = 1..Len(out')
    BY <1>1 DEF Sent, OutInv, LastIsOpen
  <1>5. SyntheticOnLastText'
    BY <1>1, <1>3, <1>4 DEF OutInv, SyntheticOnLastText
  <1> QED BY <1>1, <1>2, <1>3, <1>5

\* Text goes to the last text block.
LEMMA SendText ==
  ASSUME OutInv, textIndex # 0,
         NEW e, Send(e), e.type = "text", e.index = textIndex
  PROVE  /\ Sent' /\ SyntheticOnLastText'
         /\ \A index : Opened(index) => Opened(index)'
         /\ \A i \in 1..Len(out') : out'[i].type = "text" =>
               out'[i].index \in Nat /\ out'[i].index <= textIndex
  <1>1. /\ Sent' /\ Len(out) \in Nat /\ Len(out') = Len(out) + 1
        /\ out'[Len(out) + 1] = e
        /\ \A i \in 1..Len(out) : out'[i] = out[i]
    BY SendFacts DEF OutInv, LastIsOpen
  <1>2. textIndex \in Nat /\ Opened(textIndex)
    BY DEF OutInv, LastIsOpen
  <1>3. \A i \in 1..Len(out') : out'[i].type = "text" =>
            out'[i].index \in Nat /\ out'[i].index <= textIndex
    BY <1>1, <1>2 DEF OutInv, LastIsOpen
  <1>4. DOMAIN out = 1..Len(out) /\ DOMAIN out' = 1..Len(out')
    BY <1>1 DEF Sent, OutInv, LastIsOpen
  <1>5. ASSUME NEW i \in DOMAIN out', out'[i].type = "text"
        PROVE  /\ \E j \in 1..(i - 1) : out'[j].type = "start" /\ out'[j].index = out'[i].index
               /\ \A j \in 1..(i - 1) : out'[j].type = "text" => out'[j].index <= out'[i].index
    <2>1. CASE i \in 1..Len(out)
      BY <1>1, <1>4, <1>5, <2>1 DEF OutInv, SyntheticOnLastText
    <2>2. CASE i = Len(out) + 1
      <3>1. PICK j \in 1..Len(out) : out[j].type = "start" /\ out[j].index = textIndex
        BY <1>2 DEF Opened
      <3>2. \A k \in 1..Len(out) : out'[k].type = "text" => out'[k].index <= textIndex
        BY <1>1, <1>3
      <3> QED BY <1>1, <2>2, <3>1, <3>2
    <2> QED BY <1>1, <1>4, <2>1, <2>2
  <1>6. SyntheticOnLastText'
    BY <1>5 DEF SyntheticOnLastText
  <1>7. \A index : Opened(index) => Opened(index)'
    BY <1>1 DEF Opened
  <1> QED BY <1>1, <1>3, <1>6, <1>7

LEMMA InitOK == Init => OutInv
  <1> SUFFICES ASSUME Init PROVE OutInv
    OBVIOUS
  <1>1. out = <<>> /\ <<>> \in Seq({}) /\ Len(<<>>) = 0 /\ DOMAIN <<>> = {}
    BY DEF Init
  <1>2. Sent
    BY <1>1 DEF Sent
  <1>3. SyntheticOnLastText
    BY <1>1 DEF SyntheticOnLastText
  <1>4. 1..Len(out) = {}
    BY <1>1
  <1> QED BY <1>2, <1>3, <1>4 DEF Init, OutInv, LastIsOpen

\* A step that sends nothing.
LEMMA SilentStep ==
  ASSUME OutInv, UNCHANGED <<msg, block, textIndex, out>>,
         phase' = phase \/ phase' \in {"end", "closed"}
  PROVE  OutInv'
  BY DEF OutInv, LastIsOpen, Sent, Opened, SyntheticOnLastText

\* An event without text, of a step that leaves the last text block alone.
LEMMA OtherStep ==
  ASSUME OutInv, NEW e, Send(e), e.type # "text", UNCHANGED <<msg, textIndex>>,
         \/ block' = block /\ phase' \in {phase, "end"}
         \/ block' = block + 1 /\ phase' = "start"
  PROVE  OutInv'
  <1>1. /\ Sent' /\ SyntheticOnLastText'
        /\ \A index : Opened(index) => Opened(index)'
        /\ \A i \in 1..Len(out') : out'[i].type = "text" =>
              i \in 1..Len(out) /\ out'[i] = out[i]
    BY SendOther
  <1>2. textIndex # 0 => Opened(textIndex)'
    BY <1>1 DEF OutInv, LastIsOpen
  <1>3. LastIsOpen'
    BY <1>1, <1>2 DEF OutInv, LastIsOpen
  <1> QED BY <1>1, <1>3 DEF OutInv

\* Text that goes to the last text block, from a delta or from the flush.
LEMMA TextStep ==
  ASSUME OutInv, textIndex # 0, NEW text,
         Send([type |-> "text", index |-> textIndex, text |-> text]),
         UNCHANGED <<msg, block, textIndex>>, phase' \in {phase, "closed"}
  PROVE  OutInv'
  <1> DEFINE e == [type |-> "text", index |-> textIndex, text |-> text]
  <1>1. Send(e) /\ e.type = "text" /\ e.index = textIndex
    OBVIOUS
  <1> HIDE DEF e
  <1>2. /\ Sent' /\ SyntheticOnLastText'
        /\ \A index : Opened(index) => Opened(index)'
        /\ \A i \in 1..Len(out') : out'[i].type = "text" =>
              out'[i].index \in Nat /\ out'[i].index <= textIndex
    BY <1>1, SendText
  <1>3. textIndex # 0 => Opened(textIndex)'
    BY <1>2 DEF OutInv, LastIsOpen
  <1>4. LastIsOpen'
    BY <1>2, <1>3 DEF OutInv, LastIsOpen
  <1> QED BY <1>2, <1>4 DEF OutInv

\* A block opens: it becomes the last text block if it is one.
LEMMA BlockStartKeeps == OutInv /\ BlockStart => OutInv'
  <1> SUFFICES ASSUME OutInv, BlockStart PROVE OutInv'
    OBVIOUS
  <1> DEFINE e == [type |-> "start", index |-> block, text |-> <<>>]
  <1>1. Send(e) /\ e.type = "start" /\ e.index = block /\ e.type # "text"
    BY DEF BlockStart
  <1> HIDE DEF e
  <1>2. /\ Sent' /\ SyntheticOnLastText'
        /\ \A index : Opened(index) => Opened(index)'
        /\ \A i \in 1..Len(out') : out'[i].type = "text" =>
              i \in 1..Len(out) /\ out'[i] = out[i]
    BY <1>1, SendOther
  <1>3. Len(out) \in Nat /\ Len(out') = Len(out) + 1 /\ out'[Len(out) + 1] = e
    BY <1>1, SendFacts DEF OutInv, LastIsOpen
  <1>4. \A index : index = block => Opened(index)'
    BY <1>1, <1>3 DEF Opened
  <1>5. /\ phase = "start" /\ phase' = "delta" /\ UNCHANGED <<msg, block>>
        /\ textIndex' = IF msg[block].kind = "text" THEN block ELSE textIndex
    BY DEF BlockStart
  <1>6. block \in Nat \ {0} /\ textIndex \in Nat /\ textIndex < block
    BY <1>5 DEF OutInv, LastIsOpen
  <1>7. textIndex' # 0 => Opened(textIndex)'
    BY <1>2, <1>4, <1>5 DEF OutInv, LastIsOpen
  <1>8. \A i \in 1..Len(out') : out'[i].type = "text" =>
            out'[i].index \in Nat /\ out'[i].index <= textIndex'
    BY <1>2, <1>5, <1>6 DEF OutInv, LastIsOpen
  <1>9. LastIsOpen'
    BY <1>2, <1>5, <1>6, <1>7, <1>8 DEF LastIsOpen
  <1> QED BY <1>2, <1>9 DEF OutInv

LEMMA StreamStep == OutInv /\ [Next]_vars => OutInv'
  <1> SUFFICES ASSUME OutInv, [Next]_vars PROVE OutInv'
    OBVIOUS
  <1>1. ASSUME NEW n \in 1..MaxDelta, TextDelta(n) PROVE OutInv'
    <2>1. /\ phase = "delta" /\ msg[block].kind = "text"
          /\ UNCHANGED <<msg, block, phase, textIndex>>
          /\ \E text : Send([type |-> "text", index |-> block, text |-> text])
      BY <1>1 DEF TextDelta, Arrives, Feed
    <2>2. textIndex = block /\ textIndex # 0
      BY <2>1 DEF OutInv, LastIsOpen
    <2> QED BY <2>1, <2>2, TextStep
  <1>2. ASSUME NEW n \in 1..MaxDelta, ToolDelta(n) PROVE OutInv'
    <2> DEFINE e == [type |-> "json", index |-> block, text |-> Cut(n)]
    <2>1. Send(e) /\ e.type # "text" /\ UNCHANGED <<msg, textIndex, block, phase>>
      BY <1>2 DEF ToolDelta, self
    <2> HIDE DEF e
    <2> QED BY <2>1, OtherStep
  <1>3. CASE BlockStart
    BY <1>3, BlockStartKeeps
  <1>4. CASE BlockStop
    <2> DEFINE e == [type |-> "stop", index |-> block, text |-> <<>>]
    <2>1. /\ Send(e) /\ e.type # "text" /\ UNCHANGED <<msg, textIndex>>
          /\ block' = block + 1 /\ phase' = "start"
      BY <1>4 DEF BlockStop, self
    <2> HIDE DEF e
    <2> QED BY <2>1, OtherStep
  <1>5. CASE MessageStop
    <2> DEFINE e == [type |-> "message_stop", index |-> 0, text |-> <<>>]
    <2>1. /\ Send(e) /\ e.type # "text" /\ UNCHANGED <<msg, textIndex, block>>
          /\ phase' = "end"
      BY <1>5 DEF MessageStop, self
    <2> HIDE DEF e
    <2> QED BY <2>1, OtherStep
  <1>6. CASE Break
    BY <1>6, SilentStep DEF Break, self
  <1>7. CASE FlushFinal
    <2>1. /\ UNCHANGED <<msg, block, textIndex>> /\ phase' = "closed"
          /\ \/ UNCHANGED out
             \/ /\ textIndex # 0
                /\ \E text : Send([type |-> "text", index |-> textIndex, text |-> text])
      BY <1>7 DEF FlushFinal
    <2> QED BY <2>1, SilentStep, TextStep
  <1>8. ASSUME NEW k \in DOMAIN Late, LateToken(k) PROVE OutInv'
    BY <1>8, SilentStep DEF LateToken, upstream, self
  <1>9. CASE Clear
    BY <1>9, SilentStep DEF Clear, upstream, self
  <1>10. CASE UNCHANGED vars
    BY <1>10, SilentStep DEF vars, upstream, self
  <1> QED BY <1>1, <1>2, <1>3, <1>4, <1>5, <1>6, <1>7, <1>8, <1>9, <1>10 DEF Next

---------------------------------------------------------------------------
(* Parts joined. *)
LEMMA Minimum ==
  ASSUME NEW S, S \subseteq Nat, S # {}
  PROVE  \E n \in S : \A m \in S : n <= m
  <1> DEFINE R == OpToRel(<, Nat)
  <1>1. IsWellFoundedOn(R, Nat)
    BY NatLessThanWellFounded
  <1>2. ASSUME NEW x \in Nat, NEW y \in Nat, x < y PROVE <<x, y>> \in R
    BY <1>2 DEF OpToRel
  <1> HIDE DEF R
  <1>3. PICK n \in S : \A m \in S : ~ (<<m, n>> \in R)
    BY <1>1, WFMin
  <1>4. \A m \in S : ~(m < n)
    BY <1>2, <1>3
  <1> QED BY <1>4

LEMMA Induction ==
  ASSUME NEW S, 0 \in S, \A n \in Nat : n \in S => n + 1 \in S
  PROVE Nat \subseteq S
  <1>1. SUFFICES ASSUME Nat \ S # {} PROVE FALSE
    OBVIOUS
  <1>2. PICK n \in Nat \ S : \A m \in Nat \ S : n <= m
    BY <1>1, Minimum
  <1>3. n # 0 /\ n - 1 \in Nat
    BY <1>2
  <1>4. n - 1 \in S
    BY <1>2, <1>3
  <1> QED BY <1>2, <1>3, <1>4

\* A partial result of FlattenSeq: the first n parts joined, one by one.
Joined(ss, n, g) == g = [i \in 1..n |-> IF i = 1 THEN ss[i] ELSE g[i - 1] \o ss[i]]

LEMMA JoinedAt ==
  ASSUME NEW ss, NEW n \in Nat, NEW g, Joined(ss, n, g)
  PROVE  \A i \in 1..n : g[i] = IF i = 1 THEN ss[i] ELSE g[i - 1] \o ss[i]
  BY DEF Joined

Agree(s, t, n) == \A i \in 1..n : s[i] = t[i]

LEMMA JoinedSame ==
  ASSUME NEW ss, NEW tt, NEW n \in Nat, NEW m \in Nat, NEW g, NEW h, n <= m,
         Joined(ss, n, g), Joined(tt, m, h), Agree(ss, tt, n)
  PROVE  Agree(g, h, n)
  <1> DEFINE S == {i \in Nat : i \in 1..n => g[i] = h[i]}
  <1>1. 0 \in S
    OBVIOUS
  <1>2. ASSUME NEW i \in Nat, i \in S PROVE i + 1 \in S
    <2> SUFFICES ASSUME i + 1 \in 1..n PROVE g[i + 1] = h[i + 1]
      OBVIOUS
    <2>1. i + 1 \in 1..m /\ (i + 1) - 1 = i
      OBVIOUS
    <2>2. g[i + 1] = IF i + 1 = 1 THEN ss[i + 1] ELSE g[i] \o ss[i + 1]
      BY <2>1, JoinedAt
    <2>3. h[i + 1] = IF i + 1 = 1 THEN tt[i + 1] ELSE h[i] \o tt[i + 1]
      BY <2>1, JoinedAt
    <2>4. i + 1 # 1 => g[i] = h[i]
      BY <1>2
    <2>5. ss[i + 1] = tt[i + 1]
      BY DEF Agree
    <2> QED BY <2>2, <2>3, <2>4, <2>5
  <1> HIDE DEF S
  <1>3. Nat \subseteq S
    BY <1>1, <1>2, Induction
  <1> QED BY <1>3 DEF S, Agree

LEMMA JoinedExists ==
  ASSUME NEW ss, NEW n \in Nat
  PROVE \E g : Joined(ss, n, g)
  <1> DEFINE S == {i \in Nat : \E g : Joined(ss, i, g)}
  <1>1. 0 \in S
    <2>1. Joined(ss, 0, [i \in 1..0 |-> ss[i]])
      BY DEF Joined
    <2> QED BY <2>1
  <1>2. ASSUME NEW i \in Nat, i \in S PROVE i + 1 \in S
    <2>1. PICK g : Joined(ss, i, g)
      BY <1>2
    <2>2. \A j \in 1..i : g[j] = IF j = 1 THEN ss[j] ELSE g[j - 1] \o ss[j]
      BY <2>1, JoinedAt
    <2> DEFINE h == [j \in 1..(i + 1) |-> IF j = 1 THEN ss[j] ELSE g[j - 1] \o ss[j]]
    <2>3. \A j \in 1..i : h[j] = g[j]
      BY <2>2
    <2>4. \A j \in 1..(i + 1) : j # 1 => j - 1 \in 1..i
      OBVIOUS
    <2>5. \A j \in 1..(i + 1) : j # 1 => h[j - 1] = g[j - 1]
      BY <2>3, <2>4
    <2>6. \A j \in 1..(i + 1) : h[j] = IF j = 1 THEN ss[j] ELSE h[j - 1] \o ss[j]
      BY <2>5
    <2>7. h = [j \in 1..(i + 1) |-> h[j]]
      OBVIOUS
    <2> HIDE DEF h
    <2>8. Joined(ss, i + 1, h)
      BY <2>6, <2>7 DEF Joined
    <2> QED BY <2>8
  <1> HIDE DEF S
  <1>3. Nat \subseteq S
    BY <1>1, <1>2, Induction
  <1> QED BY <1>3 DEF S

Regroups(s, t, u) == s \o (t \o u) = (s \o t) \o u

LEMMA Assoc ==
  ASSUME NEW A, NEW s \in Seq(A), NEW t \in Seq(A), NEW u \in Seq(A)
  PROVE  Regroups(s, t, u)
  BY DEF Regroups

LEMMA FlattenEmpty == FlattenSeq(<<>>) = <<>>
  BY DEF FlattenSeq

LEMMA FlattenJoined ==
  ASSUME NEW T, NEW ss \in Seq(T), ss # <<>>
  PROVE \E g : Joined(ss, Len(ss), g) /\ FlattenSeq(ss) = g[Len(ss)]
  <1>0. Len(ss) \in Nat \ {0}
    BY EmptySeq
  <1>1. PICK g0 : Joined(ss, Len(ss), g0)
    BY <1>0, JoinedExists
  <1> DEFINE Eq(g) == g = [i \in 1..Len(ss) |-> IF i = 1 THEN ss[i] ELSE g[i - 1] \o ss[i]]
             f == CHOOSE g : Eq(g)
  <1>2. Eq(f)
    <2>1. Eq(g0)
      BY <1>1 DEF Joined
    <2> HIDE DEF Eq
    <2> QED BY <2>1
  <1>3. FlattenSeq(ss) = f[Len(ss)]
    BY <1>0 DEF FlattenSeq
  <1>4. Joined(ss, Len(ss), f)
    <2> HIDE DEF f
    <2> QED BY <1>2 DEF Joined
  <1> QED BY <1>3, <1>4

LEMMA FlattenAppend ==
  ASSUME NEW A, NEW ss \in Seq(Seq(A)), NEW e \in Seq(A)
  PROVE  FlattenSeq(Append(ss, e)) = FlattenSeq(ss) \o e
  <1> DEFINE tt == Append(ss, e)
             n == Len(ss)
  <1>1. /\ tt \in Seq(Seq(A)) /\ tt # <<>> /\ Len(tt) = n + 1
        /\ \A i \in 1..n : ss[i] = tt[i]
        /\ tt[n + 1] = e
        /\ n \in Nat
    BY AppendProperties, LenProperties
  <1> HIDE DEF tt
  <1>2. PICK h : Joined(tt, n + 1, h) /\ FlattenSeq(tt) = h[n + 1]
    BY <1>1, FlattenJoined
  <1>3. h[n + 1] = IF n + 1 = 1 THEN e ELSE h[n] \o e
    <2>1. n + 1 \in 1..(n + 1) /\ (n + 1) - 1 = n /\ n + 1 \in Nat
      BY <1>1
    <2> QED BY <1>1, <1>2, <2>1, JoinedAt
  <1>4. CASE ss = <<>>
    <2>1. n = 0 /\ FlattenSeq(ss) = <<>> /\ <<>> \o e = e
      BY <1>4, FlattenEmpty, ConcatEmptySeq
    <2> QED BY <1>2, <1>3, <2>1 DEF tt
  <1>5. CASE ss # <<>>
    <2>1. PICK g : Joined(ss, n, g) /\ FlattenSeq(ss) = g[n]
      BY <1>5, FlattenJoined
    <2>2. n # 0 /\ n \in 1..n /\ n <= n + 1 /\ n + 1 \in Nat
      BY <1>1, <1>5, EmptySeq
    <2> HIDE DEF n
    <2>3. \A i \in 1..n : g[i] = h[i]
      <3>1. Joined(ss, n, g) /\ Joined(tt, n + 1, h)
        BY <1>2, <2>1
      <3>2. n \in Nat /\ n + 1 \in Nat /\ n <= n + 1 /\ Agree(ss, tt, n)
        BY <1>1, <2>2 DEF Agree
      <3>3. Agree(g, h, n)
        BY <3>1, <3>2, JoinedSame
      <3> QED BY <3>3 DEF Agree
    <2>4. g[n] = h[n] /\ n + 1 # 1
      BY <2>2, <2>3
    <2> QED BY <1>2, <1>3, <2>1, <2>4 DEF tt
  <1> QED BY <1>4, <1>5

LEMMA FlattenType ==
  ASSUME NEW A, NEW ss \in Seq(Seq(A))
  PROVE  FlattenSeq(ss) \in Seq(A)
  <1> DEFINE S == {n \in Nat : \A t \in Seq(Seq(A)) : Len(t) = n => FlattenSeq(t) \in Seq(A)}
  <1>1. 0 \in S
    <2>1. \A t \in Seq(Seq(A)) : Len(t) = 0 => t = <<>>
      BY EmptySeq
    <2>2. <<>> \in Seq(A)
      BY EmptySeq
    <2> QED BY <2>1, <2>2, FlattenEmpty
  <1>2. ASSUME NEW n \in Nat, n \in S PROVE n + 1 \in S
    <2> SUFFICES ASSUME NEW t \in Seq(Seq(A)), Len(t) = n + 1 PROVE FlattenSeq(t) \in Seq(A)
      OBVIOUS
    <2>1. t # <<>>
      OBVIOUS
    <2>2. PICK u \in Seq(Seq(A)), e \in Seq(A) : t = Append(u, e)
      BY <2>1, SequenceEmptyOrAppend
    <2>3. Len(u) = n
      BY <2>2, AppendProperties
    <2>4. FlattenSeq(u) \in Seq(A)
      BY <1>2, <2>3
    <2>5. FlattenSeq(t) = FlattenSeq(u) \o e
      BY <2>2, FlattenAppend
    <2> QED BY <2>4, <2>5, ConcatProperties
  <1> HIDE DEF S
  <1>3. Nat \subseteq S
    BY <1>1, <1>2, Induction
  <1> QED BY <1>3, LenProperties DEF S

LEMMA FlattenConcat ==
  ASSUME NEW A, NEW ss \in Seq(Seq(A)), NEW tt \in Seq(Seq(A))
  PROVE  FlattenSeq(ss \o tt) = FlattenSeq(ss) \o FlattenSeq(tt)
  <1> DEFINE S == {n \in Nat : \A t \in Seq(Seq(A)) :
                      Len(t) = n => FlattenSeq(ss \o t) = FlattenSeq(ss) \o FlattenSeq(t)}
  <1>0. FlattenSeq(ss) \in Seq(A)
    BY FlattenType
  <1>1. 0 \in S
    <2> SUFFICES ASSUME NEW t \in Seq(Seq(A)), Len(t) = 0
                 PROVE  FlattenSeq(ss \o t) = FlattenSeq(ss) \o FlattenSeq(t)
      OBVIOUS
    <2>1. t = <<>>
      BY EmptySeq
    <2>2. ss \o t = ss /\ FlattenSeq(t) = <<>>
      BY <2>1, FlattenEmpty, ConcatEmptySeq
    <2> QED BY <1>0, <2>2, ConcatEmptySeq
  <1>2. ASSUME NEW n \in Nat, n \in S PROVE n + 1 \in S
    <2> SUFFICES ASSUME NEW t \in Seq(Seq(A)), Len(t) = n + 1
                 PROVE  FlattenSeq(ss \o t) = FlattenSeq(ss) \o FlattenSeq(t)
      OBVIOUS
    <2>1. t # <<>>
      OBVIOUS
    <2>2. PICK u \in Seq(Seq(A)), e \in Seq(A) : t = Append(u, e)
      BY <2>1, SequenceEmptyOrAppend
    <2>3. Len(u) = n
      BY <2>2, AppendProperties
    <2>4. FlattenSeq(ss \o u) = FlattenSeq(ss) \o FlattenSeq(u)
      BY <1>2, <2>3
    <2>5. FlattenSeq(t) = FlattenSeq(u) \o e
      BY <2>2, FlattenAppend
    <2>6. ss \o t = Append(ss \o u, e) /\ ss \o u \in Seq(Seq(A))
      <3>1. ss \o u \in Seq(Seq(A)) /\ <<e>> \in Seq(Seq(A))
        BY ConcatProperties
      <3>2. Append(ss \o u, e) = (ss \o u) \o <<e>>
        BY <3>1, AppendIsConcat
      <3>3. t = u \o <<e>>
        BY <2>2, AppendIsConcat
      <3>4. ss \o (u \o <<e>>) = (ss \o u) \o <<e>>
        BY <3>1, Assoc DEF Regroups
      <3> QED BY <3>1, <3>2, <3>3, <3>4
    <2>7. FlattenSeq(ss \o t) = FlattenSeq(ss \o u) \o e
      BY <2>6, FlattenAppend
    <2>8. FlattenSeq(u) \in Seq(A)
      BY FlattenType
    <2>9. FlattenSeq(ss) \o (FlattenSeq(u) \o e) = (FlattenSeq(ss) \o FlattenSeq(u)) \o e
      <3>1. Regroups(FlattenSeq(ss), FlattenSeq(u), e)
        BY <1>0, <2>8, Assoc
      <3> QED BY <3>1 DEF Regroups
    <2> QED BY <2>4, <2>5, <2>7, <2>9
  <1> HIDE DEF S
  <1>3. Nat \subseteq S
    BY <1>1, <1>2, Induction
  <1> QED BY <1>3, LenProperties DEF S

LEMMA FlattenOne ==
  ASSUME NEW A, NEW e \in Seq(A)
  PROVE  FlattenSeq(<<e>>) = e
  <1>1. <<>> \in Seq(Seq(A)) /\ <<>> \in Seq(A)
    BY EmptySeq
  <1>2. <<e>> = Append(<<>>, e)
    OBVIOUS
  <1>3. FlattenSeq(Append(<<>>, e)) = FlattenSeq(<<>>) \o e
    BY <1>1, FlattenAppend
  <1> QED BY <1>2, <1>3, FlattenEmpty, ConcatEmptySeq

LEMMA FlattenUnits ==
  ASSUME NEW A, NEW t \in Seq(A), NEW ss, ss = [i \in 1..Len(t) |-> <<t[i]>>]
  PROVE  FlattenSeq(ss) = t
  <1> DEFINE S == {n \in Nat : \A u \in Seq(A) :
                     Len(u) = n => FlattenSeq([i \in 1..Len(u) |-> <<u[i]>>]) = u}
  <1>1. 0 \in S
    <2> SUFFICES ASSUME NEW u \in Seq(A), Len(u) = 0
                 PROVE  FlattenSeq([i \in 1..Len(u) |-> <<u[i]>>]) = u
      OBVIOUS
    <2>1. u = <<>>
      BY EmptySeq
    <2>2. [i \in 1..Len(u) |-> <<u[i]>>] = <<>>
      OBVIOUS
    <2> QED BY <2>1, <2>2, FlattenEmpty
  <1>2. ASSUME NEW n \in Nat, n \in S PROVE n + 1 \in S
    <2> SUFFICES ASSUME NEW u \in Seq(A), Len(u) = n + 1
                 PROVE  FlattenSeq([i \in 1..Len(u) |-> <<u[i]>>]) = u
      OBVIOUS
    <2>0. u # <<>>
      OBVIOUS
    <2>1. PICK v \in Seq(A), e \in A : u = Append(v, e)
      BY <2>0, SequenceEmptyOrAppend
    <2>2. Len(v) = n /\ u[n + 1] = e /\ \A i \in 1..n : u[i] = v[i]
      BY <2>1, AppendProperties
    <2> DEFINE vs == [i \in 1..Len(v) |-> <<v[i]>>]
               us == [i \in 1..Len(u) |-> <<u[i]>>]
    <2>3. FlattenSeq(vs) = v
      BY <1>2, <2>2
    <2>4. vs \in Seq(Seq(A)) /\ <<e>> \in Seq(A) /\ Len(vs) = n
      <3>1. \A i \in 1..Len(v) : <<v[i]>> \in Seq(A)
        BY <2>2
      <3>2. Len(v) \in Nat
        BY LenProperties
      <3> QED BY <2>2, <3>1, <3>2
    <2>5. us \in Seq(Seq(A)) /\ Len(us) = n + 1
      OBVIOUS
    <2>6. us = Append(vs, <<e>>)
      <3>1. \A i \in 1..n : Append(vs, <<e>>)[i] = vs[i]
        BY <2>4, AppendProperties
      <3>2. \A i \in 1..n : vs[i] = <<v[i]>> /\ us[i] = <<u[i]>>
        BY <2>2
      <3>3. us[n + 1] = <<e>>
        BY <2>2
      <3> HIDE DEF us, vs
      <3>4. /\ Append(vs, <<e>>) \in Seq(Seq(A)) /\ Len(Append(vs, <<e>>)) = n + 1
            /\ Append(vs, <<e>>)[n + 1] = <<e>>
        BY <2>4, AppendProperties
      <3>5. \A i \in 1..n : us[i] = Append(vs, <<e>>)[i]
        BY <2>2, <3>1, <3>2
      <3>6. us[n + 1] = Append(vs, <<e>>)[n + 1]
        BY <3>3, <3>4
      <3>7. \A i \in 1..(n + 1) : i \in 1..n \/ i = n + 1
        OBVIOUS
      <3>8. \A i \in 1..(n + 1) : us[i] = Append(vs, <<e>>)[i]
        BY <3>5, <3>6, <3>7, Zenon
      <3> QED BY <2>5, <3>4, <3>8, SeqEqual
    <2>7. FlattenSeq(us) = FlattenSeq(vs) \o <<e>>
      BY <2>4, <2>6, FlattenAppend
    <2> QED BY <2>1, <2>3, <2>7, AppendIsConcat
  <1> HIDE DEF S
  <1>3. Nat \subseteq S
    BY <1>1, <1>2, Induction
  <1> QED BY <1>3, LenProperties DEF S

LEMMA FlattenEmpties ==
  ASSUME NEW A, NEW ss \in Seq(Seq(A)), \A i \in 1..Len(ss) : ss[i] = <<>>
  PROVE  FlattenSeq(ss) = <<>>
  <1> DEFINE S == {n \in Nat : \A t \in Seq(Seq(A)) :
                     Len(t) = n /\ (\A i \in 1..n : t[i] = <<>>) => FlattenSeq(t) = <<>>}
  <1>1. 0 \in S
    BY EmptySeq, FlattenEmpty
  <1>2. ASSUME NEW n \in Nat, n \in S PROVE n + 1 \in S
    <2> SUFFICES ASSUME NEW t \in Seq(Seq(A)), Len(t) = n + 1, \A i \in 1..(n + 1) : t[i] = <<>>
                 PROVE  FlattenSeq(t) = <<>>
      OBVIOUS
    <2>0. t # <<>>
      OBVIOUS
    <2>1. PICK u \in Seq(Seq(A)), e \in Seq(A) : t = Append(u, e)
      BY <2>0, SequenceEmptyOrAppend
    <2>2. Len(u) = n /\ e = <<>> /\ \A i \in 1..n : u[i] = <<>>
      BY <2>1, AppendProperties
    <2>3. FlattenSeq(u) = <<>>
      BY <1>2, <2>2
    <2>4. FlattenSeq(t) = FlattenSeq(u) \o e
      BY <2>1, FlattenAppend
    <2> QED BY <2>2, <2>3, <2>4, ConcatEmptySeq, EmptySeq
  <1> HIDE DEF S
  <1>3. Nat \subseteq S
    BY <1>1, <1>2, Induction
  <1> QED BY <1>3, LenProperties DEF S

---------------------------------------------------------------------------
\* What the regular expressions match, character by character.
WordChars == Capitals \cup Digits \cup {Underscore}
Mapping(f) == \A k \in DOMAIN f :
    k \in Seq(Alphabet) /\ IsPlaceholder(k) /\ f[k] \in Seq(Alphabet \ Brackets)

LEMMA Chars == /\ WordChars \cap Brackets = {} /\ "[" # "]" /\ "[" \in Brackets /\ "]" \in Brackets
               /\ WordChars \cup Brackets \subseteq Alphabet
  <1>1. \A S \in {Capitals, Digits, Others} : S \cap (Brackets \cup {Underscore}) = {}
    BY AlphabetAssumption
  <1>2. Capitals \cap Brackets = {} /\ Digits \cap Brackets = {}
    BY <1>1
  <1>3. "[" # "]" /\ "[" # Underscore /\ "]" # Underscore
    BY Zenon DEF Underscore
  <1> QED BY <1>2, <1>3 DEF WordChars, Brackets, Alphabet

LEMMA PlaceholderChars ==
  ASSUME NEW w \in Seq(Alphabet), IsPlaceholder(w)
  PROVE  /\ Len(w) \in Nat /\ Len(w) >= 5
         /\ w[1] = "[" /\ w[Len(w)] = "]"
         /\ \A n \in 2..(Len(w) - 1) : w[n] \in WordChars
  <1>1. PICK k \in 3..(Len(w) - 2) : /\ w[k] = Underscore
                                     /\ WordPart(w, 3, k - 1)
                                     /\ Number(w, k + 1, Len(w) - 1)
    BY DEF IsPlaceholder
  <1>2. Len(w) \in Nat /\ Len(w) >= 5 /\ w[1] = "[" /\ w[Len(w)] = "]" /\ w[2] \in Capitals
    <2>1. Len(w) \in Nat
      OBVIOUS
    <2>2. Len(w) >= 5 /\ w[1] = "[" /\ w[Len(w)] = "]" /\ w[2] \in Capitals
      BY Zenon DEF IsPlaceholder
    <2> QED BY <2>1, <2>2
  <1>3. ASSUME NEW n \in 2..(Len(w) - 1) PROVE w[n] \in WordChars
    <2>1. CASE n = 2
      BY <1>2, <2>1 DEF WordChars
    <2>2. CASE n \in 3..(k - 1)
      BY <1>1, <2>2 DEF WordPart, WordChars
    <2>3. CASE n = k
      BY <1>1, <2>3 DEF WordChars
    <2>4. CASE n \in (k + 1)..(Len(w) - 1)
      BY <1>1, <2>4 DEF Number, WordChars
    <2>5. n = 2 \/ n \in 3..(k - 1) \/ n = k \/ n \in (k + 1)..(Len(w) - 1)
      BY <1>2
    <2> QED BY <2>1, <2>2, <2>3, <2>4, <2>5
  <1> QED BY <1>2, <1>3

LEMMA TailChars ==
  ASSUME NEW w \in Seq(Alphabet), IsTail(w)
  PROVE  /\ Len(w) \in Nat \ {0}
         /\ w[1] = "["
         /\ \A n \in 2..Len(w) : w[n] \in WordChars
  <1>1. Len(w) \in Nat \ {0} /\ w[1] = "["
    <2>1. Len(w) \in Nat
      OBVIOUS
    <2>2. Len(w) >= 1 /\ w[1] = "["
      BY Zenon DEF IsTail
    <2> QED BY <2>1, <2>2
  <1>2. ASSUME NEW n \in 2..Len(w) PROVE w[n] \in WordChars
    <2>1. Len(w) > 1
      BY <1>1
    <2>2. PICK k \in 2..Len(w) : WordPart(w, 3, k) /\ Number(w, k + 1, Len(w))
      BY <2>1 DEF IsTail
    <2>3. w[2] \in Capitals
      BY <2>1 DEF IsTail
    <2>4. CASE n = 2
      BY <2>3, <2>4 DEF WordChars
    <2>5. CASE n \in 3..k
      BY <2>2, <2>5 DEF WordPart, WordChars
    <2>6. CASE n \in (k + 1)..Len(w)
      BY <2>2, <2>6 DEF Number, WordChars
    <2>7. n = 2 \/ n \in 3..k \/ n \in (k + 1)..Len(w)
      BY <1>1
    <2> QED BY <2>4, <2>5, <2>6, <2>7
  <1> QED BY <1>1, <1>2

\* The first n characters of a sequence.
LEMMA FrontFacts ==
  ASSUME NEW A, NEW w \in Seq(A), NEW n \in 0..Len(w)
  PROVE  /\ SubSeq(w, 1, n) \in Seq(A) /\ Len(SubSeq(w, 1, n)) = n
         /\ \A i \in 1..n : SubSeq(w, 1, n)[i] = w[i]
  OBVIOUS

\* A prefix of what may become a token may still become one.
LEMMA TailPrefix ==
  ASSUME NEW w \in Seq(Alphabet), NEW v \in Seq(Alphabet), NEW n \in 1..Len(w), NEW k \in 2..Len(w),
         Len(v) = n, Agree(v, w, n),
         w[1] = "[", n > 1 => w[2] \in Capitals, WordPart(w, 3, k),
         Number(w, k + 1, n), k < n => k > 2 /\ w[k] = Underscore
  PROVE  IsTail(v)
  <1>1. Len(v) = n /\ n \in Nat \ {0} /\ \A i \in 1..n : v[i] = w[i]
    BY DEF Agree
  <1>0. v[1] = "["
    BY <1>1
  <1>2. CASE n = 1
    BY <1>0, <1>1, <1>2 DEF IsTail
  <1>3. CASE n > 1
    <2>1. v[2] \in Capitals
      BY <1>1, <1>3
    <2>2. CASE k <= n
      <3>1. WordPart(v, 3, k)
        BY <1>1, <2>2 DEF WordPart
      <3>2. Number(v, k + 1, Len(v))
        BY <1>1, <2>2 DEF Number
      <3>3. k < Len(v) => k > 2 /\ v[k] = Underscore
        BY <1>1
      <3>4. k \in 2..Len(v)
        BY <1>1, <2>2
      <3> QED BY <1>0, <1>1, <2>1, <3>1, <3>2, <3>3, <3>4 DEF IsTail
    <2>3. CASE k > n
      <3>1. WordPart(v, 3, n)
        BY <1>1, <2>3 DEF WordPart
      <3>2. Number(v, n + 1, Len(v))
        BY <1>1 DEF Number
      <3>3. n \in 2..Len(v) /\ ~(n < Len(v))
        BY <1>1, <1>3
      <3> QED BY <1>0, <1>1, <2>1, <3>1, <3>2, <3>3 DEF IsTail
    <2> QED BY <1>1, <2>2, <2>3
  <1> QED BY <1>1, <1>2, <1>3

LEMMA PrefixOfTail ==
  ASSUME NEW w \in Seq(Alphabet), NEW v \in Seq(Alphabet), IsTail(w), NEW n \in 1..Len(w),
         Len(v) = n, Agree(v, w, n)
  PROVE  IsTail(v)
  <1>1. w[1] = "[" /\ Len(w) \in Nat \ {0}
    BY TailChars
  <1>2. CASE Len(w) = 1
    <2>1. n = 1 /\ v[1] = w[1]
      BY <1>2 DEF Agree
    <2> QED BY <1>1, <2>1 DEF IsTail
  <1>3. CASE Len(w) > 1
    <2>1. w[2] \in Capitals
      BY <1>3, Zenon DEF IsTail
    <2>2. PICK k \in 2..Len(w) : /\ WordPart(w, 3, k) /\ Number(w, k + 1, Len(w))
                                 /\ k < Len(w) => k > 2 /\ w[k] = Underscore
      BY <1>3, Zenon DEF IsTail
    <2>3. Number(w, k + 1, n)
      BY <1>1, <2>2 DEF Number
    <2>4. k < n => k > 2 /\ w[k] = Underscore
      BY <1>1, <2>2
    <2> QED BY <1>1, <2>1, <2>2, <2>3, <2>4, TailPrefix
  <1>4. Len(w) = 1 \/ Len(w) > 1
    BY <1>1
  <1> QED BY <1>2, <1>3, <1>4

LEMMA PrefixOfPlaceholder ==
  ASSUME NEW w \in Seq(Alphabet), NEW v \in Seq(Alphabet), IsPlaceholder(w),
         NEW n \in 1..(Len(w) - 1), Len(v) = n, Agree(v, w, n)
  PROVE  IsTail(v)
  <1>1. PICK k \in 3..(Len(w) - 2) : /\ w[k] = Underscore
                                     /\ WordPart(w, 3, k - 1)
                                     /\ Number(w, k + 1, Len(w) - 1)
    BY DEF IsPlaceholder
  <1>2. Len(w) \in Nat /\ Len(w) >= 5 /\ w[1] = "["
    BY PlaceholderChars
  <1>3. w[2] \in Capitals
    BY Zenon DEF IsPlaceholder
  <1>4. WordPart(w, 3, k)
    BY <1>1 DEF WordPart
  <1>5. Number(w, k + 1, n)
    BY <1>1, <1>2 DEF Number
  <1>6. n \in 1..Len(w) /\ k \in 2..Len(w) /\ k > 2
    BY <1>1, <1>2
  <1> QED BY <1>1, <1>2, <1>3, <1>4, <1>5, <1>6, TailPrefix

---------------------------------------------------------------------------
\* Where tokens start, character by character.
LEMMA StartsAtPoint ==
  ASSUME NEW s \in Seq(Alphabet), NEW k \in Seq(Alphabet), NEW i \in Nat \ {0}
  PROVE  StartsAt(s, k, i) <=>
           i + Len(k) - 1 <= Len(s) /\ \A n \in 1..Len(k) : s[i + n - 1] = k[n]
  <1>1. Len(s) \in Nat /\ Len(k) \in Nat
    OBVIOUS
  <1>2. CASE i + Len(k) - 1 <= Len(s)
    <2>1. PICK v : v = SubSeq(s, i, i + Len(k) - 1)
      OBVIOUS
    <2>2. /\ v \in Seq(Alphabet) /\ Len(v) = Len(k)
          /\ \A n \in 1..Len(k) : v[n] = s[i + n - 1]
      BY <1>1, <1>2, <2>1
    <2>3. v = k <=> \A n \in 1..Len(k) : v[n] = k[n]
      BY <2>2, SeqEqual
    <2>4. StartsAt(s, k, i) <=> v = k
      BY <1>2, <2>1 DEF StartsAt
    <2> QED BY <1>2, <2>2, <2>3, <2>4
  <1>3. CASE ~(i + Len(k) - 1 <= Len(s))
    BY <1>3 DEF StartsAt
  <1> QED BY <1>2, <1>3

\* A token begins where it is found, and nothing in it does.
LEMMA TokenAt ==
  ASSUME NEW s \in Seq(Alphabet), NEW f, Mapping(f), NEW i \in Nat \ {0},
         NEW k \in TokensAt(s, f, i)
  PROVE  /\ k \in DOMAIN f /\ k \in Seq(Alphabet) /\ IsPlaceholder(k)
         /\ f[k] \in Seq(Alphabet \ Brackets)
         /\ Len(k) \in Nat /\ Len(k) >= 5
         /\ i + Len(k) - 1 <= Len(s)
         /\ \A n \in 1..Len(k) : s[i + n - 1] = k[n]
         /\ s[i] = "[" /\ s[i + Len(k) - 1] = "]"
         /\ \A m \in (i + 1)..(i + Len(k) - 2) : s[m] \in WordChars
         /\ \A m \in (i + 1)..(i + Len(k) - 1) : s[m] # "["
  <1>1. /\ k \in DOMAIN f /\ k \in Seq(Alphabet) /\ IsPlaceholder(k)
        /\ f[k] \in Seq(Alphabet \ Brackets)
    BY DEF TokensAt, Mapping
  <1>2. StartsAt(s, k, i)
    BY DEF TokensAt
  <1>3. /\ i + Len(k) - 1 <= Len(s)
        /\ \A n \in 1..Len(k) : s[i + n - 1] = k[n]
    BY <1>1, <1>2, StartsAtPoint
  <1>4. /\ Len(k) \in Nat /\ Len(k) >= 5
        /\ k[1] = "[" /\ k[Len(k)] = "]"
        /\ \A n \in 2..(Len(k) - 1) : k[n] \in WordChars
    BY <1>1, PlaceholderChars
  <1>5. s[i] = "[" /\ s[i + Len(k) - 1] = "]"
    <2>1. 1 \in 1..Len(k) /\ i + 1 - 1 = i /\ Len(k) \in 1..Len(k)
      BY <1>4
    <2>2. s[i + 1 - 1] = k[1] /\ s[i + Len(k) - 1] = k[Len(k)]
      BY <1>3, <2>1
    <2> QED BY <1>4, <2>1, <2>2
  <1>6. ASSUME NEW m \in (i + 1)..(i + Len(k) - 2) PROVE s[m] \in WordChars
    <2>1. m - i + 1 \in 1..Len(k) /\ m - i + 1 \in 2..(Len(k) - 1) /\ i + (m - i + 1) - 1 = m
      BY <1>4
    <2> QED BY <1>3, <1>4, <2>1
  <1>7. ASSUME NEW m \in (i + 1)..(i + Len(k) - 1) PROVE s[m] # "["
    <2>1. CASE m = i + Len(k) - 1
      BY <1>5, <2>1, Chars
    <2>2. CASE m # i + Len(k) - 1
      <3>1. Len(k) \in Nat
        BY <1>4
      <3>2. m \in (i + 1)..(i + Len(k) - 2)
        BY <2>2, <3>1
      <3> QED BY <1>6, <3>2, Chars
    <2> QED BY <2>1, <2>2
  <1> QED BY <1>1, <1>3, <1>4, <1>5, <1>6, <1>7

\* Two tokens that begin at the same place are the same.
LEMMA TokenUnique ==
  ASSUME NEW s \in Seq(Alphabet), NEW f, Mapping(f), NEW i \in Nat \ {0},
         NEW k \in TokensAt(s, f, i), NEW l \in TokensAt(s, f, i)
  PROVE  k = l
  <1>1. /\ k \in Seq(Alphabet) /\ Len(k) \in Nat /\ Len(k) >= 5
        /\ \A n \in 1..Len(k) : s[i + n - 1] = k[n]
        /\ s[i + Len(k) - 1] = "]"
        /\ \A m \in (i + 1)..(i + Len(k) - 2) : s[m] \in WordChars
    BY TokenAt
  <1>2. /\ l \in Seq(Alphabet) /\ Len(l) \in Nat /\ Len(l) >= 5
        /\ \A n \in 1..Len(l) : s[i + n - 1] = l[n]
        /\ s[i + Len(l) - 1] = "]"
        /\ \A m \in (i + 1)..(i + Len(l) - 2) : s[m] \in WordChars
    BY TokenAt
  <1>3. ~(Len(k) < Len(l))
    <2> SUFFICES ASSUME Len(k) < Len(l) PROVE FALSE
      OBVIOUS
    <2>1. i + Len(k) - 1 \in (i + 1)..(i + Len(l) - 2)
      BY <1>1, <1>2
    <2> QED BY <1>1, <1>2, <2>1, Chars
  <1>4. ~(Len(l) < Len(k))
    <2> SUFFICES ASSUME Len(l) < Len(k) PROVE FALSE
      OBVIOUS
    <2>1. i + Len(l) - 1 \in (i + 1)..(i + Len(k) - 2)
      BY <1>1, <1>2
    <2> QED BY <1>1, <1>2, <2>1, Chars
  <1>5. Len(k) = Len(l)
    BY <1>1, <1>2, <1>3, <1>4
  <1>6. \A n \in 1..Len(k) : k[n] = l[n]
    BY <1>1, <1>2, <1>5
  <1> QED BY <1>1, <1>2, <1>5, <1>6, SeqEqual

---------------------------------------------------------------------------
(* What becomes of each character. *)
LEMMA PieceCases ==
  ASSUME NEW s \in Seq(Alphabet), NEW f, Mapping(f), NEW i \in 1..Len(s)
  PROVE  /\ \A k \in TokensAt(s, f, i) : Piece(s, f, i) = f[k]
         /\ TokensAt(s, f, i) = {} /\ Covered(s, f, i) => Piece(s, f, i) = <<>>
         /\ TokensAt(s, f, i) = {} /\ ~Covered(s, f, i) => Piece(s, f, i) = <<s[i]>>
  <1>1. ASSUME NEW k \in TokensAt(s, f, i) PROVE Piece(s, f, i) = f[k]
    <2>1. \A l \in TokensAt(s, f, i) : l = k
      BY TokenUnique
    <2>2. (CHOOSE l \in TokensAt(s, f, i) : TRUE) \in TokensAt(s, f, i)
      BY <1>1
    <2>3. (CHOOSE l \in TokensAt(s, f, i) : TRUE) = k
      BY <2>1, <2>2
    <2>4. TokensAt(s, f, i) # {}
      BY <1>1
    <2> QED BY <2>3, <2>4 DEF Piece
  <1> QED BY <1>1 DEF Piece

LEMMA PieceType ==
  ASSUME NEW s \in Seq(Alphabet), NEW f, Mapping(f), NEW i \in 1..Len(s)
  PROVE  Piece(s, f, i) \in Seq(Alphabet)
  <1>1. CASE TokensAt(s, f, i) # {}
    <2>1. PICK k \in TokensAt(s, f, i) : TRUE
      BY <1>1
    <2>2. Piece(s, f, i) = f[k]
      BY PieceCases
    <2>3. i \in Nat \ {0}
      OBVIOUS
    <2>4. f[k] \in Seq(Alphabet \ Brackets)
      BY <2>3, TokenAt
    <2> QED BY <2>2, <2>4, SeqMonotonic
  <1>2. CASE TokensAt(s, f, i) = {} /\ Covered(s, f, i)
    <2>1. Piece(s, f, i) = <<>>
      BY <1>2, PieceCases
    <2> QED BY <2>1, EmptySeq
  <1>3. CASE TokensAt(s, f, i) = {} /\ ~Covered(s, f, i)
    <2>1. Piece(s, f, i) = <<s[i]>>
      BY <1>3, PieceCases
    <2>2. s[i] \in Alphabet
      OBVIOUS
    <2> QED BY <2>1, <2>2
  <1> QED BY <1>1, <1>2, <1>3

Pieces(s, f) == [i \in 1..Len(s) |-> Piece(s, f, i)]

LEMMA PiecesType ==
  ASSUME NEW s \in Seq(Alphabet), NEW f, Mapping(f)
  PROVE  /\ Pieces(s, f) \in Seq(Seq(Alphabet)) /\ Len(Pieces(s, f)) = Len(s)
         /\ \A i \in 1..Len(s) : Pieces(s, f)[i] = Piece(s, f, i)
         /\ Replaced(s, f) = FlattenSeq(Pieces(s, f))
         /\ Replaced(s, f) \in Seq(Alphabet)
  <1>1. \A i \in 1..Len(s) : Piece(s, f, i) \in Seq(Alphabet)
    BY PieceType
  <1>2. Len(s) \in Nat
    OBVIOUS
  <1>3. Pieces(s, f) \in Seq(Seq(Alphabet)) /\ Len(Pieces(s, f)) = Len(s)
    BY <1>1, <1>2 DEF Pieces
  <1>4. \A i \in 1..Len(s) : Pieces(s, f)[i] = Piece(s, f, i)
    BY DEF Pieces
  <1>5. Replaced(s, f) = FlattenSeq(Pieces(s, f))
    BY DEF Replaced, Pieces
  <1> QED BY <1>3, <1>4, <1>5, FlattenType

---------------------------------------------------------------------------
(* A text in two parts. *)
Joins(t, p, r) ==
    /\ t \in Seq(Alphabet) /\ p \in Seq(Alphabet) /\ r \in Seq(Alphabet)
    /\ Len(p) \in Nat /\ Len(r) \in Nat /\ Len(t) = Len(p) + Len(r)
    /\ \A i \in 1..Len(p) : t[i] = p[i]
    /\ \A i \in 1..Len(r) : t[Len(p) + i] = r[i]

LEMMA JoinsConcat ==
  ASSUME NEW p \in Seq(Alphabet), NEW r \in Seq(Alphabet)
  PROVE  Joins(p \o r, p, r)
  <1>1. PICK t : t = p \o r
    OBVIOUS
  <1>2. /\ t \in Seq(Alphabet) /\ Len(t) = Len(p) + Len(r)
        /\ \A i \in 1..(Len(p) + Len(r)) : t[i] = IF i <= Len(p) THEN p[i] ELSE r[i - Len(p)]
    BY <1>1, ConcatProperties
  <1>3. Len(p) \in Nat /\ Len(r) \in Nat
    OBVIOUS
  <1>4. \A i \in 1..Len(p) : t[i] = p[i]
    BY <1>2, <1>3
  <1>5. \A i \in 1..Len(r) : t[Len(p) + i] = r[i]
    <2> TAKE i \in 1..Len(r)
    <2>1. Len(p) + i \in 1..(Len(p) + Len(r)) /\ ~(Len(p) + i <= Len(p)) /\ Len(p) + i - Len(p) = i
      BY <1>3
    <2> QED BY <1>2, <2>1
  <1>6. Joins(t, p, r)
    BY <1>2, <1>3, <1>4, <1>5 DEF Joins
  <1> QED BY <1>1, <1>6

LEMMA ConcatJoins ==
  ASSUME NEW t, NEW p, NEW r, Joins(t, p, r)
  PROVE  t = p \o r
  <1>1. /\ t \in Seq(Alphabet) /\ p \in Seq(Alphabet) /\ r \in Seq(Alphabet)
        /\ Len(p) \in Nat /\ Len(r) \in Nat /\ Len(t) = Len(p) + Len(r)
        /\ \A i \in 1..Len(p) : t[i] = p[i]
        /\ \A i \in 1..Len(r) : t[Len(p) + i] = r[i]
    BY DEF Joins
  <1>2. PICK u : u = p \o r
    OBVIOUS
  <1>3. Joins(u, p, r)
    BY <1>1, <1>2, JoinsConcat
  <1>4. /\ u \in Seq(Alphabet) /\ Len(u) = Len(p) + Len(r)
        /\ \A i \in 1..Len(p) : u[i] = p[i]
        /\ \A i \in 1..Len(r) : u[Len(p) + i] = r[i]
    BY <1>3 DEF Joins
  <1>5. ASSUME NEW i \in 1..Len(t) PROVE t[i] = u[i]
    <2>1. CASE i <= Len(p)
      <3>1. i \in 1..Len(p)
        BY <1>1, <2>1
      <3> QED BY <1>1, <1>4, <3>1
    <2>2. CASE i > Len(p)
      <3>1. i - Len(p) \in 1..Len(r) /\ Len(p) + (i - Len(p)) = i
        BY <1>1, <2>2
      <3>2. t[Len(p) + (i - Len(p))] = r[i - Len(p)] /\ u[Len(p) + (i - Len(p))] = r[i - Len(p)]
        BY <1>1, <1>4, <3>1
      <3> QED BY <3>1, <3>2
    <2> QED BY <1>1, <2>1, <2>2
  <1>6. t = u
    BY <1>1, <1>4, <1>5, SeqEqual
  <1> QED BY <1>2, <1>6

\* No token reaches over the end of the first n characters.
NoCross(t, n, f) == \A i \in 1..n : \A k \in TokensAt(t, f, i) : i + Len(k) - 1 <= n

LEMMA TokensLeft ==
  ASSUME NEW t, NEW p, NEW r, Joins(t, p, r), NEW f, Mapping(f), NoCross(t, Len(p), f),
         NEW i \in 1..Len(p)
  PROVE  TokensAt(t, f, i) = TokensAt(p, f, i)
  <1>1. /\ t \in Seq(Alphabet) /\ p \in Seq(Alphabet)
        /\ Len(p) \in Nat /\ Len(r) \in Nat /\ Len(t) = Len(p) + Len(r)
        /\ \A j \in 1..Len(p) : t[j] = p[j]
    BY DEF Joins
  <1>2. ASSUME NEW k \in DOMAIN f PROVE StartsAt(t, k, i) <=> StartsAt(p, k, i)
    <2>1. k \in Seq(Alphabet) /\ Len(k) \in Nat /\ i \in Nat \ {0}
      BY <1>1 DEF Mapping
    <2>2. StartsAt(t, k, i) => i + Len(k) - 1 <= Len(p)
      BY DEF NoCross, TokensAt
    <2>3. CASE i + Len(k) - 1 <= Len(p)
      <3>1. \A n \in 1..Len(k) : t[i + n - 1] = p[i + n - 1]
        <4> TAKE n \in 1..Len(k)
        <4>1. i + n - 1 \in 1..Len(p)
          BY <1>1, <2>1, <2>3
        <4> QED BY <1>1, <4>1
      <3>2. i + Len(k) - 1 <= Len(t)
        BY <1>1, <2>1, <2>3
      <3>3. StartsAt(t, k, i) <=> \A n \in 1..Len(k) : t[i + n - 1] = k[n]
        BY <1>1, <2>1, <3>2, StartsAtPoint
      <3>4. StartsAt(p, k, i) <=> \A n \in 1..Len(k) : p[i + n - 1] = k[n]
        BY <1>1, <2>1, <2>3, StartsAtPoint
      <3> QED BY <3>1, <3>3, <3>4
    <2>4. CASE ~(i + Len(k) - 1 <= Len(p))
      BY <2>2, <2>4 DEF StartsAt
    <2> QED BY <2>3, <2>4
  <1> QED BY <1>2 DEF TokensAt

LEMMA TokensRight ==
  ASSUME NEW t, NEW p, NEW r, Joins(t, p, r), NEW f, Mapping(f), NEW i \in 1..Len(r)
  PROVE  TokensAt(t, f, Len(p) + i) = TokensAt(r, f, i)
  <1>1. /\ t \in Seq(Alphabet) /\ r \in Seq(Alphabet)
        /\ Len(p) \in Nat /\ Len(r) \in Nat /\ Len(t) = Len(p) + Len(r)
        /\ \A j \in 1..Len(r) : t[Len(p) + j] = r[j]
    BY DEF Joins
  <1>2. ASSUME NEW k \in DOMAIN f PROVE StartsAt(t, k, Len(p) + i) <=> StartsAt(r, k, i)
    <2>1. k \in Seq(Alphabet) /\ Len(k) \in Nat /\ i \in Nat \ {0} /\ Len(p) + i \in Nat \ {0}
      BY <1>1 DEF Mapping
    <2>2. Len(p) + i + Len(k) - 1 <= Len(t) <=> i + Len(k) - 1 <= Len(r)
      BY <1>1, <2>1
    <2>3. ASSUME i + Len(k) - 1 <= Len(r), NEW n \in 1..Len(k)
          PROVE  t[Len(p) + i + n - 1] = r[i + n - 1]
      <3>1. i + n - 1 \in 1..Len(r) /\ Len(p) + (i + n - 1) = Len(p) + i + n - 1
        BY <1>1, <2>1, <2>3
      <3> QED BY <1>1, <3>1
    <2>4. StartsAt(t, k, Len(p) + i) <=>
             /\ Len(p) + i + Len(k) - 1 <= Len(t)
             /\ \A n \in 1..Len(k) : t[Len(p) + i + n - 1] = k[n]
      BY <1>1, <2>1, StartsAtPoint
    <2>5. StartsAt(r, k, i) <=>
             /\ i + Len(k) - 1 <= Len(r)
             /\ \A n \in 1..Len(k) : r[i + n - 1] = k[n]
      BY <1>1, <2>1, StartsAtPoint
    <2> QED BY <2>2, <2>3, <2>4, <2>5
  <1> QED BY <1>2 DEF TokensAt

LEMMA CoveredLeft ==
  ASSUME NEW t, NEW p, NEW r, Joins(t, p, r), NEW f, Mapping(f), NoCross(t, Len(p), f),
         NEW i \in 1..Len(p)
  PROVE  Covered(t, f, i) <=> Covered(p, f, i)
  <1>1. Len(p) \in Nat
    BY DEF Joins
  <1>2. \A j \in 1..i : TokensAt(t, f, j) = TokensAt(p, f, j)
    BY <1>1, TokensLeft
  <1> QED BY <1>2 DEF Covered

LEMMA CoveredRight ==
  ASSUME NEW t, NEW p, NEW r, Joins(t, p, r), NEW f, Mapping(f), NoCross(t, Len(p), f),
         NEW i \in 1..Len(r)
  PROVE  Covered(t, f, Len(p) + i) <=> Covered(r, f, i)
  <1>1. Len(p) \in Nat /\ Len(r) \in Nat /\ i \in Nat \ {0}
    BY DEF Joins
  <1>2. \A j \in 1..i : TokensAt(t, f, Len(p) + j) = TokensAt(r, f, j)
    BY <1>1, TokensRight
  <1>3. \A j \in 1..Len(p) : \A k \in TokensAt(t, f, j) : ~(Len(p) + i < j + Len(k))
    <2> TAKE j \in 1..Len(p)
    <2> TAKE k \in TokensAt(t, f, j)
    <2>1. j + Len(k) - 1 <= Len(p)
      BY DEF NoCross
    <2>2. Len(k) \in Nat
      BY TokenAt DEF Joins
    <2> QED BY <1>1, <2>1, <2>2
  <1>4. ASSUME Covered(t, f, Len(p) + i) PROVE Covered(r, f, i)
    <2>1. PICK j \in 1..(Len(p) + i) : \E k \in TokensAt(t, f, j) : Len(p) + i < j + Len(k)
      BY <1>4 DEF Covered
    <2>2. PICK k \in TokensAt(t, f, j) : Len(p) + i < j + Len(k)
      BY <2>1
    <2>3. j \notin 1..Len(p)
      BY <1>3, <2>2
    <2>4. PICK m \in 1..i : j = Len(p) + m
      <3>1. j - Len(p) \in 1..i /\ j = Len(p) + (j - Len(p))
        BY <1>1, <2>3
      <3> QED BY <3>1
    <2>5. k \in TokensAt(r, f, m)
      BY <1>2, <2>2, <2>4
    <2>6. Len(k) \in Nat
      <3>1. m \in Nat \ {0}
        BY <1>1
      <3> QED BY <2>5, <3>1, TokenAt DEF Joins
    <2>7. i < m + Len(k)
      BY <1>1, <2>2, <2>4, <2>6
    <2> QED BY <2>5, <2>7 DEF Covered
  <1>5. ASSUME Covered(r, f, i) PROVE Covered(t, f, Len(p) + i)
    <2>1. PICK m \in 1..i : \E k \in TokensAt(r, f, m) : i < m + Len(k)
      BY <1>5 DEF Covered
    <2>2. PICK k \in TokensAt(r, f, m) : i < m + Len(k)
      BY <2>1
    <2>3. k \in TokensAt(t, f, Len(p) + m)
      BY <1>2, <2>2
    <2>4. Len(k) \in Nat
      <3>1. m \in Nat \ {0}
        BY <1>1
      <3> QED BY <3>1, TokenAt DEF Joins
    <2>5. Len(p) + m \in 1..(Len(p) + i) /\ Len(p) + i < (Len(p) + m) + Len(k)
      BY <1>1, <2>2, <2>4
    <2> QED BY <2>3, <2>5 DEF Covered
  <1> QED BY <1>4, <1>5

LEMMA SamePiece ==
  ASSUME NEW s, NEW t, NEW i, NEW j, NEW f, NEW g, TokensAt(s, f, i) = TokensAt(t, g, j),
         \A k \in TokensAt(s, f, i) : f[k] = g[k],
         Covered(s, f, i) <=> Covered(t, g, j), s[i] = t[j]
  PROVE  Piece(s, f, i) = Piece(t, g, j)
  BY DEF Piece

\* A text is replaced part by part when no token reaches over the joint.
LEMMA ReplacedSplit ==
  ASSUME NEW t, NEW p, NEW r, Joins(t, p, r), NEW f, Mapping(f), NoCross(t, Len(p), f)
  PROVE  Replaced(t, f) = Replaced(p, f) \o Replaced(r, f)
  <1>1. /\ t \in Seq(Alphabet) /\ p \in Seq(Alphabet) /\ r \in Seq(Alphabet)
        /\ Len(p) \in Nat /\ Len(r) \in Nat /\ Len(t) = Len(p) + Len(r)
        /\ \A i \in 1..Len(p) : t[i] = p[i]
        /\ \A i \in 1..Len(r) : t[Len(p) + i] = r[i]
    BY DEF Joins
  <1>2. PICK ts, ps, rs : ts = Pieces(t, f) /\ ps = Pieces(p, f) /\ rs = Pieces(r, f)
    OBVIOUS
  <1>3. /\ ts \in Seq(Seq(Alphabet)) /\ Len(ts) = Len(t)
        /\ \A i \in 1..Len(t) : ts[i] = Piece(t, f, i)
        /\ Replaced(t, f) = FlattenSeq(ts)
    BY <1>1, <1>2, PiecesType
  <1>4. /\ ps \in Seq(Seq(Alphabet)) /\ Len(ps) = Len(p)
        /\ \A i \in 1..Len(p) : ps[i] = Piece(p, f, i)
        /\ Replaced(p, f) = FlattenSeq(ps)
    BY <1>1, <1>2, PiecesType
  <1>5. /\ rs \in Seq(Seq(Alphabet)) /\ Len(rs) = Len(r)
        /\ \A i \in 1..Len(r) : rs[i] = Piece(r, f, i)
        /\ Replaced(r, f) = FlattenSeq(rs)
    BY <1>1, <1>2, PiecesType
  <1>6. ASSUME NEW i \in 1..Len(p) PROVE Piece(t, f, i) = Piece(p, f, i)
    <2>1. TokensAt(t, f, i) = TokensAt(p, f, i)
      BY TokensLeft
    <2>2. Covered(t, f, i) <=> Covered(p, f, i)
      BY CoveredLeft
    <2>3. t[i] = p[i]
      BY <1>1
    <2> QED BY <2>1, <2>2, <2>3, SamePiece
  <1>7. ASSUME NEW i \in 1..Len(r) PROVE Piece(t, f, Len(p) + i) = Piece(r, f, i)
    <2>1. TokensAt(t, f, Len(p) + i) = TokensAt(r, f, i)
      BY TokensRight
    <2>2. Covered(t, f, Len(p) + i) <=> Covered(r, f, i)
      BY CoveredRight
    <2>3. t[Len(p) + i] = r[i]
      BY <1>1
    <2> QED BY <2>1, <2>2, <2>3, SamePiece
  <1>8. ts = ps \o rs
    <2>1. PICK us : us = ps \o rs
      OBVIOUS
    <2>2. /\ us \in Seq(Seq(Alphabet)) /\ Len(us) = Len(ps) + Len(rs)
          /\ \A i \in 1..(Len(ps) + Len(rs)) :
                us[i] = IF i <= Len(ps) THEN ps[i] ELSE rs[i - Len(ps)]
      BY <1>4, <1>5, <2>1, ConcatProperties
    <2>3. ASSUME NEW i \in 1..Len(t) PROVE ts[i] = us[i]
      <3>1. CASE i <= Len(p)
        <4>1. i \in 1..Len(p)
          BY <1>1, <3>1
        <4>2. us[i] = ps[i]
          BY <1>1, <1>4, <1>5, <2>2, <3>1
        <4> QED BY <1>3, <1>4, <1>6, <4>1, <4>2
      <3>2. CASE i > Len(p)
        <4>1. PICK j : j = i - Len(p)
          OBVIOUS
        <4>2. j \in 1..Len(r) /\ i = Len(p) + j
          BY <1>1, <3>2, <4>1
        <4>3. us[i] = rs[j]
          BY <1>1, <1>4, <1>5, <2>2, <3>2, <4>1
        <4> QED BY <1>3, <1>5, <1>7, <4>2, <4>3
      <3> QED BY <1>1, <3>1, <3>2
    <2>4. ts = us
      BY <1>1, <1>3, <1>4, <1>5, <2>2, <2>3, SeqEqual
    <2> QED BY <2>1, <2>4
  <1>9. FlattenSeq(ts) = FlattenSeq(ps) \o FlattenSeq(rs)
    BY <1>4, <1>5, <1>8, FlattenConcat
  <1> QED BY <1>3, <1>4, <1>5, <1>9

---------------------------------------------------------------------------
(* What replacing does to a text without tokens, to a token, to a tail.    *)
LEMMA NoTokens ==
  ASSUME NEW s \in Seq(Alphabet), NEW f, Mapping(f), \A i \in 1..Len(s) : TokensAt(s, f, i) = {}
  PROVE  Replaced(s, f) = s
  <1>1. \A i \in 1..Len(s) : Piece(s, f, i) = <<s[i]>>
    <2> TAKE i \in 1..Len(s)
    <2>1. ~Covered(s, f, i)
      BY DEF Covered
    <2> QED BY <2>1, PieceCases
  <1>2. Pieces(s, f) = [i \in 1..Len(s) |-> <<s[i]>>]
    BY <1>1 DEF Pieces
  <1>3. FlattenSeq(Pieces(s, f)) = s
    BY <1>2, FlattenUnits
  <1> QED BY <1>3, PiecesType

LEMMA EmptyReplaced ==
  ASSUME NEW f, Mapping(f)
  PROVE  Replaced(<<>>, f) = <<>>
  <1>1. <<>> \in Seq(Alphabet) /\ Len(<<>>) = 0
    BY EmptySeq
  <1>2. \A i \in 1..Len(<<>>) : TokensAt(<<>>, f, i) = {}
    BY <1>1
  <1> QED BY <1>1, <1>2, NoTokens

\* Flattening a part followed by empty ones.
LEMMA FlattenFirst ==
  ASSUME NEW A, NEW ss \in Seq(Seq(A)), Len(ss) > 0, \A i \in 2..Len(ss) : ss[i] = <<>>
  PROVE  FlattenSeq(ss) = ss[1]
  <1>1. Len(ss) \in Nat /\ 1 \in 1..Len(ss) /\ ss[1] \in Seq(A)
    <2>1. Len(ss) \in Nat /\ 1 \in 1..Len(ss)
      BY LenProperties
    <2> QED BY <2>1, ElementOfSeq
  <1>2. PICK e : e = ss[1]
    OBVIOUS
  <1>3. PICK es : es = [i \in 1..(Len(ss) - 1) |-> <<>>]
    OBVIOUS
  <1>4. /\ es \in Seq(Seq(A)) /\ Len(es) = Len(ss) - 1
        /\ \A i \in 1..(Len(ss) - 1) : es[i] = <<>>
    <2>1. <<>> \in Seq(A)
      BY EmptySeq
    <2> QED BY <1>1, <1>3, <2>1
  <1>5. /\ <<e>> \in Seq(Seq(A)) /\ Len(<<e>>) = 1 /\ <<e>>[1] = e
    BY <1>1, <1>2
  <1>6. ss = <<e>> \o es
    <2>1. PICK us : us = <<e>> \o es
      OBVIOUS
    <2>2. PICK d : d = <<e>>
      OBVIOUS
    <2>3. /\ us \in Seq(Seq(A)) /\ Len(us) = 1 + Len(es)
          /\ \A i \in 1..(1 + Len(es)) : us[i] = IF i <= 1 THEN d[1] ELSE es[i - 1]
      BY <1>4, <1>5, <2>1, <2>2, ConcatProperties
    <2>4. ASSUME NEW i \in 1..Len(ss) PROVE ss[i] = us[i]
      <3>1. CASE i = 1
        BY <1>1, <1>2, <1>4, <1>5, <2>2, <2>3, <3>1
      <3>2. CASE i # 1
        <4>1. i \in 2..Len(ss) /\ i - 1 \in 1..(Len(ss) - 1) /\ i \in 1..(1 + Len(es)) /\ ~(i <= 1)
          BY <1>1, <1>4, <3>2
        <4>2. us[i] = es[i - 1]
          BY <2>3, <4>1
        <4> QED BY <1>4, <4>1, <4>2
      <3> QED BY <3>1, <3>2
    <2>5. ss = us
      <3>1. Len(ss) = Len(us) /\ us \in Seq(Seq(A)) /\ ss \in Seq(Seq(A))
        BY <1>1, <1>4, <2>3
      <3> QED BY <2>4, <3>1, SeqEqual
    <2> QED BY <2>1, <2>5
  <1>7. FlattenSeq(ss) = FlattenSeq(<<e>>) \o FlattenSeq(es)
    BY <1>4, <1>5, <1>6, FlattenConcat
  <1>8. FlattenSeq(<<e>>) = e /\ FlattenSeq(es) = <<>>
    BY <1>1, <1>2, <1>4, FlattenOne, FlattenEmpties
  <1> QED BY <1>1, <1>2, <1>7, <1>8, ConcatEmptySeq

LEMMA OneToken ==
  ASSUME NEW f, Mapping(f), NEW k \in DOMAIN f
  PROVE  Replaced(k, f) = f[k]
  <1>1. k \in Seq(Alphabet) /\ IsPlaceholder(k) /\ f[k] \in Seq(Alphabet)
    BY SeqMonotonic DEF Mapping
  <1>2. Len(k) \in Nat /\ Len(k) >= 5
    BY <1>1, PlaceholderChars
  <1>3. k \in TokensAt(k, f, 1)
    <2>1. 1 + Len(k) - 1 <= Len(k) /\ \A n \in 1..Len(k) : k[1 + n - 1] = k[n]
      BY <1>2
    <2>2. StartsAt(k, k, 1)
      BY <1>1, <2>1, StartsAtPoint
    <2> QED BY <2>2 DEF TokensAt
  <1>4. ASSUME NEW i \in 2..Len(k) PROVE Piece(k, f, i) = <<>>
    <2>1. TokensAt(k, f, i) = {}
      <3> SUFFICES ASSUME NEW l \in TokensAt(k, f, i) PROVE FALSE
        OBVIOUS
      <3>1. k[i] = "["
        BY <1>1, <1>2, TokenAt
      <3>2. i \in (1 + 1)..(1 + Len(k) - 1)
        BY <1>2
      <3>3. PICK j : j = 1
        OBVIOUS
      <3>4. j \in Nat \ {0} /\ k \in TokensAt(k, f, j)
        BY <1>3, <3>3
      <3>5. \A m \in (j + 1)..(j + Len(k) - 1) : k[m] # "["
        BY <1>1, <3>4, TokenAt
      <3>6. k[i] # "["
        BY <3>2, <3>3, <3>5
      <3> QED BY <3>1, <3>6
    <2>2. Covered(k, f, i)
      <3>1. 1 \in 1..i /\ i < 1 + Len(k)
        BY <1>2
      <3> QED BY <1>3, <3>1 DEF Covered
    <2>3. i \in 1..Len(k)
      BY <1>2
    <2> QED BY <1>1, <2>1, <2>2, <2>3, PieceCases
  <1>5. Piece(k, f, 1) = f[k]
    <2>1. 1 \in 1..Len(k)
      BY <1>2
    <2> QED BY <1>1, <1>3, <2>1, PieceCases
  <1>6. PICK ks : ks = Pieces(k, f)
    OBVIOUS
  <1>7. /\ ks \in Seq(Seq(Alphabet)) /\ Len(ks) = Len(k)
        /\ \A i \in 1..Len(k) : ks[i] = Piece(k, f, i)
        /\ Replaced(k, f) = FlattenSeq(ks)
    BY <1>1, <1>6, PiecesType
  <1>8. Len(ks) > 0 /\ ks[1] = f[k] /\ \A i \in 2..Len(ks) : ks[i] = <<>>
    BY <1>2, <1>4, <1>5, <1>7
  <1> QED BY <1>7, <1>8, FlattenFirst

\* Tokens that do not occur in a text change nothing in it.
LEMMA MoreTokens ==
  ASSUME NEW s \in Seq(Alphabet), NEW f, NEW g, DOMAIN f \subseteq DOMAIN g,
         \A k \in DOMAIN f : g[k] = f[k],
         \A i \in 1..Len(s) : \A k \in DOMAIN g : StartsAt(s, k, i) => k \in DOMAIN f
  PROVE  Replaced(s, g) = Replaced(s, f)
  <1>1. \A i \in 1..Len(s) : TokensAt(s, f, i) = TokensAt(s, g, i)
    BY DEF TokensAt
  <1>2. ASSUME NEW i \in 1..Len(s) PROVE Piece(s, f, i) = Piece(s, g, i)
    <2>1. \A j \in 1..i : TokensAt(s, f, j) = TokensAt(s, g, j)
      BY <1>1
    <2>2. Covered(s, f, i) <=> Covered(s, g, i)
      BY <2>1 DEF Covered
    <2>3. \A k \in TokensAt(s, f, i) : f[k] = g[k]
      BY DEF TokensAt
    <2> QED BY <1>1, <2>2, <2>3, SamePiece
  <1> QED BY <1>2 DEF Replaced

LEMMA BracketParts ==
  ASSUME NEW t, NEW p, NEW r, Joins(t, p, r), Len(r) > 0, r[1] = "[", NEW f, Mapping(f)
  PROVE  NoCross(t, Len(p), f)
  <1>1. /\ t \in Seq(Alphabet) /\ Len(p) \in Nat /\ Len(r) \in Nat /\ t[Len(p) + 1] = r[1]
    BY DEF Joins
  <1> SUFFICES ASSUME NEW i \in 1..Len(p), NEW k \in TokensAt(t, f, i), i + Len(k) - 1 > Len(p)
               PROVE  FALSE
    <2>1. \A i \in 1..Len(p) : \A k \in TokensAt(t, f, i) : Len(k) \in Nat
      BY <1>1, TokenAt
    <2> QED BY <1>1, <2>1 DEF NoCross
  <1>2. Len(k) \in Nat /\ \A m \in (i + 1)..(i + Len(k) - 1) : t[m] # "["
    BY <1>1, TokenAt
  <1>3. Len(p) + 1 \in (i + 1)..(i + Len(k) - 1)
    BY <1>1, <1>2
  <1> QED BY <1>1, <1>2, <1>3

LEMMA TailReplaced ==
  ASSUME NEW w \in Seq(Alphabet), IsTail(w), NEW f, Mapping(f)
  PROVE  /\ \A i \in 1..Len(w) : TokensAt(w, f, i) = {}
         /\ Replaced(w, f) = w
  <1>1. Len(w) \in Nat \ {0} /\ w[1] = "[" /\ \A n \in 2..Len(w) : w[n] \in WordChars
    BY TailChars
  <1>2. ASSUME NEW i \in 1..Len(w), NEW k \in TokensAt(w, f, i) PROVE FALSE
    <2>1. Len(k) \in Nat /\ Len(k) >= 5 /\ i + Len(k) - 1 <= Len(w) /\ w[i + Len(k) - 1] = "]"
      BY <1>1, TokenAt
    <2>2. i + Len(k) - 1 \in 2..Len(w)
      BY <1>1, <2>1
    <2> QED BY <1>1, <2>1, <2>2, Chars
  <1>3. \A i \in 1..Len(w) : TokensAt(w, f, i) = {}
    BY <1>2
  <1> QED BY <1>3, NoTokens

---------------------------------------------------------------------------
(* The tail of a text, held back. *)
TailEnd(s, p, w) == Joins(s, p, w) /\ IsTail(w)

LEMMA TailStays ==
  ASSUME NEW t, NEW p, NEW w, TailEnd(t, p, w), NEW f, Mapping(f)
  PROVE  TailEnd(Replaced(t, f), Replaced(p, f), w)
  <1>1. Joins(t, p, w) /\ IsTail(w) /\ p \in Seq(Alphabet) /\ w \in Seq(Alphabet)
    BY DEF TailEnd, Joins
  <1>2. Len(w) > 0 /\ w[1] = "["
    BY <1>1, TailChars
  <1>3. NoCross(t, Len(p), f)
    BY <1>1, <1>2, BracketParts
  <1>4. Replaced(t, f) = Replaced(p, f) \o w
    BY <1>1, <1>3, ReplacedSplit, TailReplaced
  <1>5. Replaced(p, f) \in Seq(Alphabet)
    BY <1>1, PiecesType
  <1> QED BY <1>1, <1>4, <1>5, JoinsConcat DEF TailEnd

LEMMA TailEndUnique ==
  ASSUME NEW s, NEW p, NEW w, NEW q, NEW v, TailEnd(s, p, w), TailEnd(s, q, v)
  PROVE  p = q /\ w = v
  <1>1. /\ s \in Seq(Alphabet) /\ p \in Seq(Alphabet) /\ w \in Seq(Alphabet)
        /\ Len(p) \in Nat /\ Len(w) \in Nat /\ Len(s) = Len(p) + Len(w)
        /\ \A i \in 1..Len(p) : s[i] = p[i]
        /\ \A i \in 1..Len(w) : s[Len(p) + i] = w[i]
    BY DEF TailEnd, Joins
  <1>2. /\ q \in Seq(Alphabet) /\ v \in Seq(Alphabet)
        /\ Len(q) \in Nat /\ Len(v) \in Nat /\ Len(s) = Len(q) + Len(v)
        /\ \A i \in 1..Len(q) : s[i] = q[i]
        /\ \A i \in 1..Len(v) : s[Len(q) + i] = v[i]
    BY DEF TailEnd, Joins
  <1>3. Len(w) > 0 /\ w[1] = "[" /\ \A n \in 2..Len(w) : w[n] \in WordChars
    BY <1>1, TailChars DEF TailEnd
  <1>4. Len(v) > 0 /\ v[1] = "[" /\ \A n \in 2..Len(v) : v[n] \in WordChars
    BY <1>2, TailChars DEF TailEnd
  <1>5. ~(Len(p) < Len(q))
    <2> SUFFICES ASSUME Len(p) < Len(q) PROVE FALSE
      OBVIOUS
    <2>1. PICK d : d = Len(q) + 1 - Len(p)
      OBVIOUS
    <2>2. d \in 2..Len(w) /\ d \in 1..Len(w) /\ Len(p) + d = Len(q) + 1 /\ 1 \in 1..Len(v)
      BY <1>1, <1>2, <1>4, <2>1
    <2>3. s[Len(q) + 1] = w[d] /\ s[Len(q) + 1] = v[1]
      BY <1>1, <1>2, <2>2
    <2> QED BY <1>3, <1>4, <2>2, <2>3, Chars
  <1>6. ~(Len(q) < Len(p))
    <2> SUFFICES ASSUME Len(q) < Len(p) PROVE FALSE
      OBVIOUS
    <2>1. PICK d : d = Len(p) + 1 - Len(q)
      OBVIOUS
    <2>2. d \in 2..Len(v) /\ d \in 1..Len(v) /\ Len(q) + d = Len(p) + 1 /\ 1 \in 1..Len(w)
      BY <1>1, <1>2, <1>3, <2>1
    <2>3. s[Len(p) + 1] = v[d] /\ s[Len(p) + 1] = w[1]
      BY <1>1, <1>2, <2>2
    <2> QED BY <1>3, <1>4, <2>2, <2>3, Chars
  <1>7. Len(p) = Len(q) /\ Len(w) = Len(v)
    BY <1>1, <1>2, <1>5, <1>6
  <1>8. p = q
    <2>1. \A i \in 1..Len(p) : p[i] = q[i]
      BY <1>1, <1>2, <1>7
    <2> QED BY <1>1, <1>2, <1>7, <2>1, SeqEqual
  <1>9. w = v
    <2>1. \A i \in 1..Len(w) : w[i] = v[i]
      BY <1>1, <1>2, <1>7
    <2> QED BY <1>1, <1>2, <1>7, <2>1, SeqEqual
  <1> QED BY <1>8, <1>9

\* A text cut in two anywhere.
LEMMA CutJoins ==
  ASSUME NEW s \in Seq(Alphabet), NEW n \in 0..Len(s)
  PROVE  Joins(s, SubSeq(s, 1, n), SubSeq(s, n + 1, Len(s)))
  <1>1. PICK p, r : p = SubSeq(s, 1, n) /\ r = SubSeq(s, n + 1, Len(s))
    OBVIOUS
  <1>2. Len(s) \in Nat /\ n \in Nat /\ n <= Len(s)
    OBVIOUS
  <1>3. p \in Seq(Alphabet) /\ Len(p) = n /\ \A i \in 1..n : s[i] = p[i]
    BY <1>1, <1>2
  <1>4. r \in Seq(Alphabet) /\ Len(r) = Len(s) - n /\ \A i \in 1..(Len(s) - n) : s[n + i] = r[i]
    BY <1>1, <1>2
  <1>5. Joins(s, p, r)
    BY <1>2, <1>3, <1>4 DEF Joins
  <1> QED BY <1>1, <1>5

Ready(s) == SubSeq(s, 1, HoldFrom(s) - 1)
Held(s) == SubSeq(s, HoldFrom(s), Len(s))

LEMMA HeldCases ==
  ASSUME NEW s \in Seq(Alphabet)
  PROVE  \/ TailEnd(s, Ready(s), Held(s))
         \/ (\A p, w : ~TailEnd(s, p, w)) /\ Ready(s) = s /\ Held(s) = <<>>
  <1>0. Len(s) \in Nat /\ DOMAIN s = 1..Len(s)
    OBVIOUS
  <1>1. CASE \E i \in DOMAIN s : IsTail(SubSeq(s, i, Len(s)))
    <2>1. PICK h : h = HoldFrom(s)
      OBVIOUS
    <2>2. h \in DOMAIN s /\ IsTail(SubSeq(s, h, Len(s)))
      BY <1>1, <2>1 DEF HoldFrom
    <2>3. h - 1 \in 0..Len(s) /\ h - 1 + 1 = h
      BY <1>0, <2>2
    <2>4. Joins(s, SubSeq(s, 1, h - 1), SubSeq(s, h, Len(s)))
      BY <2>3, CutJoins
    <2>5. TailEnd(s, SubSeq(s, 1, h - 1), SubSeq(s, h, Len(s)))
      BY <2>2, <2>4 DEF TailEnd
    <2> QED BY <2>1, <2>5 DEF Ready, Held
  <1>2. CASE ~\E i \in DOMAIN s : IsTail(SubSeq(s, i, Len(s)))
    <2>1. HoldFrom(s) = Len(s) + 1
      BY <1>2 DEF HoldFrom
    <2>2. Ready(s) = s
      BY <1>0, <2>1, SubSeqFull DEF Ready
    <2>3. Held(s) = <<>>
      BY <1>0, <2>1, SubSeqEmpty DEF Held
    <2>4. ASSUME NEW p, NEW w, TailEnd(s, p, w) PROVE FALSE
      <3>1. /\ p \in Seq(Alphabet) /\ w \in Seq(Alphabet)
            /\ Len(p) \in Nat /\ Len(w) \in Nat /\ Len(s) = Len(p) + Len(w)
            /\ \A i \in 1..Len(w) : s[Len(p) + i] = w[i]
        BY <2>4 DEF TailEnd, Joins
      <3>2. Len(w) > 0
        BY <2>4, <3>1, TailChars DEF TailEnd
      <3>3. PICK j : j = Len(p) + 1
        OBVIOUS
      <3>4. PICK v : v = SubSeq(s, j, Len(s))
        OBVIOUS
      <3>5. j \in DOMAIN s
        BY <1>0, <3>1, <3>2, <3>3
      <3>6. v \in Seq(Alphabet) /\ Len(v) = Len(w) /\ \A i \in 1..Len(w) : v[i] = s[j + i - 1]
        BY <1>0, <3>1, <3>2, <3>3, <3>4
      <3>7. \A i \in 1..Len(w) : v[i] = w[i]
        <4> TAKE i \in 1..Len(w)
        <4>1. j + i - 1 = Len(p) + i
          BY <3>1, <3>3
        <4> QED BY <3>1, <3>6, <4>1
      <3>8. v = w
        BY <3>1, <3>6, <3>7, SeqEqual
      <3> QED BY <1>2, <2>4, <3>4, <3>5, <3>8 DEF TailEnd
    <2> QED BY <2>2, <2>3, <2>4
  <1> QED BY <1>1, <1>2

---------------------------------------------------------------------------
(* Replacing makes no new beginning of a token. *)
LEMMA Lengths ==
  ASSUME NEW a \in Nat, NEW b \in Nat, NEW c \in Nat
  PROVE  /\ c > 0 /\ a + c = b + 1 /\ ~(a < b) => c = 1 /\ a = b
         /\ a = b + c /\ b = a - 1 => c = 1
  OBVIOUS

LEMMA CutTail ==
  ASSUME NEW t, NEW u, NEW x, Joins(t, u, x), NEW q, NEW v, TailEnd(t, q, v), Len(q) < Len(u)
  PROVE  \E w : /\ TailEnd(u, q, w) /\ Len(w) = Len(u) - Len(q)
                /\ \A i \in 1..Len(w) : w[i] = v[i]
  <1>1. /\ t \in Seq(Alphabet) /\ u \in Seq(Alphabet) /\ x \in Seq(Alphabet)
        /\ Len(u) \in Nat /\ Len(x) \in Nat /\ Len(t) = Len(u) + Len(x)
        /\ \A i \in 1..Len(u) : t[i] = u[i]
    BY DEF Joins
  <1>2. /\ q \in Seq(Alphabet) /\ v \in Seq(Alphabet)
        /\ Len(q) \in Nat /\ Len(v) \in Nat /\ Len(t) = Len(q) + Len(v)
        /\ \A i \in 1..Len(q) : t[i] = q[i]
        /\ \A i \in 1..Len(v) : t[Len(q) + i] = v[i]
        /\ IsTail(v)
    BY DEF TailEnd, Joins
  <1>3. PICK d : d = Len(u) - Len(q)
    OBVIOUS
  <1>4. d \in 1..Len(v)
    BY <1>1, <1>2, <1>3
  <1>5. PICK w : w = SubSeq(v, 1, d)
    OBVIOUS
  <1>6. w \in Seq(Alphabet) /\ Len(w) = d /\ \A i \in 1..d : w[i] = v[i]
    BY <1>2, <1>4, <1>5
  <1>7. IsTail(w)
    <2>1. Agree(w, v, d)
      BY <1>6 DEF Agree
    <2> QED BY <1>2, <1>4, <1>6, <2>1, PrefixOfTail
  <1>8. Joins(u, q, w)
    <2>1. \A i \in 1..Len(q) : u[i] = q[i]
      BY <1>1, <1>2
    <2>2. \A i \in 1..Len(w) : u[Len(q) + i] = w[i]
      <3> TAKE i \in 1..Len(w)
      <3>1. i \in 1..d /\ i \in 1..Len(v) /\ Len(q) + i \in 1..Len(u)
        BY <1>1, <1>2, <1>3, <1>4, <1>6
      <3> QED BY <1>1, <1>2, <1>6, <3>1
    <2>3. Len(w) \in Nat /\ Len(u) = Len(q) + Len(w)
      BY <1>1, <1>2, <1>3, <1>4, <1>6
    <2> QED BY <1>1, <1>2, <1>6, <2>1, <2>2, <2>3 DEF Joins
  <1> QED BY <1>3, <1>6, <1>7, <1>8 DEF TailEnd

LEMMA LongerTail ==
  ASSUME NEW s, NEW r, NEW p, NEW w, NEW v, NEW y, Joins(s, r, y), Joins(r, p, w),
         Len(y) = 1,
         v \in Seq(Alphabet), Len(v) = Len(w) + 1, \A i \in 1..Len(w) : v[i] = w[i],
         v[Len(w) + 1] = y[1]
  PROVE  Joins(s, p, v)
  <1>3. /\ s \in Seq(Alphabet) /\ r \in Seq(Alphabet)
        /\ Len(r) \in Nat /\ Len(s) = Len(r) + 1
        /\ \A i \in 1..Len(r) : s[i] = r[i]
        /\ s[Len(r) + 1] = y[1]
    <2>2. /\ s \in Seq(Alphabet) /\ r \in Seq(Alphabet)
          /\ Len(r) \in Nat /\ Len(s) = Len(r) + Len(y)
          /\ \A i \in 1..Len(r) : s[i] = r[i]
          /\ \A i \in 1..Len(y) : s[Len(r) + i] = y[i]
      BY DEF Joins
    <2> QED BY <2>2
  <1>4. /\ p \in Seq(Alphabet) /\ Len(p) \in Nat /\ Len(w) \in Nat /\ Len(r) = Len(p) + Len(w)
        /\ \A i \in 1..Len(p) : r[i] = p[i]
        /\ \A i \in 1..Len(w) : r[Len(p) + i] = w[i]
    BY DEF Joins
  <1>5. Len(v) \in Nat /\ Len(s) = Len(p) + Len(v)
    BY <1>3, <1>4
  <1>6. \A i \in 1..Len(p) : s[i] = p[i]
    BY <1>3, <1>4
  <1>7. \A i \in 1..Len(v) : s[Len(p) + i] = v[i]
    <2> TAKE i \in 1..Len(v)
    <2>1. CASE i <= Len(w)
      <3>1. i \in 1..Len(w) /\ Len(p) + i \in 1..Len(r)
        BY <1>4, <1>5, <2>1
      <3> QED BY <1>3, <1>4, <3>1
    <2>2. CASE i > Len(w)
      <3>1. Len(w) \in Nat /\ Len(p) \in Nat /\ Len(r) = Len(p) + Len(w) /\ i \in 1..(Len(w) + 1)
        BY <1>4
      <3>2. i = Len(w) + 1 /\ Len(p) + i = Len(r) + 1
        BY <2>2, <3>1
      <3> QED BY <1>3, <3>2
    <2> QED BY <1>4, <1>5, <2>1, <2>2
  <1> QED BY <1>3, <1>4, <1>5, <1>6, <1>7 DEF Joins

\* What a token of this user's may begin with.
Begins(v) == \E k \in DOMAIN Snapshot \cup DOMAIN Late : StartsAt(k, v, 1)

LEMMA BeginsShorter ==
  ASSUME NEW v \in Seq(Alphabet), NEW w \in Seq(Alphabet), Begins(v),
         Len(w) <= Len(v), \A i \in 1..Len(w) : w[i] = v[i]
  PROVE  Begins(w)
  <1>1. PICK k \in DOMAIN Snapshot \cup DOMAIN Late : StartsAt(k, v, 1)
    BY DEF Begins
  <1>2. k \in Seq(Alphabet)
    BY MappingAssumption
  <1>3. 1 + Len(v) - 1 <= Len(k) /\ \A n \in 1..Len(v) : k[1 + n - 1] = v[n]
    BY <1>1, <1>2, StartsAtPoint
  <1>4. 1 + Len(w) - 1 <= Len(k) /\ \A n \in 1..Len(w) : k[1 + n - 1] = w[n]
    BY <1>2, <1>3
  <1>5. StartsAt(k, w, 1)
    BY <1>2, <1>4, StartsAtPoint
  <1> QED BY <1>5 DEF Begins

\* The beginning of a token that only replacing has made.
NewTail(s, f) == /\ \A p, w : ~TailEnd(s, p, w)
                 /\ \E q, v : TailEnd(Replaced(s, f), q, v) /\ Begins(v)

\* It would have come with the last character, or with the last token.
LEMMA NewTailByCharacter ==
  ASSUME NEW s \in Seq(Alphabet), NEW f, Mapping(f), NEW r, NEW y, Joins(s, r, y),
         Len(y) = 1, NoCross(s, Len(r), f), ~NewTail(r, f)
  PROVE  ~NewTail(s, f)
  <1> SUFFICES ASSUME \A p, w : ~TailEnd(s, p, w),
                      NEW q, NEW v, TailEnd(Replaced(s, f), q, v), Begins(v)
               PROVE  FALSE
    BY DEF NewTail
  <1>1. PICK c : c = y[1]
    OBVIOUS
  <1>2. Len(y) = 1 /\ y[1] = c /\ y \in Seq(Alphabet) /\ Joins(s, r, y)
    BY <1>1 DEF Joins
  <1>3. r \in Seq(Alphabet) /\ Len(r) \in Nat /\ Len(s) = Len(r) + 1
    BY <1>2 DEF Joins
  <1>4. Replaced(y, f) = y
    <2>1. ASSUME NEW i \in 1..Len(y), NEW k \in TokensAt(y, f, i) PROVE FALSE
      <3>1. i \in Nat \ {0}
        BY <1>2
      <3>2. Len(k) \in Nat /\ Len(k) >= 5 /\ i + Len(k) - 1 <= Len(y)
        BY <1>2, <3>1, TokenAt
      <3> QED BY <1>2, <3>2
    <2>2. \A i \in 1..Len(y) : TokensAt(y, f, i) = {}
      BY <2>1
    <2> QED BY <1>2, <2>2, NoTokens
  <1>5. PICK t, u : t = Replaced(s, f) /\ u = Replaced(r, f)
    OBVIOUS
  <1>6. t = u \o y
    <2>1. Replaced(s, f) = Replaced(r, f) \o Replaced(y, f)
      BY ReplacedSplit
    <2> QED BY <1>4, <1>5, <2>1
  <1>7. u \in Seq(Alphabet)
    BY <1>3, <1>5, PiecesType
  <1>8. Joins(t, u, y)
    BY <1>2, <1>6, <1>7, JoinsConcat
  <1>9. TailEnd(t, q, v)
    BY <1>5
  <1>10. /\ t \in Seq(Alphabet) /\ Len(u) \in Nat /\ Len(t) = Len(u) + 1
         /\ t[Len(u) + 1] = c
    <2>1. /\ t \in Seq(Alphabet) /\ Len(u) \in Nat /\ Len(t) = Len(u) + Len(y)
          /\ \A i \in 1..Len(y) : t[Len(u) + i] = y[i]
      BY <1>8 DEF Joins
    <2> QED BY <1>2, <2>1
  <1>11. /\ q \in Seq(Alphabet) /\ v \in Seq(Alphabet) /\ IsTail(v)
         /\ Len(q) \in Nat /\ Len(v) \in Nat /\ Len(t) = Len(q) + Len(v)
         /\ \A i \in 1..Len(v) : t[Len(q) + i] = v[i]
    BY <1>9 DEF TailEnd, Joins
  <1>12. Len(v) > 0
    BY <1>11, TailChars
  <1>lens. /\ Len(u) \in Nat /\ Len(q) \in Nat /\ Len(v) \in Nat /\ Len(v) > 0
           /\ Len(q) + Len(v) = Len(u) + 1
    <2>1. Len(u) \in Nat /\ Len(t) = Len(u) + 1
      BY <1>10
    <2>2. Len(q) \in Nat /\ Len(v) \in Nat /\ Len(t) = Len(q) + Len(v)
      BY <1>11
    <2> QED BY <1>12, <2>1, <2>2
  <1>13. CASE Len(q) < Len(u)
    <2>1. PICK w : /\ TailEnd(u, q, w) /\ Len(w) = Len(u) - Len(q)
                   /\ \A i \in 1..Len(w) : w[i] = v[i]
      BY <1>8, <1>9, <1>13, CutTail
    <2>a. Begins(w)
      <3>1. w \in Seq(Alphabet) /\ Len(w) <= Len(v)
        BY <1>lens, <1>13, <2>1 DEF TailEnd, Joins
      <3> QED BY <1>11, <2>1, <3>1, BeginsShorter
    <2>2. PICK p0, w0 : TailEnd(r, p0, w0)
      BY <1>5, <2>1, <2>a DEF NewTail
    <2>3. TailEnd(u, Replaced(p0, f), w0)
      BY <1>5, <2>2, TailStays
    <2>4. w = w0
      BY <2>1, <2>3, TailEndUnique
    <2>5. Joins(r, p0, w)
      BY <2>2, <2>4 DEF TailEnd
    <2>6. Len(v) = Len(w) + 1
      <3>1. Len(w) = Len(u) - Len(q) /\ Len(u) + 1 = Len(q) + Len(v)
        BY <1>10, <1>11, <2>1
      <3>2. Len(u) \in Nat /\ Len(q) \in Nat /\ Len(v) \in Nat
        BY <1>10, <1>11
      <3> QED BY <3>1, <3>2
    <2>7. v[Len(w) + 1] = y[1]
      <3>1. Len(v) \in 1..Len(v) /\ Len(q) + Len(v) = Len(u) + 1
        BY <1>lens
      <3>2. t[Len(q) + Len(v)] = v[Len(v)]
        BY <1>11, <3>1
      <3> QED BY <1>2, <1>10, <2>6, <3>1, <3>2
    <2>8. Joins(s, p0, v)
      BY <1>2, <1>11, <2>1, <2>5, <2>6, <2>7, LongerTail
    <2> QED BY <1>11, <2>8 DEF TailEnd
  <1>14. CASE ~(Len(q) < Len(u))
    <2>1. Len(v) = 1 /\ Len(q) = Len(u)
      BY Zenon, <1>14, <1>lens, Lengths
    <2>2. v[1] = c
      <3>1. 1 \in 1..Len(v)
        BY <2>1
      <3> QED BY <1>10, <1>11, <2>1, <3>1
    <2>3. v = y
      <3>1. \A i \in 1..Len(v) : v[i] = y[i]
        BY <1>2, <2>1, <2>2
      <3> QED BY <1>2, <1>11, <2>1, <3>1, SeqEqual
    <2>4. TailEnd(s, r, y)
      BY <1>2, <1>11, <2>3 DEF TailEnd
    <2> QED BY <2>4
  <1> QED BY <1>13, <1>14

LEMMA NewTailByToken ==
  ASSUME NEW s \in Seq(Alphabet), NEW f, Mapping(f), Apart(s, f),
         NEW r, NEW k \in DOMAIN f, Joins(s, r, k), k \in TokensAt(s, f, Len(r) + 1),
         ~NewTail(r, f)
  PROVE  ~NewTail(s, f)
  <1> SUFFICES ASSUME \A p, w : ~TailEnd(s, p, w),
                      NEW q, NEW v, TailEnd(Replaced(s, f), q, v), Begins(v)
               PROVE  FALSE
    BY DEF NewTail
  <1>1. r \in Seq(Alphabet) /\ Len(r) \in Nat /\ Len(s) = Len(r) + Len(k)
    BY DEF Joins
  <1>2. k \in Seq(Alphabet) /\ IsPlaceholder(k) /\ f[k] \in Seq(Alphabet \ Brackets)
    BY DEF Mapping
  <1>3. Len(k) \in Nat /\ Len(k) >= 5 /\ k[1] = "["
    BY <1>2, PlaceholderChars
  <1>4. NoCross(s, Len(r), f)
    BY <1>3, BracketParts
  <1>5. PICK t, u, x : t = Replaced(s, f) /\ u = Replaced(r, f) /\ x = f[k]
    OBVIOUS
  <1>6. t = u \o x
    BY <1>4, <1>5, ReplacedSplit, OneToken
  <1>7. u \in Seq(Alphabet) /\ x \in Seq(Alphabet)
    BY <1>1, <1>2, <1>5, PiecesType, SeqMonotonic
  <1>8. Joins(t, u, x)
    BY <1>6, <1>7, JoinsConcat
  <1>9. TailEnd(t, q, v)
    BY <1>5
  <1>10. /\ t \in Seq(Alphabet) /\ Len(u) \in Nat /\ Len(x) \in Nat /\ Len(t) = Len(u) + Len(x)
         /\ \A i \in 1..Len(x) : t[Len(u) + i] = x[i]
    BY <1>8 DEF Joins
  <1>11. /\ q \in Seq(Alphabet) /\ v \in Seq(Alphabet) /\ IsTail(v)
         /\ Len(q) \in Nat /\ Len(v) \in Nat /\ Len(t) = Len(q) + Len(v)
         /\ \A i \in 1..Len(v) : t[Len(q) + i] = v[i]
    BY <1>9 DEF TailEnd, Joins
  <1>12. Len(v) > 0 /\ v[1] = "[" /\ \A i \in 2..Len(v) : v[i] \in WordChars
    BY <1>11, TailChars
  <1>13. Len(q) < Len(u)
    <2> SUFFICES ASSUME ~(Len(q) < Len(u)) PROVE FALSE
      OBVIOUS
    <2>1. PICK d : d = Len(q) + 1 - Len(u)
      OBVIOUS
    <2>2. d \in 1..Len(x) /\ Len(u) + d = Len(q) + 1 /\ 1 \in 1..Len(v)
      BY <1>10, <1>11, <1>12, <2>1
    <2>3. t[Len(q) + 1] = x[d] /\ t[Len(q) + 1] = v[1]
      BY <1>10, <1>11, <2>2
    <2>4. x[d] \in Alphabet \ Brackets
      BY <1>2, <1>5, <2>2, ElementOfSeq
    <2> QED BY <1>12, <2>3, <2>4, Chars
  <1>14. PICK w : /\ TailEnd(u, q, w) /\ Len(w) = Len(u) - Len(q)
                  /\ \A i \in 1..Len(w) : w[i] = v[i]
    BY <1>8, <1>9, <1>13, CutTail
  <1>a. Len(v) = Len(w) + Len(x) /\ Len(w) \in Nat /\ w \in Seq(Alphabet)
    BY <1>7, <1>10, <1>11, <1>13, <1>14 DEF TailEnd, Joins
  <1>b. Begins(w)
    <2>1. Len(w) <= Len(v)
      BY <1>7, <1>a
    <2> QED BY <1>11, <1>14, <1>a, <2>1, BeginsShorter
  <1>15. PICK p0, w0 : TailEnd(r, p0, w0)
    BY <1>5, <1>14, <1>b DEF NewTail
  <1>16. TailEnd(u, Replaced(p0, f), w0)
    BY <1>5, <1>15, TailStays
  <1>17. w = w0
    BY <1>14, <1>16, TailEndUnique
  <1>18. /\ p0 \in Seq(Alphabet) /\ w \in Seq(Alphabet) /\ IsTail(w)
         /\ Len(p0) \in Nat /\ Len(w) \in Nat /\ Len(r) = Len(p0) + Len(w)
         /\ \A i \in 1..Len(w) : r[Len(p0) + i] = w[i]
    BY <1>15, <1>17 DEF TailEnd, Joins
  <1>19. Len(w) > 0
    BY <1>18, TailChars
  <1>20. PICK i, j : i = Len(p0) + 1 /\ j = Len(r)
    OBVIOUS
  <1>21. SubSeq(s, i, j) = w
    <2>1. \A n \in 1..Len(r) : s[n] = r[n]
      BY DEF Joins
    <2>2. PICK z : z = SubSeq(s, i, j)
      OBVIOUS
    <2>3. z \in Seq(Alphabet) /\ Len(z) = Len(w) /\ \A n \in 1..Len(w) : z[n] = s[i + n - 1]
      BY <1>1, <1>3, <1>18, <1>19, <1>20, <2>2
    <2>4. \A n \in 1..Len(w) : z[n] = w[n]
      <3> TAKE n \in 1..Len(w)
      <3>1. i + n - 1 = Len(p0) + n /\ Len(p0) + n \in 1..Len(r)
        BY <1>18, <1>20
      <3> QED BY <1>18, <2>1, <2>3, <3>1
    <2>5. z = w
      BY <1>18, <2>3, <2>4, SeqEqual
    <2> QED BY <2>2, <2>5
  <1>22. i \in DOMAIN s /\ j \in i..(Len(s) - 1) /\ k \in TokensAt(s, f, j + 1)
    <2>1. DOMAIN s = 1..Len(s)
      OBVIOUS
    <2> QED BY <1>1, <1>3, <1>18, <1>19, <1>20, <2>1
  <1>23. ~Begins(w \o x)
    BY <1>5, <1>18, <1>21, <1>22 DEF Apart, Begins
  <1>24. v = w \o x
    <2>1. \A n \in 1..Len(x) : v[Len(w) + n] = x[n]
      <3> TAKE n \in 1..Len(x)
      <3>1. Len(w) + n \in 1..Len(v) /\ Len(q) + (Len(w) + n) = Len(u) + n
        BY <1>7, <1>10, <1>11, <1>13, <1>14, <1>a
      <3> QED BY <1>10, <1>11, <3>1
    <2>2. Joins(v, w, x)
      BY <1>7, <1>11, <1>14, <1>a, <2>1 DEF Joins
    <2> QED BY <2>2, ConcatJoins
  <1> QED BY <1>23, <1>24

LEMMA NewTailShorter ==
  ASSUME NEW s \in Seq(Alphabet), NEW f, Mapping(f), Apart(s, f),
         \A n \in 0..(Len(s) - 1) : ~NewTail(SubSeq(s, 1, n), f)
  PROVE  ~NewTail(s, f)
  <1>1. Len(s) \in Nat
    OBVIOUS
  <1>2. CASE Len(s) = 0
    <2> SUFFICES ASSUME NEW q, NEW v, TailEnd(Replaced(s, f), q, v) PROVE FALSE
      BY DEF NewTail
    <2>1. s = <<>>
      BY <1>2, EmptySeq
    <2>2. Replaced(s, f) = s
      BY <2>1, EmptyReplaced
    <2>3. v \in Seq(Alphabet) /\ IsTail(v) /\ Len(q) \in Nat /\ Len(v) \in Nat
          /\ Len(s) = Len(q) + Len(v)
      BY <2>2 DEF TailEnd, Joins
    <2>4. Len(v) > 0
      BY <2>3, TailChars
    <2> QED BY <1>2, <2>3, <2>4
  <1>3. CASE Len(s) > 0 /\ NoCross(s, Len(s) - 1, f)
    <2>1. PICK r, y : r = SubSeq(s, 1, Len(s) - 1) /\ y = SubSeq(s, Len(s) - 1 + 1, Len(s))
      OBVIOUS
    <2>2. Len(s) - 1 \in 0..Len(s) /\ Len(s) - 1 \in 0..(Len(s) - 1)
      BY <1>1, <1>3
    <2>3. Joins(s, r, y)
      BY <2>1, <2>2, CutJoins
    <2>4. Len(r) = Len(s) - 1
      BY <1>1, <2>1, <2>2
    <2>5. Len(y) = 1
      <3>1. Len(r) \in Nat /\ Len(y) \in Nat /\ Len(s) = Len(r) + Len(y)
        BY <2>3 DEF Joins
      <3>2. Len(s) \in Nat
        OBVIOUS
      <3> QED BY Zenon, <2>4, <3>1, <3>2, Lengths
    <2>6. ~NewTail(r, f)
      BY <2>1, <2>2
    <2> QED BY <1>3, <2>3, <2>4, <2>5, <2>6, NewTailByCharacter
  <1>4. CASE Len(s) > 0 /\ ~NoCross(s, Len(s) - 1, f)
    <2>0. PICK j \in 1..(Len(s) - 1) : \E k \in TokensAt(s, f, j) : ~(j + Len(k) - 1 <= Len(s) - 1)
      BY <1>4 DEF NoCross
    <2>1. PICK k \in TokensAt(s, f, j) : ~(j + Len(k) - 1 <= Len(s) - 1)
      BY <2>0
    <2>2. /\ k \in DOMAIN f /\ k \in Seq(Alphabet) /\ Len(k) \in Nat /\ Len(k) >= 5
          /\ j + Len(k) - 1 <= Len(s)
          /\ \A n \in 1..Len(k) : s[j + n - 1] = k[n]
      <3>1. j \in Nat \ {0}
        BY <1>1
      <3> QED BY <3>1, TokenAt
    <2>3. j \in Nat /\ Len(s) = (j - 1) + Len(k)
      <3>1. Len(k) \in Nat /\ j \in 1..(Len(s) - 1) /\ j + Len(k) - 1 <= Len(s)
        BY <2>2
      <3> QED BY <1>1, <2>1, <3>1
    <2>4. PICK r : r = SubSeq(s, 1, j - 1)
      OBVIOUS
    <2>5. j - 1 \in 0..(Len(s) - 1) /\ j - 1 \in 0..Len(s)
      BY <1>1
    <2>6. r \in Seq(Alphabet) /\ Len(r) = j - 1 /\ \A n \in 1..(j - 1) : r[n] = s[n]
      BY <1>1, <2>4, <2>5
    <2>7. Joins(s, r, k)
      <3>1. Len(r) \in Nat /\ Len(s) = Len(r) + Len(k)
        BY <2>3, <2>5, <2>6
      <3>2. \A n \in 1..Len(r) : s[n] = r[n]
        BY <2>6
      <3>3. \A n \in 1..Len(k) : s[Len(r) + n] = k[n]
        <4> TAKE n \in 1..Len(k)
        <4>1. Len(r) + n = j + n - 1
          BY <2>2, <2>3, <2>6
        <4> QED BY <2>2, <4>1
      <3> QED BY <2>2, <2>6, <3>1, <3>2, <3>3 DEF Joins
    <2>8. ~NewTail(r, f)
      BY <2>4, <2>5
    <2>9. k \in TokensAt(s, f, Len(r) + 1)
      <3>1. Len(r) + 1 = j
        BY <2>3, <2>6
      <3> QED BY <3>1
    <2> QED BY <2>2, <2>7, <2>8, <2>9, NewTailByToken
  <1> QED BY <1>1, <1>2, <1>3, <1>4

\* A beginning of a text whose tokens are apart has its tokens apart.
LEMMA ApartFront ==
  ASSUME NEW t, NEW s, NEW r, Joins(t, s, r), NEW f, Apart(t, f),
         \A k \in DOMAIN f : k \in Seq(Alphabet)
  PROVE  Apart(s, f)
  <1>1. /\ t \in Seq(Alphabet) /\ s \in Seq(Alphabet)
        /\ Len(s) \in Nat /\ Len(r) \in Nat /\ Len(t) = Len(s) + Len(r)
        /\ \A i \in 1..Len(s) : t[i] = s[i]
    BY DEF Joins
  <1>2. DOMAIN s = 1..Len(s) /\ DOMAIN t = 1..Len(t)
    BY <1>1
  <1> SUFFICES ASSUME NEW i \in DOMAIN s, NEW j \in i..(Len(s) - 1),
                      NEW k \in TokensAt(s, f, j + 1),
                      IsTail(SubSeq(s, i, j))
               PROVE  ~Begins(SubSeq(s, i, j) \o f[k])
    BY DEF Apart, Begins
  <1>3. i \in Nat \ {0} /\ j \in Nat \ {0} /\ i <= j /\ j < Len(s)
    BY <1>1, <1>2
  <1>4. k \in DOMAIN f /\ k \in Seq(Alphabet) /\ StartsAt(s, k, j + 1)
    BY DEF TokensAt
  <1>5. /\ j + 1 + Len(k) - 1 <= Len(s)
        /\ \A n \in 1..Len(k) : s[j + 1 + n - 1] = k[n]
    BY <1>1, <1>3, <1>4, StartsAtPoint
  <1>6. StartsAt(t, k, j + 1)
    <2>1. Len(k) \in Nat
      BY <1>4
    <2>2. j + 1 + Len(k) - 1 <= Len(t)
      BY <1>1, <1>3, <1>5, <2>1
    <2>3. \A n \in 1..Len(k) : t[j + 1 + n - 1] = k[n]
      <3> TAKE n \in 1..Len(k)
      <3>1. j + 1 + n - 1 \in 1..Len(s)
        BY <1>1, <1>3, <1>5, <2>1
      <3> QED BY <1>1, <1>5, <3>1
    <2>4. j + 1 \in Nat \ {0}
      BY <1>3
    <2> QED BY <1>1, <1>4, <2>2, <2>3, <2>4, StartsAtPoint
  <1>7. SubSeq(t, i, j) = SubSeq(s, i, j)
    <2>1. PICK x, y : x = SubSeq(t, i, j) /\ y = SubSeq(s, i, j)
      OBVIOUS
    <2>2. x \in Seq(Alphabet) /\ Len(x) = j - i + 1 /\ \A n \in 1..(j - i + 1) : x[n] = t[i + n - 1]
      BY <1>1, <1>3, <2>1
    <2>3. y \in Seq(Alphabet) /\ Len(y) = j - i + 1 /\ \A n \in 1..(j - i + 1) : y[n] = s[i + n - 1]
      BY <1>1, <1>3, <2>1
    <2>4. \A n \in 1..(j - i + 1) : x[n] = y[n]
      <3> TAKE n \in 1..(j - i + 1)
      <3>1. i + n - 1 \in 1..Len(s)
        BY <1>1, <1>3
      <3> QED BY <1>1, <2>2, <2>3, <3>1
    <2>5. x = y
      BY <2>2, <2>3, <2>4, SeqEqual
    <2> QED BY <2>1, <2>5
  <1>8. i \in DOMAIN t /\ j \in i..(Len(t) - 1) /\ k \in TokensAt(t, f, j + 1)
    BY <1>1, <1>2, <1>3, <1>4, <1>6 DEF TokensAt
  <1>9. IsTail(SubSeq(t, i, j))
    BY <1>7
  <1> QED BY <1>7, <1>8, <1>9 DEF Apart, Begins

LEMMA NoNewTail ==
  ASSUME NEW s \in Seq(Alphabet), NEW f, Mapping(f), Apart(s, f)
  PROVE  ~NewTail(s, f)
  <1> DEFINE S == {n \in 0..Len(s) : NewTail(SubSeq(s, 1, n), f)}
  <1>0. Len(s) \in Nat
    OBVIOUS
  <1>1. SUFFICES ASSUME NewTail(s, f) PROVE FALSE
    OBVIOUS
  <1>2. SubSeq(s, 1, Len(s)) = s
    BY SubSeqFull
  <1>3. Len(s) \in S
    <2>1. Len(s) \in 0..Len(s)
      BY <1>0
    <2>2. NewTail(SubSeq(s, 1, Len(s)), f)
      BY Zenon, <1>1, <1>2
    <2> QED BY Zenon, <2>1, <2>2
  <1>4. S \subseteq Nat
    BY <1>0
  <1>5. PICK n \in S : \A m \in S : n <= m
    BY <1>3, <1>4, Minimum
  <1>6. n \in 0..Len(s) /\ NewTail(SubSeq(s, 1, n), f)
    BY <1>5
  <1>7. PICK u : u = SubSeq(s, 1, n)
    OBVIOUS
  <1>8. u \in Seq(Alphabet) /\ Len(u) = n
    BY <1>0, <1>6, <1>7
  <1>9. Apart(u, f)
    <2>1. Joins(s, u, SubSeq(s, n + 1, Len(s)))
      BY <1>6, <1>7, CutJoins
    <2>2. \A k \in DOMAIN f : k \in Seq(Alphabet)
      BY DEF Mapping
    <2> QED BY <2>1, <2>2, ApartFront
  <1>10. ASSUME NEW m \in 0..(Len(u) - 1) PROVE ~NewTail(SubSeq(u, 1, m), f)
    <2>1. m \notin S
      BY <1>5, <1>6, <1>8
    <2>2. m \in 0..Len(s)
      BY <1>0, <1>6, <1>8
    <2>3. SubSeq(u, 1, m) = SubSeq(s, 1, m)
      <3>1. PICK x, y : x = SubSeq(u, 1, m) /\ y = SubSeq(s, 1, m)
        OBVIOUS
      <3>2. m \in 0..Len(u) /\ m \in 0..Len(s) /\ m <= n /\ n \in Nat
        BY <1>0, <1>6, <1>8, <2>2
      <3>3. x \in Seq(Alphabet) /\ Len(x) = m /\ \A i \in 1..m : x[i] = u[i]
        BY <1>8, <3>1, <3>2, FrontFacts
      <3>4. y \in Seq(Alphabet) /\ Len(y) = m /\ \A i \in 1..m : y[i] = s[i]
        BY <3>1, <3>2, FrontFacts
      <3>5. \A i \in 1..n : u[i] = s[i]
        BY <1>6, <1>7, FrontFacts
      <3>6. \A i \in 1..m : x[i] = y[i]
        BY <3>2, <3>3, <3>4, <3>5
      <3>7. x = y
        BY <3>3, <3>4, <3>6, SeqEqual
      <3> QED BY <3>1, <3>7
    <2>4. ~NewTail(SubSeq(s, 1, m), f)
      BY <2>1, <2>2
    <2> QED BY <2>3, <2>4
  <1> HIDE DEF S
  <1>11. ~NewTail(u, f)
    BY <1>8, <1>9, <1>10, NewTailShorter
  <1> QED BY <1>6, <1>7, <1>11

---------------------------------------------------------------------------
(* Texts in three parts. *)
LEMMA JoinsRight ==
  ASSUME NEW t, NEW s, NEW x, NEW p, NEW w, Joins(t, s, x), Joins(s, p, w)
  PROVE  Joins(t, p, w \o x) /\ Joins(w \o x, w, x)
  <1>1. p \in Seq(Alphabet) /\ w \in Seq(Alphabet) /\ x \in Seq(Alphabet)
    BY DEF Joins
  <1>2. PICK r : r = w \o x
    OBVIOUS
  <1>3. Joins(r, w, x)
    BY <1>1, <1>2, JoinsConcat
  <1>4. t = p \o r
    <2>1. t = s \o x /\ s = p \o w
      BY ConcatJoins
    <2>2. Regroups(p, w, x)
      BY <1>1, Assoc
    <2> QED BY <1>2, <2>1, <2>2 DEF Regroups
  <1>5. r \in Seq(Alphabet)
    BY <1>3 DEF Joins
  <1> QED BY <1>1, <1>2, <1>3, <1>4, <1>5, JoinsConcat

LEMMA JoinsLeft ==
  ASSUME NEW t, NEW p, NEW r, NEW a, NEW w, Joins(t, p, r), Joins(r, a, w)
  PROVE  Joins(t, p \o a, w) /\ Joins(p \o a, p, a)
  <1>1. p \in Seq(Alphabet) /\ a \in Seq(Alphabet) /\ w \in Seq(Alphabet)
    BY DEF Joins
  <1>2. PICK q : q = p \o a
    OBVIOUS
  <1>3. Joins(q, p, a)
    BY <1>1, <1>2, JoinsConcat
  <1>4. t = q \o w
    <2>1. t = p \o r /\ r = a \o w
      BY ConcatJoins
    <2>2. Regroups(p, a, w)
      BY <1>1, Assoc
    <2> QED BY <1>2, <2>1, <2>2 DEF Regroups
  <1>5. q \in Seq(Alphabet)
    BY <1>3 DEF Joins
  <1> QED BY <1>1, <1>2, <1>3, <1>4, <1>5, JoinsConcat

LEMMA JoinsEmpty ==
  ASSUME NEW s \in Seq(Alphabet)
  PROVE  Joins(s, s, <<>>)
  <1>1. s \o <<>> = s /\ <<>> \in Seq(Alphabet)
    BY ConcatEmptySeq, EmptySeq
  <1> QED BY Zenon, <1>1, JoinsConcat

LEMMA HeldParts ==
  ASSUME NEW s \in Seq(Alphabet)
  PROVE  Joins(s, Ready(s), Held(s))
  BY Zenon, HeldCases, JoinsEmpty DEF TailEnd

---------------------------------------------------------------------------
(* More text arrives: t is s with x behind it, and r what was held of s and x. *)
LEMMA HeldNoCross ==
  ASSUME NEW t, NEW s, NEW x, Joins(t, s, x), NEW r, Joins(t, Ready(s), r), Joins(r, Held(s), x),
         NEW f, Mapping(f)
  PROVE  NoCross(t, Len(Ready(s)), f)
  <1>1. s \in Seq(Alphabet)
    BY DEF Joins
  <1>2. CASE TailEnd(s, Ready(s), Held(s))
    <2>1. Held(s) \in Seq(Alphabet) /\ IsTail(Held(s))
      BY <1>2 DEF TailEnd, Joins
    <2>2. Len(Held(s)) \in Nat \ {0} /\ Held(s)[1] = "["
      BY <2>1, TailChars
    <2>3. Len(r) > 0 /\ r[1] = "["
      <3>1. 1 \in 1..Len(Held(s))
        BY <2>2
      <3>2. r[1] = Held(s)[1]
        BY <3>1 DEF Joins
      <3>3. Len(x) \in Nat /\ Len(r) = Len(Held(s)) + Len(x)
        BY DEF Joins
      <3> QED BY <2>2, <3>2, <3>3
    <2> QED BY <2>3, BracketParts
  <1>3. CASE (\A p, w : ~TailEnd(s, p, w)) /\ Ready(s) = s
    <2> SUFFICES ASSUME NEW i \in 1..Len(s),
                        NEW k \in TokensAt(t, f, i), ~(i + Len(k) - 1 <= Len(s))
                 PROVE  FALSE
      BY <1>3 DEF NoCross
    <2>1. /\ t \in Seq(Alphabet) /\ Len(s) \in Nat /\ \A n \in 1..Len(s) : t[n] = s[n]
      BY DEF Joins
    <2>2. i \in Nat \ {0} /\ i <= Len(s)
      BY <2>1
    <2>3. /\ k \in Seq(Alphabet) /\ IsPlaceholder(k) /\ Len(k) \in Nat /\ Len(k) >= 5
          /\ \A n \in 1..Len(k) : t[i + n - 1] = k[n]
      BY <2>1, <2>2, TokenAt
    <2>4. PICK w : w = SubSeq(s, i - 1 + 1, Len(s))
      OBVIOUS
    <2>5. i - 1 \in 0..Len(s)
      BY <2>1, <2>2
    <2>6. Joins(s, SubSeq(s, 1, i - 1), w)
      BY <1>1, <2>4, <2>5, CutJoins
    <2>7. PICK p : p = SubSeq(s, 1, i - 1)
      OBVIOUS
    <2>8. Len(p) = i - 1
      BY <1>1, <2>5, <2>7, FrontFacts
    <2>9. /\ w \in Seq(Alphabet) /\ Len(w) \in Nat /\ Len(s) = Len(p) + Len(w)
          /\ \A n \in 1..Len(w) : s[Len(p) + n] = w[n]
      BY <2>6, <2>7 DEF Joins
    <2>10. Len(w) \in 1..(Len(k) - 1)
      BY <2>2, <2>3, <2>8, <2>9
    <2>11. Agree(w, k, Len(w))
      <3>1. ASSUME NEW n \in 1..Len(w) PROVE w[n] = k[n]
        <4>1. n \in 1..Len(k) /\ i + n - 1 \in 1..Len(s) /\ i + n - 1 = Len(p) + n
          BY <2>2, <2>3, <2>8, <2>9, <2>10
        <4> QED BY <2>1, <2>3, <2>9, <4>1
      <3> QED BY <3>1 DEF Agree
    <2>12. IsTail(w)
      BY <2>3, <2>9, <2>10, <2>11, PrefixOfPlaceholder
    <2> QED BY <1>3, <2>6, <2>12 DEF TailEnd
  <1> QED BY <1>1, <1>2, <1>3, HeldCases

---------------------------------------------------------------------------
LEMMA HeldJoins ==
  ASSUME NEW t, NEW s, NEW x, Joins(t, s, x), NEW r, Joins(t, Ready(s), r), Joins(r, Held(s), x)
  PROVE  /\ Held(t) = Held(r)
         /\ Joins(t, Ready(s) \o Ready(r), Held(r))
         /\ Ready(t) = Ready(s) \o Ready(r)
         /\ Joins(Ready(t), Ready(s), Ready(r))
  <1>1. s \in Seq(Alphabet) /\ t \in Seq(Alphabet) /\ r \in Seq(Alphabet)
    BY DEF Joins
  <1>2. Joins(r, Ready(r), Held(r))
    BY <1>1, HeldParts
  <1>3. PICK p : p = Ready(s) \o Ready(r)
    OBVIOUS
  <1>4. Joins(t, p, Held(r)) /\ Joins(p, Ready(s), Ready(r))
    BY <1>2, <1>3, JoinsLeft
  <1>5. Held(t) = Held(r) /\ Ready(t) = p
    <2>1. CASE TailEnd(r, Ready(r), Held(r))
      <3>1. TailEnd(t, p, Held(r))
        BY <1>4, <2>1 DEF TailEnd
      <3>2. TailEnd(t, Ready(t), Held(t))
        BY <1>1, <3>1, HeldCases
      <3> QED BY <3>1, <3>2, TailEndUnique
    <2>2. CASE (\A q, w : ~TailEnd(r, q, w)) /\ Ready(r) = r /\ Held(r) = <<>>
      <3>1. ASSUME NEW q, NEW v, TailEnd(t, q, v) PROVE FALSE
        <4>1. PICK u : u = Ready(s)
          OBVIOUS
        <4>2. /\ Len(u) \in Nat /\ Len(r) \in Nat /\ Len(t) = Len(u) + Len(r)
              /\ \A i \in 1..Len(u) : t[i] = u[i]
              /\ \A i \in 1..Len(r) : t[Len(u) + i] = r[i]
          BY <4>1 DEF Joins
        <4>3. /\ q \in Seq(Alphabet) /\ v \in Seq(Alphabet) /\ IsTail(v)
              /\ Len(q) \in Nat /\ Len(v) \in Nat /\ Len(t) = Len(q) + Len(v)
              /\ \A i \in 1..Len(v) : t[Len(q) + i] = v[i]
          BY <3>1 DEF TailEnd, Joins
        <4>4. Len(v) > 0 /\ v[1] = "[" /\ \A i \in 2..Len(v) : v[i] \in WordChars
          BY <4>3, TailChars
        <4>5. CASE Len(q) < Len(u)
          <5>1. PICK w : TailEnd(u, q, w)
            BY <3>1, <4>1, <4>5, CutTail
          <5>2. CASE TailEnd(s, Ready(s), Held(s))
            <6>1. Held(s) \in Seq(Alphabet) /\ IsTail(Held(s))
              BY <5>2 DEF TailEnd, Joins
            <6>2. Len(Held(s)) \in Nat \ {0} /\ Held(s)[1] = "["
              BY <6>1, TailChars
            <6>3. Len(r) > 0 /\ r[1] = "["
              <7>1. 1 \in 1..Len(Held(s))
                BY <6>2
              <7>2. r[1] = Held(s)[1]
                BY <7>1 DEF Joins
              <7>3. Len(x) \in Nat /\ Len(r) = Len(Held(s)) + Len(x)
                BY DEF Joins
              <7> QED BY <6>2, <7>2, <7>3
            <6>4. PICK d : d = Len(u) + 1 - Len(q)
              OBVIOUS
            <6>5. d \in 2..Len(v) /\ d \in 1..Len(v) /\ Len(q) + d = Len(u) + 1 /\ 1 \in 1..Len(r)
              BY <4>2, <4>3, <4>5, <6>3, <6>4
            <6>6. v[d] = "["
              BY <4>2, <4>3, <6>3, <6>5
            <6> QED BY <4>4, <6>5, <6>6, Chars
          <5>3. CASE (\A a, w0 : ~TailEnd(s, a, w0)) /\ Ready(s) = s
            BY <4>1, <5>1, <5>3
          <5> QED BY <1>1, <5>2, <5>3, HeldCases
        <4>6. CASE ~(Len(q) < Len(u))
          <5>1. PICK d : d = Len(q) - Len(u)
            OBVIOUS
          <5>2. d \in 0..Len(r) /\ Len(v) = Len(r) - d /\ Len(q) = Len(u) + d
            <6>1. Len(u) \in Nat /\ Len(r) \in Nat /\ Len(t) = Len(u) + Len(r)
              BY <4>2
            <6>2. Len(q) \in Nat /\ Len(v) \in Nat /\ Len(v) > 0 /\ Len(t) = Len(q) + Len(v)
              BY <4>3, <4>4
            <6> QED BY <4>6, <5>1, <6>1, <6>2
          <5>3. PICK a, w : a = SubSeq(r, 1, d) /\ w = SubSeq(r, d + 1, Len(r))
            OBVIOUS
          <5>4. Joins(r, a, w)
            BY <1>1, <5>2, <5>3, CutJoins
          <5>5. Len(a) = d
            BY <1>1, <5>2, <5>3, FrontFacts
          <5>6. /\ w \in Seq(Alphabet) /\ Len(w) \in Nat /\ Len(r) = Len(a) + Len(w)
                /\ \A i \in 1..Len(w) : r[Len(a) + i] = w[i]
            BY <5>4 DEF Joins
          <5>7. Len(w) = Len(v)
            BY <4>2, <5>2, <5>5, <5>6
          <5>8. \A i \in 1..Len(w) : w[i] = v[i]
            <6> TAKE i \in 1..Len(w)
            <6>1. d + i \in 1..Len(r) /\ Len(u) + (d + i) = Len(q) + i
              BY <4>2, <5>2, <5>5, <5>6
            <6> QED BY <4>2, <4>3, <5>5, <5>6, <5>7, <6>1
          <5>9. w = v
            BY <4>3, <5>6, <5>7, <5>8, SeqEqual
          <5> QED BY <2>2, <4>3, <5>4, <5>9 DEF TailEnd
        <4> QED BY <4>5, <4>6
      <3>2. Ready(t) = t /\ Held(t) = <<>>
        BY <1>1, <3>1, HeldCases
      <3>3. p = t
        <4>1. t = p \o <<>> /\ p \in Seq(Alphabet)
          BY <1>4, <2>2, ConcatJoins DEF Joins
        <4> QED BY <4>1, ConcatEmptySeq
      <3> QED BY <2>2, <3>2, <3>3
    <2> QED BY <1>1, <2>1, <2>2, HeldCases
  <1> QED BY <1>3, <1>4, <1>5

---------------------------------------------------------------------------
(* The placeholders of a text. *)
LEMMA SliceOf ==
  ASSUME NEW s, NEW k
  PROVE  k \in Slice(s) <=> \E i \in DOMAIN s : \E j \in DOMAIN s : k = SubSeq(s, i, j)
  BY DEF Slice

LEMMA PlaceholderAt ==
  ASSUME NEW s \in Seq(Alphabet), NEW k
  PROVE  k \in Placeholders(s) <=>
           k \in Seq(Alphabet) /\ IsPlaceholder(k) /\ \E i \in 1..Len(s) : StartsAt(s, k, i)
  <1>0. Len(s) \in Nat /\ DOMAIN s = 1..Len(s)
    OBVIOUS
  <1>1. ASSUME k \in Placeholders(s)
        PROVE  k \in Seq(Alphabet) /\ IsPlaceholder(k) /\ \E i \in 1..Len(s) : StartsAt(s, k, i)
    <2>0. k \in Slice(s)
      BY Zenon, <1>1 DEF Placeholders
    <2>1. PICK i \in DOMAIN s : \E j \in DOMAIN s : k = SubSeq(s, i, j)
      BY Zenon, <2>0, SliceOf
    <2>2. PICK j \in DOMAIN s : k = SubSeq(s, i, j)
      BY Zenon, <2>1
    <2>3. IsPlaceholder(k)
      BY <1>1 DEF Placeholders
    <2>4. k \in Seq(Alphabet)
      BY <1>0, <2>2
    <2>5. Len(k) > 0
      BY <2>3, <2>4, PlaceholderChars
    <2>6. i <= j /\ Len(k) = j - i + 1
      BY <1>0, <2>2, <2>5
    <2>7. i + Len(k) - 1 = j
      BY <1>0, <2>6
    <2>8. StartsAt(s, k, i)
      <3>1. j <= Len(s)
        BY <1>0
      <3> QED BY Zenon, <2>2, <2>7, <3>1 DEF StartsAt
    <2>9. i \in 1..Len(s)
      BY <1>0
    <2> QED BY Zenon, <2>3, <2>4, <2>8, <2>9
  <1>2. ASSUME k \in Seq(Alphabet), IsPlaceholder(k), NEW i \in 1..Len(s), StartsAt(s, k, i)
        PROVE  k \in Placeholders(s)
    <2>1. Len(k) \in Nat /\ Len(k) >= 5
      BY <1>2, PlaceholderChars
    <2>2. i + Len(k) - 1 <= Len(s) /\ SubSeq(s, i, i + Len(k) - 1) = k
      BY Zenon, <1>2 DEF StartsAt
    <2>3. i + Len(k) - 1 \in 1..Len(s)
      BY <1>0, <2>1, <2>2
    <2>4. k \in Slice(s)
      <3>1. i \in DOMAIN s /\ i + Len(k) - 1 \in DOMAIN s
        BY <1>0, <2>3
      <3> QED BY Zenon, <2>2, <3>1, SliceOf
    <2> QED BY <1>2, <2>4 DEF Placeholders
  <1> QED BY <1>1, <1>2

\* The placeholders of a text with more behind it: those of the text and those
\* of what was held with what arrives.
LEMMA PlaceholdersJoin ==
  ASSUME NEW t, NEW p, NEW r, Joins(t, p, r),
         \A f : Mapping(f) => NoCross(t, Len(p), f)
  PROVE  Placeholders(t) \subseteq Placeholders(p) \cup Placeholders(r)
  <1> SUFFICES ASSUME NEW k, k \in Placeholders(t), k \notin Placeholders(p)
               PROVE  k \in Placeholders(r)
    OBVIOUS
  <1>1. /\ t \in Seq(Alphabet) /\ p \in Seq(Alphabet) /\ r \in Seq(Alphabet)
        /\ Len(p) \in Nat /\ Len(r) \in Nat /\ Len(t) = Len(p) + Len(r)
        /\ \A i \in 1..Len(p) : t[i] = p[i]
        /\ \A i \in 1..Len(r) : t[Len(p) + i] = r[i]
    BY DEF Joins
  <1>2. k \in Seq(Alphabet) /\ IsPlaceholder(k) /\ \E i \in 1..Len(t) : StartsAt(t, k, i)
    BY <1>1, PlaceholderAt
  <1>3. PICK i \in 1..Len(t) : StartsAt(t, k, i)
    BY <1>2
  <1>4. i \in Nat \ {0} /\ i <= Len(t)
    BY <1>1
  <1>5. /\ Len(k) \in Nat /\ Len(k) >= 5 /\ i + Len(k) - 1 <= Len(t)
        /\ \A n \in 1..Len(k) : t[i + n - 1] = k[n]
    BY <1>1, <1>2, <1>3, <1>4, PlaceholderChars, StartsAtPoint
  <1>6. CASE i <= Len(p)
    <2>1. PICK f : f = [x \in {k} |-> <<>>]
      OBVIOUS
    <2>2. Mapping(f) /\ DOMAIN f = {k}
      <3>1. <<>> \in Seq(Alphabet \ Brackets)
        BY EmptySeq
      <3> QED BY Zenon, <1>2, <2>1, <3>1 DEF Mapping
    <2>3. k \in TokensAt(t, f, i)
      BY Zenon, <1>3, <2>2 DEF TokensAt
    <2>4. i \in 1..Len(p)
      BY <1>1, <1>4, <1>6
    <2>5. i + Len(k) - 1 <= Len(p)
      BY Zenon, <2>2, <2>3, <2>4 DEF NoCross
    <2>6. \A n \in 1..Len(k) : p[i + n - 1] = k[n]
      <3> TAKE n \in 1..Len(k)
      <3>1. i + n - 1 \in 1..Len(p)
        BY <1>1, <1>4, <1>5, <2>5
      <3> QED BY <1>1, <1>5, <3>1
    <2>7. StartsAt(p, k, i)
      BY <1>1, <1>2, <1>4, <2>5, <2>6, StartsAtPoint
    <2> QED BY Zenon, <1>1, <1>2, <2>4, <2>7, PlaceholderAt
  <1>7. CASE ~(i <= Len(p))
    <2>1. PICK j : j = i - Len(p)
      OBVIOUS
    <2>2. j \in 1..Len(r) /\ j \in Nat \ {0} /\ i = Len(p) + j
      BY <1>1, <1>4, <1>7, <2>1
    <2>3. \A n \in 1..Len(k) : r[j + n - 1] = k[n]
      <3> TAKE n \in 1..Len(k)
      <3>1. j + n - 1 \in 1..Len(r) /\ i + n - 1 = Len(p) + (j + n - 1)
        BY <1>1, <1>5, <2>2
      <3> QED BY <1>1, <1>5, <3>1
    <2>4. j + Len(k) - 1 <= Len(r)
      BY <1>1, <1>5, <2>2
    <2>5. StartsAt(r, k, j)
      BY <1>1, <1>2, <2>2, <2>3, <2>4, StartsAtPoint
    <2> QED BY Zenon, <1>1, <1>2, <2>2, <2>5, PlaceholderAt
  <1> QED BY <1>6, <1>7

\* A part of a text has only placeholders of the text.
LEMMA PlaceholdersPart ==
  ASSUME NEW t, NEW p, NEW r, Joins(t, p, r)
  PROVE  Placeholders(p) \subseteq Placeholders(t) /\ Placeholders(r) \subseteq Placeholders(t)
  <1>1. /\ t \in Seq(Alphabet) /\ p \in Seq(Alphabet) /\ r \in Seq(Alphabet)
        /\ Len(p) \in Nat /\ Len(r) \in Nat /\ Len(t) = Len(p) + Len(r)
        /\ \A i \in 1..Len(p) : t[i] = p[i]
        /\ \A i \in 1..Len(r) : t[Len(p) + i] = r[i]
    BY DEF Joins
  <1>2. ASSUME NEW k, k \in Placeholders(p) PROVE k \in Placeholders(t)
    <2>1. k \in Seq(Alphabet) /\ IsPlaceholder(k) /\ \E i \in 1..Len(p) : StartsAt(p, k, i)
      BY <1>1, <1>2, PlaceholderAt
    <2>2. PICK i \in 1..Len(p) : StartsAt(p, k, i)
      BY <2>1
    <2>3. i \in Nat \ {0} /\ i <= Len(p) /\ i \in 1..Len(t) /\ Len(k) \in Nat
      BY <1>1, <2>1
    <2>4. i + Len(k) - 1 <= Len(p) /\ \A n \in 1..Len(k) : p[i + n - 1] = k[n]
      BY <1>1, <2>1, <2>2, <2>3, StartsAtPoint
    <2>5. \A n \in 1..Len(k) : t[i + n - 1] = k[n]
      <3> TAKE n \in 1..Len(k)
      <3>1. i + n - 1 \in 1..Len(p)
        BY <1>1, <2>3, <2>4
      <3> QED BY <1>1, <2>4, <3>1
    <2>6. i + Len(k) - 1 <= Len(t)
      BY <1>1, <2>3, <2>4
    <2>7. StartsAt(t, k, i)
      BY <1>1, <2>1, <2>3, <2>5, <2>6, StartsAtPoint
    <2> QED BY Zenon, <1>1, <2>1, <2>3, <2>7, PlaceholderAt
  <1>3. ASSUME NEW k, k \in Placeholders(r) PROVE k \in Placeholders(t)
    <2>1. k \in Seq(Alphabet) /\ IsPlaceholder(k) /\ \E i \in 1..Len(r) : StartsAt(r, k, i)
      BY <1>1, <1>3, PlaceholderAt
    <2>2. PICK i \in 1..Len(r) : StartsAt(r, k, i)
      BY <2>1
    <2>3. i \in Nat \ {0} /\ i <= Len(r) /\ Len(k) \in Nat
      BY <1>1, <2>1
    <2>4. i + Len(k) - 1 <= Len(r) /\ \A n \in 1..Len(k) : r[i + n - 1] = k[n]
      BY <1>1, <2>1, <2>2, <2>3, StartsAtPoint
    <2>5. PICK j : j = Len(p) + i
      OBVIOUS
    <2>6. j \in 1..Len(t) /\ j \in Nat \ {0}
      BY <1>1, <2>3, <2>5
    <2>7. \A n \in 1..Len(k) : t[j + n - 1] = k[n]
      <3> TAKE n \in 1..Len(k)
      <3>1. i + n - 1 \in 1..Len(r) /\ j + n - 1 = Len(p) + (i + n - 1)
        BY <1>1, <2>3, <2>4, <2>5
      <3> QED BY <1>1, <2>4, <3>1
    <2>8. j + Len(k) - 1 <= Len(t)
      BY <1>1, <2>3, <2>4, <2>5
    <2>9. StartsAt(t, k, j)
      BY <1>1, <2>1, <2>6, <2>7, <2>8, StartsAtPoint
    <2> QED BY Zenon, <1>1, <2>1, <2>6, <2>9, PlaceholderAt
  <1> QED BY <1>2, <1>3

---------------------------------------------------------------------------
\* What has been shown of a text whose tokens f replaces, and what is held of
\* it: the tail of the text if it has one.
Split(s, f, shown, held) ==
    /\ Joins(Replaced(s, f), shown, held)
    /\ held = <<>> \/ IsTail(held)
    /\ \A p, w : TailEnd(s, p, w) => held = w

\* What is held is not replaced, and no placeholder stands in it.
LEMMA HeldAsIs ==
  ASSUME NEW w \in Seq(Alphabet), w = <<>> \/ IsTail(w), NEW f, Mapping(f)
  PROVE  Replaced(w, f) = w /\ Placeholders(w) = {}
  <1>1. Replaced(w, f) = w
    BY TailReplaced, EmptyReplaced
  <1>2. ASSUME NEW k \in Placeholders(w) PROVE FALSE
    <2>1. k \in Seq(Alphabet) /\ IsPlaceholder(k) /\ \E i \in 1..Len(w) : StartsAt(w, k, i)
      BY <1>2, PlaceholderAt
    <2>2. PICK i \in 1..Len(w) : StartsAt(w, k, i)
      BY <2>1
    <2>3. PICK g : g = [x \in {k} |-> <<>>]
      OBVIOUS
    <2>4. Mapping(g) /\ k \in TokensAt(w, g, i)
      <3>1. <<>> \in Seq(Alphabet \ Brackets) /\ DOMAIN g = {k} /\ g[k] = <<>>
        BY Zenon, <2>3, EmptySeq
      <3> QED BY Zenon, <2>1, <2>2, <3>1 DEF Mapping, TokensAt
    <2>5. IsTail(w)
      <3>1. Len(w) > 0
        OBVIOUS
      <3>2. w # <<>>
        BY <3>1
      <3> QED BY <3>2
    <2> QED BY <2>4, <2>5, TailReplaced
  <1> QED BY <1>1, <1>2

\* More arrives: t is s with x behind it, and r what was held of s with x behind
\* it.  The user's tokens are those of f and g; g knows all that f does, and what
\* it knows beyond stands nowhere in s.
Feeds(t, s, x, r, f, g, shown, held) ==
    /\ Joins(t, s, x) /\ r = held \o x
    /\ Split(s, f, shown, held)
    /\ Mapping(f) /\ Mapping(g) /\ Apart(s, f)
    /\ DOMAIN f \subseteq DOMAIN g
    /\ \A k \in DOMAIN f : g[k] = f[k]
    /\ DOMAIN g \subseteq DOMAIN Snapshot \cup DOMAIN Late
    /\ \A k \in DOMAIN g \ DOMAIN f : k \notin Placeholders(s)

\* Then replacing in r does to the text what replacing in the whole of it would.
Continues(t, s, r, g, shown) ==
    /\ r \in Seq(Alphabet)
    /\ Joins(Replaced(t, g), shown, Replaced(r, g))
    /\ Placeholders(t) \subseteq Placeholders(s) \cup Placeholders(r)
    /\ \A p, w : TailEnd(t, p, w) => \E q : TailEnd(r, q, w)

\* A mapping that knows more of which nothing stands in a text.
LEMMA SameReplaced ==
  ASSUME NEW t, NEW p, NEW r, Joins(t, p, r), NEW f, NEW g, Mapping(g),
         DOMAIN f \subseteq DOMAIN g, \A k \in DOMAIN f : g[k] = f[k],
         \A k \in DOMAIN g \ DOMAIN f : k \notin Placeholders(t)
  PROVE  Replaced(p, g) = Replaced(p, f)
  <1>1. p \in Seq(Alphabet)
    BY DEF Joins
  <1>2. ASSUME NEW i \in 1..Len(p), NEW k \in DOMAIN g, StartsAt(p, k, i)
        PROVE  k \in DOMAIN f
    <2>1. k \in Seq(Alphabet) /\ IsPlaceholder(k)
      BY DEF Mapping
    <2>2. k \in Placeholders(p)
      BY <1>1, <1>2, <2>1, PlaceholderAt
    <2>3. k \in Placeholders(t)
      BY <2>2, PlaceholdersPart
    <2> QED BY <2>3
  <1> QED BY <1>1, <1>2, MoreTokens

\* The tail of t is one of what follows what s has ready.
LEMMA TailOfRest ==
  ASSUME NEW t, NEW s, NEW x, Joins(t, s, x), NEW r, Joins(t, Ready(s), r), Joins(r, Held(s), x),
         NEW p, NEW w, TailEnd(t, p, w)
  PROVE  \E q : TailEnd(r, q, w)
  <1>1. t \in Seq(Alphabet) /\ r \in Seq(Alphabet)
    BY DEF Joins
  <1>2. TailEnd(t, Ready(t), Held(t))
    BY <1>1, HeldCases
  <1>3. w = Held(t) /\ Held(t) = Held(r)
    BY <1>2, TailEndUnique, HeldJoins
  <1>4. TailEnd(r, Ready(r), Held(r))
    <2>1. CASE Held(r) = <<>>
      <3>1. w \in Seq(Alphabet) /\ IsTail(w)
        BY DEF TailEnd, Joins
      <3>2. Len(w) > 0
        BY <3>1, TailChars
      <3>3. Len(w) = 0
        BY Zenon, <1>3, <2>1, EmptySeq
      <3> QED BY <3>2, <3>3
    <2>2. CASE Held(r) # <<>>
      BY <1>1, <2>2, HeldCases
    <2> QED BY <2>1, <2>2
  <1> QED BY <1>3, <1>4

\* Where s ends with a tail, just that is held.
LEMMA FeedTail ==
  ASSUME NEW t, NEW s, NEW x, NEW r, NEW f, NEW g, NEW shown, NEW held,
         Feeds(t, s, x, r, f, g, shown, held), TailEnd(s, Ready(s), Held(s))
  PROVE  Continues(t, s, r, g, shown)
  <1>a. Joins(t, s, x) /\ r = held \o x
    BY DEF Feeds
  <1>b. Mapping(f) /\ Mapping(g) /\ DOMAIN f \subseteq DOMAIN g /\ \A k \in DOMAIN f : g[k] = f[k]
    BY Zenon DEF Feeds
  <1>c. \A k \in DOMAIN g \ DOMAIN f : k \notin Placeholders(s)
    BY Zenon DEF Feeds
  <1>1. held = Held(s) /\ TailEnd(Replaced(s, f), shown, held)
    <2>1. Split(s, f, shown, held)
      BY DEF Feeds
    <2>2. held = Held(s)
      BY <2>1 DEF Split
    <2>3. IsTail(held)
      BY <2>2 DEF TailEnd
    <2> QED BY <2>1, <2>2, <2>3 DEF Split, TailEnd
  <1>2. shown = Replaced(Ready(s), f)
    <2>1. TailEnd(Replaced(s, f), Replaced(Ready(s), f), Held(s))
      BY <1>b, TailStays
    <2> QED BY <1>1, <2>1, TailEndUnique
  <1>3. Joins(s, Ready(s), Held(s))
    BY DEF TailEnd
  <1>4. Joins(t, Ready(s), r) /\ Joins(r, Held(s), x)
    BY <1>a, <1>1, <1>3, JoinsRight
  <1>5. \A h : Mapping(h) => NoCross(t, Len(Ready(s)), h)
    BY <1>a, <1>4, HeldNoCross
  <1>6. Replaced(t, g) = shown \o Replaced(r, g)
    <2>1. Replaced(t, g) = Replaced(Ready(s), g) \o Replaced(r, g)
      BY <1>b, <1>4, <1>5, ReplacedSplit
    <2>2. Replaced(Ready(s), g) = Replaced(Ready(s), f)
      BY <1>b, <1>c, <1>3, SameReplaced
    <2> QED BY <1>2, <2>1, <2>2
  <1>7. r \in Seq(Alphabet) /\ shown \in Seq(Alphabet)
    BY <1>1, <1>4 DEF Joins, TailEnd
  <1>8. Joins(Replaced(t, g), shown, Replaced(r, g))
    <2>1. Replaced(r, g) \in Seq(Alphabet)
      BY <1>b, <1>7, PiecesType
    <2> QED BY <1>6, <1>7, <2>1, JoinsConcat
  <1>9. Placeholders(t) \subseteq Placeholders(s) \cup Placeholders(r)
    <2>1. Placeholders(t) \subseteq Placeholders(Ready(s)) \cup Placeholders(r)
      BY <1>4, <1>5, PlaceholdersJoin
    <2>2. Placeholders(Ready(s)) \subseteq Placeholders(s)
      BY <1>3, PlaceholdersPart
    <2> QED BY <2>1, <2>2
  <1>10. ASSUME NEW p, NEW w, TailEnd(t, p, w) PROVE \E q : TailEnd(r, q, w)
    BY <1>a, <1>4, <1>10, TailOfRest
  <1> QED BY <1>7, <1>8, <1>9, <1>10 DEF Continues

\* No token begins with what is held and ends in what follows it, unless the
\* user has a token that begins so.
LEMMA NoneBegins ==
  ASSUME NEW r, NEW w, NEW x, Joins(r, w, x), IsTail(w), ~Begins(w),
         NEW g, Mapping(g), DOMAIN g \subseteq DOMAIN Snapshot \cup DOMAIN Late
  PROVE  NoCross(r, Len(w), g)
  <1>1. /\ r \in Seq(Alphabet) /\ w \in Seq(Alphabet) /\ Len(w) \in Nat /\ Len(r) \in Nat
        /\ \A i \in 1..Len(w) : r[i] = w[i]
    BY DEF Joins
  <1>2. Len(w) > 0 /\ w[1] = "[" /\ \A i \in 2..Len(w) : w[i] \in WordChars
    BY <1>1, TailChars
  <1> SUFFICES ASSUME NEW i \in 1..Len(w), NEW k \in TokensAt(r, g, i),
                      ~(i + Len(k) - 1 <= Len(w))
               PROVE  FALSE
    BY DEF NoCross
  <1>3. i \in Nat \ {0}
    BY <1>1
  <1>4. /\ k \in DOMAIN g /\ k \in Seq(Alphabet) /\ Len(k) \in Nat
        /\ \A n \in 1..Len(k) : r[i + n - 1] = k[n]
        /\ r[i] = "["
    BY <1>1, <1>3, TokenAt
  <1>5. i = 1
    <2> SUFFICES ASSUME i # 1 PROVE FALSE
      OBVIOUS
    <2>1. i \in 2..Len(w)
      BY <1>1
    <2> QED BY <1>1, <1>2, <1>4, <2>1, Chars
  <1>6. 1 + Len(w) - 1 <= Len(k) /\ \A n \in 1..Len(w) : k[1 + n - 1] = w[n]
    <2>1. Len(w) <= Len(k)
      BY <1>1, <1>4, <1>5
    <2>2. ASSUME NEW n \in 1..Len(w) PROVE k[1 + n - 1] = w[n]
      <3>1. n \in 1..Len(k) /\ 1 + n - 1 = n
        BY <1>1, <1>4, <2>1
      <3> QED BY <1>1, <1>4, <1>5, <3>1
    <2> QED BY <1>1, <1>4, <2>1, <2>2
  <1>7. StartsAt(k, w, 1)
    <2>1. 1 \in Nat \ {0}
      OBVIOUS
    <2> QED BY <1>1, <1>4, <1>6, <2>1, StartsAtPoint
  <1> QED BY <1>4, <1>7 DEF Begins

\* Where s ends with no tail, replacing may have made one, but not the
\* beginning of a token.
LEMMA FeedMade ==
  ASSUME NEW t, NEW s, NEW x, NEW r, NEW f, NEW g, NEW shown, NEW held,
         Feeds(t, s, x, r, f, g, shown, held),
         \A p, w : ~TailEnd(s, p, w), Ready(s) = s, Held(s) = <<>>
  PROVE  Continues(t, s, r, g, shown)
  <1>a. Joins(t, s, x) /\ r = held \o x /\ Split(s, f, shown, held) /\ Apart(s, f)
    BY DEF Feeds
  <1>b. Mapping(f) /\ Mapping(g) /\ DOMAIN f \subseteq DOMAIN g /\ \A k \in DOMAIN f : g[k] = f[k]
    BY Zenon DEF Feeds
  <1>c. /\ \A k \in DOMAIN g \ DOMAIN f : k \notin Placeholders(s)
        /\ DOMAIN g \subseteq DOMAIN Snapshot \cup DOMAIN Late
    BY Zenon DEF Feeds
  <1>1. s \in Seq(Alphabet) /\ x \in Seq(Alphabet)
    BY <1>a DEF Joins
  <1>2. /\ Joins(Replaced(s, f), shown, held) /\ (held = <<>> \/ IsTail(held))
        /\ shown \in Seq(Alphabet) /\ held \in Seq(Alphabet)
    BY <1>a DEF Split, Joins
  <1>3. Joins(r, held, x) /\ r \in Seq(Alphabet)
    <2>1. Joins(held \o x, held, x)
      BY <1>1, <1>2, JoinsConcat
    <2> QED BY <1>a, <2>1 DEF Joins
  <1>4. Joins(s, s, <<>>)
    BY <1>1, JoinsEmpty
  <1>5. <<>> \o x = x /\ Joins(t, s, x) /\ Joins(x, <<>>, x)
    <2>1. <<>> \o x = x /\ <<>> \in Seq(Alphabet)
      BY <1>1, EmptySeq, ConcatEmptySeq
    <2>2. Joins(<<>> \o x, <<>>, x)
      BY Zenon, <1>1, <2>1, JoinsConcat
    <2> QED BY Zenon, <1>a, <2>1, <2>2
  <1>6. Joins(t, Ready(s), x) /\ Joins(x, Held(s), x)
    BY Zenon, <1>5
  <1>7. \A h : Mapping(h) => NoCross(t, Len(s), h)
    <2>1. \A h : Mapping(h) => NoCross(t, Len(Ready(s)), h)
      BY <1>a, <1>6, HeldNoCross
    <2> QED BY Zenon, <2>1
  <1>8. Replaced(t, g) = Replaced(s, f) \o Replaced(x, g)
    <2>1. Replaced(t, g) = Replaced(s, g) \o Replaced(x, g)
      BY <1>a, <1>b, <1>7, ReplacedSplit
    <2>2. Replaced(s, g) = Replaced(s, f)
      BY <1>b, <1>c, <1>4, SameReplaced
    <2> QED BY <2>1, <2>2
  <1>9. Replaced(r, g) = held \o Replaced(x, g)
    <2>1. CASE held = <<>>
      <3>1. r = x /\ Replaced(x, g) \in Seq(Alphabet)
        BY Zenon, <1>a, <1>b, <1>1, <1>5, <2>1, PiecesType
      <3>2. <<>> \o Replaced(x, g) = Replaced(x, g)
        BY <3>1, ConcatEmptySeq
      <3> QED BY Zenon, <2>1, <3>1, <3>2
    <2>2. CASE IsTail(held)
      <3>1. TailEnd(Replaced(s, f), shown, held)
        BY <1>2, <2>2 DEF TailEnd
      <3>2. ~Begins(held)
        BY <1>a, <1>b, <1>1, <3>1, NoNewTail DEF NewTail
      <3>3. NoCross(r, Len(held), g)
        BY <1>b, <1>c, <1>3, <2>2, <3>2, NoneBegins
      <3>4. Replaced(r, g) = Replaced(held, g) \o Replaced(x, g)
        BY <1>b, <1>3, <3>3, ReplacedSplit
      <3> QED BY <1>b, <1>2, <3>4, HeldAsIs
    <2> QED BY <1>2, <2>1, <2>2
  <1>10. Joins(Replaced(t, g), shown, Replaced(r, g))
    <2>1. Replaced(s, f) \in Seq(Alphabet) /\ Replaced(x, g) \in Seq(Alphabet)
      BY <1>b, <1>1, PiecesType
    <2>2. Joins(Replaced(t, g), Replaced(s, f), Replaced(x, g))
      BY <1>8, <2>1, JoinsConcat
    <2> QED BY <1>2, <1>9, <2>2, JoinsRight
  <1>11. Placeholders(t) \subseteq Placeholders(s) \cup Placeholders(r)
    <2>1. Placeholders(t) \subseteq Placeholders(s) \cup Placeholders(x)
      BY <1>a, <1>7, PlaceholdersJoin
    <2>2. Placeholders(x) \subseteq Placeholders(r)
      BY <1>3, PlaceholdersPart
    <2> QED BY <2>1, <2>2
  <1>12. ASSUME NEW p, NEW w, TailEnd(t, p, w) PROVE \E q : TailEnd(r, q, w)
    <2>1. PICK q : TailEnd(x, q, w)
      BY <1>a, <1>6, <1>12, TailOfRest
    <2>2. Joins(r, held \o q, w)
      BY <1>3, <2>1, JoinsLeft DEF TailEnd
    <2> QED BY <2>1, <2>2 DEF TailEnd
  <1> QED BY <1>3, <1>10, <1>11, <1>12 DEF Continues

LEMMA FeedText ==
  ASSUME NEW t, NEW s, NEW x, NEW r, NEW f, NEW g, NEW shown, NEW held,
         Feeds(t, s, x, r, f, g, shown, held)
  PROVE  LET u == Replaced(r, g)
         IN /\ Split(t, g, shown \o Ready(u), Held(u))
            /\ Ready(u) \in Seq(Alphabet)
            /\ Placeholders(t) \subseteq Placeholders(s) \cup Placeholders(r)
  <1>1. s \in Seq(Alphabet) /\ Mapping(g)
    BY Zenon DEF Feeds, Joins
  <1>2. Continues(t, s, r, g, shown)
    BY <1>1, HeldCases, FeedTail, FeedMade
  <1>3. PICK u : u = Replaced(r, g)
    OBVIOUS
  <1>4. /\ r \in Seq(Alphabet) /\ Joins(Replaced(t, g), shown, u)
        /\ Placeholders(t) \subseteq Placeholders(s) \cup Placeholders(r)
    BY <1>2, <1>3 DEF Continues
  <1>5. u \in Seq(Alphabet)
    BY <1>4 DEF Joins
  <1>6. Joins(u, Ready(u), Held(u)) /\ (Held(u) = <<>> \/ IsTail(Held(u)))
    BY <1>5, HeldParts, HeldCases DEF TailEnd
  <1>7. Joins(Replaced(t, g), shown \o Ready(u), Held(u))
    BY <1>4, <1>6, JoinsLeft
  <1>8. ASSUME NEW p, NEW w, TailEnd(t, p, w) PROVE Held(u) = w
    <2>1. PICK q : TailEnd(r, q, w)
      BY <1>2, <1>8 DEF Continues
    <2>2. TailEnd(u, Replaced(q, g), w)
      BY <1>1, <1>3, <2>1, TailStays
    <2>3. TailEnd(u, Ready(u), Held(u))
      BY <1>5, <2>2, HeldCases
    <2> QED BY <2>2, <2>3, TailEndUnique
  <1>9. Split(t, g, shown \o Ready(u), Held(u))
    BY <1>6, <1>7, <1>8 DEF Split
  <1>10. Ready(u) \in Seq(Alphabet)
    BY <1>6 DEF Joins
  <1> QED BY <1>3, <1>4, <1>9, <1>10

LEMMA EmptySplit ==
  ASSUME NEW f, Mapping(f)
  PROVE  Split(<<>>, f, <<>>, <<>>)
  <1>1. <<>> \in Seq(Alphabet) /\ Len(<<>>) = 0
    BY EmptySeq
  <1>2. ASSUME NEW p, NEW w, TailEnd(<<>>, p, w) PROVE FALSE
    <2>1. PICK z : z = <<>>
      OBVIOUS
    <2>2. Len(z) = 0 /\ Len(w) \in Nat /\ Len(p) \in Nat /\ Len(z) = Len(p) + Len(w)
          /\ w \in Seq(Alphabet) /\ IsTail(w)
      BY <1>1, <1>2, <2>1 DEF TailEnd, Joins
    <2>3. Len(w) > 0
      BY <2>2, TailChars
    <2>4. Len(w) \in Nat /\ Len(p) \in Nat /\ 0 = Len(p) + Len(w)
      BY Zenon, <2>2
    <2> QED BY <2>3, <2>4
  <1>3. Joins(Replaced(<<>>, f), <<>>, <<>>)
    BY Zenon, <1>1, EmptyReplaced, JoinsEmpty
  <1> QED BY Zenon, <1>2, <1>3 DEF Split

---------------------------------------------------------------------------
(* Parts that grow. *)
LEMMA FlattenAt ==
  ASSUME NEW A, NEW ss \in Seq(Seq(A)), NEW b \in 1..Len(ss)
  PROVE  LET p == FlattenSeq(SubSeq(ss, 1, b - 1))
             q == FlattenSeq(SubSeq(ss, b + 1, Len(ss)))
         IN /\ p \in Seq(A) /\ q \in Seq(A) /\ ss[b] \in Seq(A)
            /\ FlattenSeq(ss) = (p \o ss[b]) \o q
            /\ (\A i \in (b + 1)..Len(ss) : ss[i] = <<>>) => q = <<>>
  <1>1. PICK a, c, d, e : /\ a = SubSeq(ss, 1, b - 1) /\ c = SubSeq(ss, 1, b)
                          /\ d = SubSeq(ss, b + 1, Len(ss)) /\ e = ss[b]
    OBVIOUS
  <1>2. Len(ss) \in Nat /\ b \in Nat /\ 1 <= b /\ b <= Len(ss)
    OBVIOUS
  <1>3. e \in Seq(A)
    BY <1>1, ElementOfSeq
  <1>4. /\ a \in Seq(Seq(A)) /\ d \in Seq(Seq(A)) /\ Len(d) = Len(ss) - b
        /\ \A i \in 1..(Len(ss) - b) : d[i] = ss[b + i]
    <2>1. b - 1 \in 0..Len(ss)
      BY <1>2
    <2>2. a \in Seq(Seq(A))
      BY <1>1, <2>1, FrontFacts
    <2>3. \A i \in (b + 1)..Len(ss) : ss[i] \in Seq(A)
      BY <1>2, ElementOfSeq
    <2>4. /\ d \in Seq(Seq(A)) /\ Len(d) = IF b + 1 <= Len(ss) THEN Len(ss) - (b + 1) + 1 ELSE 0
          /\ \A i \in 1..(Len(ss) - (b + 1) + 1) : d[i] = ss[b + 1 + i - 1]
      BY <1>1, <1>2, <2>3, SubSeqProperties
    <2>5. Len(d) = Len(ss) - b
      BY <1>2, <2>4
    <2>6. ASSUME NEW i \in 1..(Len(ss) - b) PROVE d[i] = ss[b + i]
      <3>1. i \in 1..(Len(ss) - (b + 1) + 1) /\ b + 1 + i - 1 = b + i
        BY <1>2
      <3> QED BY <2>4, <3>1
    <2> QED BY <2>2, <2>4, <2>5, <2>6
  <1>5. c = Append(a, e) /\ ss = c \o d /\ c \in Seq(Seq(A))
    <2>1. c = a \o <<e>>
      <3>1. 1 \in 1..Len(ss) /\ b \in 1..Len(ss)
        BY <1>2
      <3> QED BY <1>1, <3>1, SubSeqRecursiveSecond
    <2>2. Append(a, e) = a \o <<e>>
      BY <1>3, <1>4, AppendIsConcat
    <2>3. SubSeq(ss, 1, b) \o SubSeq(ss, b + 1, Len(ss)) = SubSeq(ss, 1, Len(ss))
      <3>1. 1 \in 1..(Len(ss) + 1) /\ b \in (1 - 1)..Len(ss) /\ Len(ss) \in b..Len(ss)
        BY <1>2
      <3> QED BY <3>1, ConcatAdjacentSubSeq
    <2>4. ss = c \o d
      BY <1>1, <2>3, SubSeqFull
    <2>5. b \in 0..Len(ss)
      BY <1>2
    <2>6. c \in Seq(Seq(A))
      BY <1>1, <2>5, FrontFacts
    <2> QED BY <2>1, <2>2, <2>4, <2>6
  <1>6. PICK p, q : p = FlattenSeq(a) /\ q = FlattenSeq(d)
    OBVIOUS
  <1>7. p \in Seq(A) /\ q \in Seq(A)
    BY <1>4, <1>6, FlattenType
  <1>8. FlattenSeq(c) = p \o e
    BY <1>3, <1>4, <1>5, <1>6, FlattenAppend
  <1>9. FlattenSeq(ss) = (p \o e) \o q
    BY <1>4, <1>5, <1>6, <1>8, FlattenConcat
  <1>10. (\A i \in (b + 1)..Len(ss) : ss[i] = <<>>) => q = <<>>
    <2> SUFFICES ASSUME \A i \in (b + 1)..Len(ss) : ss[i] = <<>> PROVE q = <<>>
      OBVIOUS
    <2>1. ASSUME NEW i \in 1..Len(d) PROVE d[i] = <<>>
      <3>1. i \in 1..(Len(ss) - b) /\ b + i \in (b + 1)..Len(ss)
        BY <1>2, <1>4
      <3> QED BY <1>4, <3>1
    <2> QED BY <1>4, <1>6, <2>1, FlattenEmpties
  <1> QED BY <1>1, <1>3, <1>6, <1>7, <1>9, <1>10

Grows(A, ss, tt, b, x) ==
    /\ ss \in Seq(Seq(A)) /\ tt \in Seq(Seq(A)) /\ Len(tt) = Len(ss)
    /\ b \in 1..Len(ss) /\ x \in Seq(A)
    /\ \A i \in 1..(b - 1) : tt[i] = ss[i]
    /\ tt[b] = ss[b] \o x
    /\ \A i \in (b + 1)..Len(ss) : ss[i] = <<>>

Grown(A, ss, tt, b, x, y) ==
    /\ y \in Seq(A)
    /\ FlattenSeq(tt) = FlattenSeq(ss) \o (x \o y)
    /\ (\A i \in (b + 1)..Len(tt) : tt[i] = <<>>) => y = <<>>

LEMMA FlattenGrow ==
  ASSUME NEW A, NEW ss, NEW tt, NEW b, NEW x, Grows(A, ss, tt, b, x)
  PROVE  \E y : Grown(A, ss, tt, b, x, y)
  <1>a. /\ ss \in Seq(Seq(A)) /\ tt \in Seq(Seq(A)) /\ Len(tt) = Len(ss)
        /\ b \in 1..Len(ss) /\ x \in Seq(A)
    BY Zenon DEF Grows
  <1>b. \A i \in 1..(b - 1) : tt[i] = ss[i]
    BY Zenon DEF Grows
  <1>c. \A i \in (b + 1)..Len(ss) : ss[i] = <<>>
    BY Zenon DEF Grows
  <1>d. tt[b] = ss[b] \o x
    BY SMT DEF Grows
  <1>1. PICK p, q, p0, q0 : /\ p = FlattenSeq(SubSeq(ss, 1, b - 1))
                            /\ q = FlattenSeq(SubSeq(ss, b + 1, Len(ss)))
                            /\ p0 = FlattenSeq(SubSeq(tt, 1, b - 1))
                            /\ q0 = FlattenSeq(SubSeq(tt, b + 1, Len(tt)))
    OBVIOUS
  <1>2. /\ p \in Seq(A) /\ q \in Seq(A) /\ ss[b] \in Seq(A)
        /\ FlattenSeq(ss) = (p \o ss[b]) \o q /\ q = <<>>
    BY <1>a, <1>c, <1>1, FlattenAt
  <1>3. /\ p0 \in Seq(A) /\ q0 \in Seq(A)
        /\ FlattenSeq(tt) = (p0 \o tt[b]) \o q0
        /\ (\A i \in (b + 1)..Len(tt) : tt[i] = <<>>) => q0 = <<>>
    <2>1. b \in 1..Len(tt)
      BY <1>a
    <2> QED BY <1>a, <1>1, <2>1, FlattenAt
  <1>4. p0 = p
    <2>1. PICK u, v : u = SubSeq(ss, 1, b - 1) /\ v = SubSeq(tt, 1, b - 1)
      OBVIOUS
    <2>2. b - 1 \in 0..Len(ss) /\ b - 1 \in 0..Len(tt)
      <3>1. Len(ss) \in Nat
        BY <1>a, LenProperties
      <3> QED BY <1>a, <3>1
    <2>3. u \in Seq(Seq(A)) /\ Len(u) = b - 1 /\ \A i \in 1..(b - 1) : u[i] = ss[i]
      BY <1>a, <2>1, <2>2, FrontFacts
    <2>4. v \in Seq(Seq(A)) /\ Len(v) = b - 1 /\ \A i \in 1..(b - 1) : v[i] = tt[i]
      BY <1>a, <2>1, <2>2, FrontFacts
    <2>5. u = v
      BY <1>b, <2>3, <2>4, SeqEqual
    <2> QED BY <1>1, <2>1, <2>5
  <1>5. PICK e, w : e = ss[b] /\ w = p \o e
    OBVIOUS
  <1>6. e \in Seq(A) /\ w \in Seq(A)
    BY <1>2, <1>5, ConcatProperties
  <1>7. FlattenSeq(ss) = w
    BY <1>2, <1>5, <1>6, ConcatEmptySeq
  <1>8. FlattenSeq(tt) = w \o (x \o q0)
    <2>1. Regroups(p, e, x) /\ Regroups(w, x, q0)
      BY <1>a, <1>2, <1>3, <1>6, Assoc
    <2> QED BY <1>d, <1>3, <1>4, <1>5, <2>1 DEF Regroups
  <1>9. FlattenSeq(tt) = FlattenSeq(ss) \o (x \o q0)
    BY <1>7, <1>8
  <1>10. Grown(A, ss, tt, b, x, q0)
    BY <1>3, <1>9 DEF Grown
  <1> QED BY <1>10

---------------------------------------------------------------------------
(* The text of a reply, as far as it has come. *)
PartsOf(m, b, n) == [i \in 1..Len(m) |-> SentOf(m, b, n, i)]
Sendable(m, b, n) == /\ m \in Messages /\ b \in 1..(Len(m) + 1) /\ n \in Nat
                     /\ b <= Len(m) => n <= Len(m[b].text)

LEMMA BlockFacts ==
  ASSUME NEW m \in Messages
  PROVE  /\ Len(m) \in Nat
         /\ \A i \in 1..Len(m) : m[i].text \in Seq(Alphabet) /\ Len(m[i].text) \in Nat
  <1>1. m \in Seq([kind : {"text", "tool_use"}, text : Seq(Alphabet)])
    BY ConstAssumption
  <1>2. Len(m) \in Nat
    BY <1>1, LenProperties
  <1>3. ASSUME NEW i \in 1..Len(m) PROVE m[i].text \in Seq(Alphabet)
    <2>1. m[i] \in [kind : {"text", "tool_use"}, text : Seq(Alphabet)]
      BY <1>1, ElementOfSeq
    <2> QED BY <2>1
  <1>4. ASSUME NEW i \in 1..Len(m) PROVE Len(m[i].text) \in Nat
    BY <1>3, LenProperties
  <1> QED BY <1>2, <1>3, <1>4

LEMMA PartsFacts ==
  ASSUME NEW m, NEW b, NEW n, Sendable(m, b, n)
  PROVE  /\ PartsOf(m, b, n) \in Seq(Seq(Alphabet)) /\ Len(PartsOf(m, b, n)) = Len(m)
         /\ \A i \in 1..Len(m) : PartsOf(m, b, n)[i] = SentOf(m, b, n, i)
         /\ TextUpTo(m, b, n) = FlattenSeq(PartsOf(m, b, n))
         /\ TextUpTo(m, b, n) \in Seq(Alphabet)
  <1>1. m \in Messages /\ b \in 1..(Len(m) + 1) /\ n \in Nat /\ (b <= Len(m) => n <= Len(m[b].text))
    BY DEF Sendable
  <1>2. Len(m) \in Nat /\ \A i \in 1..Len(m) : m[i].text \in Seq(Alphabet) /\ Len(m[i].text) \in Nat
    BY <1>1, BlockFacts
  <1>3. ASSUME NEW i \in 1..Len(m) PROVE SentOf(m, b, n, i) \in Seq(Alphabet)
    <2>1. <<>> \in Seq(Alphabet)
      BY EmptySeq
    <2>2. m[i].text \in Seq(Alphabet)
      BY <1>2
    <2>3. i = b => n \in 0..Len(m[i].text)
      BY <1>1, <1>2
    <2>4. i = b => SubSeq(m[i].text, 1, n) \in Seq(Alphabet)
      BY <2>2, <2>3, FrontFacts
    <2> QED BY Zenon, <2>1, <2>2, <2>4 DEF SentOf
  <1>4. PICK ss : ss = [i \in 1..Len(m) |-> SentOf(m, b, n, i)]
    OBVIOUS
  <1>5. ss \in [1..Len(m) -> Seq(Alphabet)]
    BY <1>3, <1>4
  <1>6. ss \in Seq(Seq(Alphabet)) /\ Len(ss) = Len(m)
    BY <1>2, <1>5
  <1>7. FlattenSeq(ss) \in Seq(Alphabet)
    BY <1>6, FlattenType
  <1> QED BY <1>4, <1>6, <1>7 DEF PartsOf, TextUpTo

\* A delta brings the next characters of its block.
LEMMA DeltaText ==
  ASSUME NEW m, NEW b, NEW n, NEW c \in Nat, Sendable(m, b, n), Sendable(m, b, n + c),
         b <= Len(m), m[b].kind = "text"
  PROVE  Joins(TextUpTo(m, b, n + c), TextUpTo(m, b, n), SubSeq(m[b].text, n + 1, n + c))
  <1>1. m \in Messages /\ b \in 1..Len(m) /\ n \in Nat /\ n + c <= Len(m[b].text)
    <2>1. m \in Messages /\ b \in 1..(Len(m) + 1) /\ n \in Nat /\ n + c <= Len(m[b].text)
      BY DEF Sendable
    <2>2. Len(m) \in Nat
      BY <2>1, BlockFacts
    <2> QED BY <2>1, <2>2
  <1>2. /\ Len(m) \in Nat /\ m[b].text \in Seq(Alphabet) /\ Len(m[b].text) \in Nat
    BY <1>1, BlockFacts
  <1>3. PICK ss, tt, x : /\ ss = PartsOf(m, b, n) /\ tt = PartsOf(m, b, n + c)
                         /\ x = SubSeq(m[b].text, n + 1, n + c)
    OBVIOUS
  <1>4. /\ ss \in Seq(Seq(Alphabet)) /\ Len(ss) = Len(m)
        /\ \A i \in 1..Len(m) : ss[i] = SentOf(m, b, n, i)
        /\ TextUpTo(m, b, n) = FlattenSeq(ss)
    BY <1>3, PartsFacts
  <1>5. /\ tt \in Seq(Seq(Alphabet)) /\ Len(tt) = Len(m)
        /\ \A i \in 1..Len(m) : tt[i] = SentOf(m, b, n + c, i)
        /\ TextUpTo(m, b, n + c) = FlattenSeq(tt)
    BY <1>3, PartsFacts
  <1>6. \A i \in 1..(b - 1) : tt[i] = ss[i]
    <2> TAKE i \in 1..(b - 1)
    <2>1. i \in 1..Len(m) /\ i # b
      BY <1>1, <1>2
    <2>2. SentOf(m, b, n + c, i) = SentOf(m, b, n, i)
      BY <2>1 DEF SentOf
    <2> QED BY <1>4, <1>5, <2>1, <2>2
  <1>7. \A i \in (b + 1)..Len(m) : ss[i] = <<>> /\ tt[i] = <<>>
    <2> TAKE i \in (b + 1)..Len(m)
    <2>1. i \in 1..Len(m) /\ i > b
      BY <1>1, <1>2
    <2>2. SentOf(m, b, n + c, i) = <<>> /\ SentOf(m, b, n, i) = <<>>
      BY Zenon, <2>1 DEF SentOf
    <2> QED BY Zenon, <1>4, <1>5, <2>1, <2>2
  <1>8. tt[b] = ss[b] \o x /\ x \in Seq(Alphabet)
    <2>1. ~(b > b)
      BY <1>1
    <2>2. ss[b] = SubSeq(m[b].text, 1, n) /\ tt[b] = SubSeq(m[b].text, 1, n + c)
      BY Zenon, <1>1, <1>4, <1>5, <2>1 DEF SentOf
    <2>3. PICK w : w = m[b].text
      OBVIOUS
    <2>4. w \in Seq(Alphabet) /\ Len(w) \in Nat /\ n + c <= Len(w)
      BY <1>1, <1>2, <2>3
    <2>5. 1 \in 1..(Len(w) + 1) /\ n \in (1 - 1)..Len(w) /\ n + c \in n..Len(w)
      BY <1>1, <2>4
    <2>6. SubSeq(w, 1, n) \o SubSeq(w, n + 1, n + c) = SubSeq(w, 1, n + c)
      BY <2>4, <2>5, ConcatAdjacentSubSeq
    <2>7. \A i \in (n + 1)..(n + c) : w[i] \in Alphabet
      BY <1>1, <2>4, ElementOfSeq
    <2>8. SubSeq(w, n + 1, n + c) \in Seq(Alphabet)
      BY <1>1, <2>7, SubSeqProperties
    <2> QED BY <1>3, <2>2, <2>3, <2>6, <2>8
  <1>9. b \in 1..Len(ss)
    BY <1>1, <1>4
  <1>10. PICK y : Grown(Alphabet, ss, tt, b, x, y)
    <2>1. Len(tt) = Len(ss) /\ ss \in Seq(Seq(Alphabet)) /\ tt \in Seq(Seq(Alphabet))
      BY <1>4, <1>5
    <2>2. \A i \in (b + 1)..Len(ss) : ss[i] = <<>>
      BY Zenon, <1>4, <1>7
    <2>3. tt[b] = ss[b] \o x /\ x \in Seq(Alphabet)
      BY <1>8
    <2>4. Grows(Alphabet, ss, tt, b, x)
      BY Zenon, <1>6, <1>9, <2>1, <2>2, <2>3 DEF Grows
    <2> QED BY <2>4, FlattenGrow
  <1>11. FlattenSeq(tt) = FlattenSeq(ss) \o (x \o y) /\ y = <<>>
    <2>1. FlattenSeq(tt) = FlattenSeq(ss) \o (x \o y)
      BY <1>10 DEF Grown
    <2>2. (\A i \in (b + 1)..Len(tt) : tt[i] = <<>>) => y = <<>>
      BY Zenon, <1>10 DEF Grown
    <2>3. \A i \in (b + 1)..Len(tt) : tt[i] = <<>>
      BY Zenon, <1>5, <1>7
    <2> QED BY Zenon, <2>1, <2>2, <2>3
  <1>12. FlattenSeq(tt) = FlattenSeq(ss) \o x
    <2>1. x \o <<>> = x
      BY <1>8, ConcatEmptySeq
    <2> QED BY <1>11, <2>1
  <1>13. FlattenSeq(ss) \in Seq(Alphabet)
    BY <1>4, FlattenType
  <1> QED BY <1>3, <1>4, <1>5, <1>8, <1>12, <1>13, JoinsConcat

---------------------------------------------------------------------------
LEMMA SameText ==
  ASSUME NEW m, NEW b, NEW n, NEW c, NEW d,
         \A i \in 1..Len(m) : SentOf(m, b, n, i) = SentOf(m, c, d, i)
  PROVE  TextUpTo(m, b, n) = TextUpTo(m, c, d)
  <1>1. [i \in 1..Len(m) |-> SentOf(m, b, n, i)] = [i \in 1..Len(m) |-> SentOf(m, c, d, i)]
    BY Zenon
  <1> QED BY Zenon, <1>1 DEF TextUpTo

LEMMA PrefixText ==
  ASSUME NEW m, NEW b, NEW n, Sendable(m, b, n)
  PROVE  \E y : Joins(FullText(m), TextUpTo(m, b, n), y)
  <1>1. m \in Messages /\ b \in 1..(Len(m) + 1) /\ n \in Nat /\ (b <= Len(m) => n <= Len(m[b].text))
    BY DEF Sendable
  <1>2. Len(m) \in Nat
    BY <1>1, BlockFacts
  <1>3. PICK l : l = Len(m) + 1
    OBVIOUS
  <1>4. Sendable(m, l, 0) /\ FullText(m) = TextUpTo(m, l, 0)
    <2>1. l \in 1..(Len(m) + 1) /\ ~(l <= Len(m))
      BY <1>2, <1>3
    <2> QED BY <1>1, <1>3, <2>1 DEF Sendable, FullText
  <1>5. CASE b = l
    <2>1. ASSUME NEW i \in 1..Len(m) PROVE SentOf(m, b, n, i) = SentOf(m, l, 0, i)
      <3>1. i # l /\ ~(i > l)
        BY <1>2, <1>3
      <3> QED BY Zenon, <1>5, <3>1 DEF SentOf
    <2>2. TextUpTo(m, b, n) = FullText(m)
      BY <1>4, <2>1, SameText
    <2>3. TextUpTo(m, b, n) \in Seq(Alphabet)
      BY PartsFacts
    <2> QED BY Zenon, <2>2, <2>3, JoinsEmpty
  <1>6. CASE b # l
    <2>1. b \in 1..Len(m) /\ b \in Nat /\ b < l
      BY <1>1, <1>2, <1>3, <1>6
    <2>2. /\ m[b].text \in Seq(Alphabet) /\ Len(m[b].text) \in Nat
      BY <1>1, <2>1, BlockFacts
    <2>3. PICK ss, tt, w : ss = PartsOf(m, b, n) /\ tt = PartsOf(m, l, 0) /\ w = m[b].text
      OBVIOUS
    <2>4. /\ ss \in Seq(Seq(Alphabet)) /\ Len(ss) = Len(m)
          /\ \A i \in 1..Len(m) : ss[i] = SentOf(m, b, n, i)
          /\ TextUpTo(m, b, n) = FlattenSeq(ss)
      BY <2>3, PartsFacts
    <2>5. /\ tt \in Seq(Seq(Alphabet)) /\ Len(tt) = Len(m)
          /\ \A i \in 1..Len(m) : tt[i] = SentOf(m, l, 0, i)
          /\ TextUpTo(m, l, 0) = FlattenSeq(tt)
      BY <1>4, <2>3, PartsFacts
    <2>6. \A i \in 1..(b - 1) : tt[i] = ss[i]
      <3> TAKE i \in 1..(b - 1)
      <3>1. i \in 1..Len(m) /\ i # b /\ ~(i > b) /\ i # l /\ ~(i > l)
        BY <1>2, <1>3, <2>1
      <3>2. SentOf(m, b, n, i) = SentOf(m, l, 0, i)
        BY Zenon, <3>1 DEF SentOf
      <3> QED BY Zenon, <2>4, <2>5, <3>1, <3>2
    <2>7. \A i \in (b + 1)..Len(ss) : ss[i] = <<>>
      <3> TAKE i \in (b + 1)..Len(ss)
      <3>1. i \in 1..Len(m) /\ i > b
        BY <1>2, <2>1, <2>4
      <3>2. SentOf(m, b, n, i) = <<>>
        BY Zenon, <3>1 DEF SentOf
      <3> QED BY Zenon, <2>4, <3>1, <3>2
    <2>8. \E x \in Seq(Alphabet) : tt[b] = ss[b] \o x
      <3>1. ~(b > b) /\ b # l /\ ~(b > l)
        BY <1>2, <1>3, <2>1
      <3>2. w \in Seq(Alphabet) /\ Len(w) \in Nat /\ n <= Len(w) /\ n \in Nat
        BY <1>1, <1>2, <2>1, <2>2, <2>3
      <3>3. CASE m[b].kind = "text"
        <4>1. ss[b] = SubSeq(w, 1, n) /\ tt[b] = w
          BY Zenon, <2>1, <2>3, <2>4, <2>5, <3>1, <3>3 DEF SentOf
        <4>2. n \in 0..Len(w)
          BY <3>2
        <4>3. Joins(w, SubSeq(w, 1, n), SubSeq(w, n + 1, Len(w)))
          BY <3>2, <4>2, CutJoins
        <4>4. PICK x : x = SubSeq(w, n + 1, Len(w))
          OBVIOUS
        <4>5. tt[b] = ss[b] \o x
          <5>1. w = SubSeq(w, 1, n) \o x
            BY <4>3, <4>4, ConcatJoins
          <5> QED BY <4>1, <5>1
        <4>6. x \in Seq(Alphabet)
          BY Zenon, <4>3, <4>4 DEF Joins
        <4> QED BY <4>5, <4>6
      <3>4. CASE m[b].kind # "text"
        <4>1. ss[b] = <<>> /\ tt[b] = <<>>
          BY Zenon, <2>1, <2>4, <2>5, <3>4 DEF SentOf
        <4>2. <<>> \o <<>> = <<>> /\ <<>> \in Seq(Alphabet)
          BY EmptySeq, ConcatEmptySeq
        <4> QED BY Zenon, <4>1, <4>2
      <3> QED BY <3>3, <3>4
    <2>9. PICK x \in Seq(Alphabet) : tt[b] = ss[b] \o x
      BY <2>8
    <2>10. Len(tt) = Len(ss) /\ b \in 1..Len(ss)
      BY <2>1, <2>4, <2>5
    <2>11. PICK y : Grown(Alphabet, ss, tt, b, x, y)
      <3>1. ss \in Seq(Seq(Alphabet)) /\ tt \in Seq(Seq(Alphabet))
        BY Zenon, <2>4, <2>5
      <3>2. Grows(Alphabet, ss, tt, b, x)
        BY SMT, <3>1, <2>6, <2>7, <2>9, <2>10 DEF Grows
      <3> QED BY <3>2, FlattenGrow
    <2>12. y \in Seq(Alphabet) /\ FlattenSeq(tt) = FlattenSeq(ss) \o (x \o y)
      BY <2>11 DEF Grown
    <2>13. PICK z : z = x \o y
      OBVIOUS
    <2>14. z \in Seq(Alphabet)
      BY <2>12, <2>13, ConcatProperties
    <2>16. FlattenSeq(ss) \in Seq(Alphabet)
      BY <2>4, FlattenType
    <2>15. Joins(FlattenSeq(tt), FlattenSeq(ss), z)
      BY <2>12, <2>13, <2>14, <2>16, JoinsConcat
    <2> QED BY <1>4, <2>4, <2>5, <2>15
  <1> QED BY <1>5, <1>6

\* The arguments of a tool are no text.
LEMMA ToolText ==
  ASSUME NEW m, NEW b, NEW n, NEW c, m[b].kind # "text"
  PROVE  TextUpTo(m, b, n) = TextUpTo(m, b, c)
  <1>1. ASSUME NEW i \in 1..Len(m) PROVE SentOf(m, b, n, i) = SentOf(m, b, c, i)
    BY Zenon DEF SentOf
  <1> QED BY <1>1, SameText

\* A block that is complete, and the next one of which nothing has come.
LEMMA StopText ==
  ASSUME NEW m \in Messages, NEW b \in 1..Len(m)
  PROVE  TextUpTo(m, b, Len(m[b].text)) = TextUpTo(m, b + 1, 0)
  <1>1. Len(m) \in Nat /\ \A i \in 1..Len(m) : m[i].text \in Seq(Alphabet)
    BY BlockFacts
  <1>2. ASSUME NEW i \in 1..Len(m)
        PROVE  SentOf(m, b, Len(m[b].text), i) = SentOf(m, b + 1, 0, i)
    <2>1. CASE i < b
      <3>1. i # b /\ ~(i > b) /\ i # b + 1 /\ ~(i > b + 1)
        BY <1>1, <2>1
      <3> QED BY Zenon, <3>1 DEF SentOf
    <2>2. CASE i = b
      <3>1. ~(b > b) /\ b # b + 1 /\ ~(b > b + 1)
        BY <1>1
      <3>2. SubSeq(m[b].text, 1, Len(m[b].text)) = m[b].text
        BY <1>1, SubSeqFull
      <3> QED BY Zenon, <2>2, <3>1, <3>2 DEF SentOf
    <2>3. CASE i = b + 1
      <3>1. b + 1 > b /\ ~(b + 1 > b + 1)
        BY <1>1
      <3>2. SubSeq(m[i].text, 1, 0) = <<>>
        BY SubSeqEmpty
      <3> QED BY Zenon, <2>3, <3>1, <3>2 DEF SentOf
    <2>4. CASE i > b + 1
      <3>1. i > b /\ i > b + 1
        BY <1>1, <2>4
      <3> QED BY Zenon, <3>1 DEF SentOf
    <2> QED BY <1>1, <2>1, <2>2, <2>3, <2>4
  <1> QED BY <1>2, SameText

---------------------------------------------------------------------------
(* What the client has been sent. *)
Texts == Sent /\ \A i \in 1..Len(out) : ShownBy(out[i]) \in Seq(Alphabet)

ShownParts(o) == [i \in 1..Len(o) |-> ShownBy(o[i])]

LEMMA ShownFacts ==
  ASSUME NEW o, Len(o) \in Nat, \A i \in 1..Len(o) : ShownBy(o[i]) \in Seq(Alphabet)
  PROVE  /\ ShownParts(o) \in Seq(Seq(Alphabet)) /\ Len(ShownParts(o)) = Len(o)
         /\ \A i \in 1..Len(o) : ShownParts(o)[i] = ShownBy(o[i])
         /\ FlattenSeq(ShownParts(o)) \in Seq(Alphabet)
  <1>1. PICK ss : ss = [i \in 1..Len(o) |-> ShownBy(o[i])]
    OBVIOUS
  <1>2. ss \in [1..Len(o) -> Seq(Alphabet)]
    BY <1>1
  <1>3. ss \in Seq(Seq(Alphabet)) /\ Len(ss) = Len(o)
    BY <1>2
  <1>4. FlattenSeq(ss) \in Seq(Alphabet)
    BY <1>3, FlattenType
  <1> QED BY <1>1, <1>3, <1>4 DEF ShownParts

LEMMA SendShows ==
  ASSUME Texts, NEW e, Send(e), ShownBy(e) \in Seq(Alphabet)
  PROVE  Texts' /\ Visible' = Visible \o ShownBy(e)
  <1>1. /\ Sent' /\ Len(out) \in Nat /\ Len(out') = Len(out) + 1
        /\ out'[Len(out) + 1] = e
        /\ \A i \in 1..Len(out) : out'[i] = out[i]
    BY SendFacts DEF Texts
  <1>2. ASSUME NEW i \in 1..Len(out') PROVE ShownBy(out'[i]) \in Seq(Alphabet)
    <2>1. i \in 1..Len(out) \/ i = Len(out) + 1
      BY <1>1
    <2> QED BY Zenon, <1>1, <2>1 DEF Texts
  <1>3. Texts'
    BY Zenon, <1>1, <1>2 DEF Texts
  <1>4. PICK ss, tt, n : ss = ShownParts(out) /\ tt = ShownParts(out') /\ n = Len(out)
    OBVIOUS
  <1>5. /\ ss \in Seq(Seq(Alphabet)) /\ Len(ss) = n
        /\ \A i \in 1..n : ss[i] = ShownBy(out[i])
    BY <1>1, <1>4, ShownFacts DEF Texts
  <1>6. /\ tt \in Seq(Seq(Alphabet)) /\ Len(tt) = n + 1
        /\ \A i \in 1..(n + 1) : tt[i] = ShownBy(out'[i])
    <2>1. Len(out') \in Nat
      BY <1>1
    <2> QED BY <1>1, <1>2, <1>4, <2>1, ShownFacts
  <1>7. tt = Append(ss, ShownBy(e))
    <2>1. PICK u : u = Append(ss, ShownBy(e))
      OBVIOUS
    <2>2. /\ u \in Seq(Seq(Alphabet)) /\ Len(u) = n + 1
          /\ \A i \in 1..n : u[i] = ss[i]
          /\ u[n + 1] = ShownBy(e)
      BY <1>5, <2>1, AppendProperties
    <2>3. ASSUME NEW i \in 1..(n + 1) PROVE tt[i] = u[i]
      <3>1. n \in Nat
        BY <1>1, <1>4
      <3>2. CASE i = n + 1
        BY Zenon, <1>1, <1>4, <1>6, <2>2, <3>2
      <3>3. CASE i # n + 1
        <4>1. i \in 1..n
          BY <3>1, <3>3
        <4> QED BY Zenon, <1>1, <1>4, <1>5, <1>6, <2>2, <4>1
      <3> QED BY <3>2, <3>3
    <2>4. tt = u
      BY <1>6, <2>2, <2>3, SeqEqual
    <2> QED BY <2>1, <2>4
  <1>8. FlattenSeq(tt) = FlattenSeq(ss) \o ShownBy(e)
    BY <1>5, <1>7, FlattenAppend
  <1>9. Visible = FlattenSeq(ss) /\ Visible' = FlattenSeq(tt)
    BY Zenon, <1>4 DEF Visible, ShownParts
  <1> QED BY <1>3, <1>8, <1>9

\* An event without text shows nothing more.
LEMMA SendQuiet ==
  ASSUME Texts, NEW e, Send(e), e.type # "text"
  PROVE  Texts' /\ Visible' = Visible
  <1>1. ShownBy(e) = <<>> /\ <<>> \in Seq(Alphabet)
    BY Zenon, EmptySeq DEF ShownBy
  <1>2. Texts' /\ Visible' = Visible \o <<>>
    BY <1>1, SendShows
  <1>3. Visible \in Seq(Alphabet)
    <2>1. Len(out) \in Nat
      BY SendFacts DEF Texts
    <2>2. FlattenSeq(ShownParts(out)) \in Seq(Alphabet)
      BY <2>1, ShownFacts DEF Texts
    <2> QED BY <2>2 DEF Visible, ShownParts
  <1> QED BY <1>2, <1>3, ConcatEmptySeq

---------------------------------------------------------------------------
(* What is known of the tokens. *)
\* Every value is the one a mapping gives.
Entry(f, k) == \/ k \in DOMAIN Snapshot /\ f[k] = Snapshot[k]
               \/ k \in DOMAIN Late /\ f[k] = Late[k]
Lookups == /\ \A k \in DOMAIN known : Entry(known, k) /\ IsPlaceholder(k)
           /\ \A k \in DOMAIN redis : Entry(redis, k)
           /\ \A w \in queried : IsPlaceholder(w)

LEMMA KnownMapping ==
  ASSUME NEW f, \A k \in DOMAIN f : Entry(f, k) /\ IsPlaceholder(k)
  PROVE  Mapping(f)
  BY MappingAssumption, Zenon DEF Entry, Mapping

LEMMA KnownApart ==
  ASSUME NEW f, \A k \in DOMAIN f : Entry(f, k), NEW t, Apart(t, Snapshot), Apart(t, Late)
  PROVE  Apart(t, f)
  <1> SUFFICES ASSUME NEW i \in DOMAIN t, NEW j \in i..(Len(t) - 1),
                      NEW k \in TokensAt(t, f, j + 1),
                      IsTail(SubSeq(t, i, j))
               PROVE  ~Begins(SubSeq(t, i, j) \o f[k])
    BY Zenon DEF Apart, Begins
  <1>1. k \in DOMAIN f /\ StartsAt(t, k, j + 1) /\ Entry(f, k)
    BY Zenon DEF TokensAt
  <1>2. CASE k \in DOMAIN Snapshot /\ f[k] = Snapshot[k]
    <2>1. k \in TokensAt(t, Snapshot, j + 1)
      BY Zenon, <1>1, <1>2 DEF TokensAt
    <2> QED BY Zenon, <1>2, <2>1 DEF Apart, Begins
  <1>3. CASE k \in DOMAIN Late /\ f[k] = Late[k]
    <2>1. k \in TokensAt(t, Late, j + 1)
      BY Zenon, <1>1, <1>3 DEF TokensAt
    <2> QED BY Zenon, <1>3, <2>1 DEF Apart, Begins
  <1> QED BY Zenon, <1>1, <1>2, <1>3 DEF Entry

LEMMA ResolveFacts ==
  ASSUME Lookups, NEW s, Resolve(s), redis' = redis
  PROVE  /\ Lookups'
         /\ DOMAIN known \subseteq DOMAIN known'
         /\ \A k \in DOMAIN known : known'[k] = known[k]
         /\ \A k \in DOMAIN known' \ DOMAIN known : k \in Unknown(s)
         /\ DOMAIN known \cup queried \cup Placeholders(s) \subseteq DOMAIN known' \cup queried'
  <1>1. PICK F : /\ known' = With(known, Restrict(redis, (Unknown(s) \cap DOMAIN redis) \ F))
                 /\ queried' = queried \cup Unknown(s)
    BY DEF Resolve
  <1>2. PICK D, g : D = (Unknown(s) \cap DOMAIN redis) \ F /\ g = Restrict(redis, D)
    OBVIOUS
  <1>3. g = [k \in D |-> redis[k]]
    BY <1>2 DEF Restrict
  <1>4. known' = With(known, g)
    BY <1>1, <1>2
  <1>5. /\ DOMAIN known' = DOMAIN known \cup D
        /\ \A k \in DOMAIN known : known'[k] = known[k]
        /\ \A k \in D \ DOMAIN known : known'[k] = redis[k]
    BY <1>3, <1>4 DEF With
  <1>6. \A k \in Unknown(s) : IsPlaceholder(k)
    BY Zenon DEF Unknown, Placeholders
  <1>7. ASSUME NEW k \in DOMAIN known' PROVE Entry(known', k) /\ IsPlaceholder(k)
    <2>1. CASE k \in DOMAIN known
      BY Zenon, <1>5, <2>1 DEF Lookups, Entry
    <2>2. CASE k \in D /\ k \notin DOMAIN known
      <3>1. k \in Unknown(s) /\ k \in DOMAIN redis
        BY <1>2, <2>2
      <3>2. Entry(redis, k) /\ known'[k] = redis[k]
        BY Zenon, <1>5, <2>2, <3>1 DEF Lookups
      <3> QED BY Zenon, <1>6, <3>1, <3>2 DEF Entry
    <2> QED BY <1>5, <2>1, <2>2
  <1>8. \A w \in queried' : IsPlaceholder(w)
    BY <1>1, <1>6 DEF Lookups
  <1>9. Lookups'
    BY Zenon, <1>7, <1>8 DEF Lookups, Entry
  <1>10. \A k \in DOMAIN known' \ DOMAIN known : k \in Unknown(s)
    BY <1>2, <1>5
  <1>11. DOMAIN known \cup queried \cup Placeholders(s) \subseteq DOMAIN known' \cup queried'
    BY <1>1, <1>5 DEF Unknown
  <1> QED BY <1>5, <1>9, <1>10, <1>11

---------------------------------------------------------------------------
(* The invariant of the text. *)
Course ==
    /\ Sendable(msg, block, offset)
    /\ phase \in {"start", "delta", "end", "closed"}
    /\ phase = "start" => offset = 0
    /\ phase = "delta" => block <= Len(msg)
    /\ textIndex \in 0..Len(msg)
    /\ textIndex = 0 => Received = <<>>
Shows(rec) ==
    /\ phase # "closed" => Split(rec, known, Visible, buffer)
    /\ phase = "closed" => buffer = <<>> /\ Visible = Replaced(rec, known)
TextInv ==
    /\ Course
    /\ Lookups
    /\ Placeholders(Received) \subseteq DOMAIN known \cup queried
    /\ Texts
    /\ Shows(Received)

LastTextOpen == phase = "delta" /\ msg[block].kind = "text" => textIndex = block

LEMMA ReceivedFacts ==
  ASSUME TextInv
  PROVE  Received \in Seq(Alphabet) /\ Mapping(known)
  <1>1. Received \in Seq(Alphabet)
    BY PartsFacts DEF TextInv, Course, Received
  <1> QED BY <1>1, KnownMapping DEF TextInv, Lookups

LEMMA TextInit == Init => TextInv
  <1> SUFFICES ASSUME Init PROVE TextInv
    OBVIOUS
  <1>1. /\ msg \in Messages /\ block = 1 /\ offset = 0 /\ phase = "start" /\ redis = Snapshot
        /\ known = Snapshot /\ queried = {} /\ buffer = <<>> /\ textIndex = 0 /\ out = <<>>
    BY DEF Init
  <1>2. /\ Len(msg) \in Nat
        /\ \A i \in 1..Len(msg) : msg[i].text \in Seq(Alphabet) /\ Len(msg[i].text) \in Nat
    BY <1>1, BlockFacts
  <1>3. Sendable(msg, block, offset)
    <2>1. 1 \in 1..(Len(msg) + 1) /\ 0 \in Nat
      BY <1>2
    <2>2. 1 <= Len(msg) => 0 <= Len(msg[1].text)
      <3> SUFFICES ASSUME 1 <= Len(msg) PROVE 0 <= Len(msg[1].text)
        OBVIOUS
      <3>1. 1 \in 1..Len(msg)
        BY <1>2
      <3>2. Len(msg[1].text) \in Nat
        BY <1>2, <3>1
      <3> QED BY <3>2
    <2> QED BY <1>1, <2>1, <2>2 DEF Sendable
  <1>4. Received = <<>>
    <2>1. PICK ss : ss = PartsOf(msg, block, offset)
      OBVIOUS
    <2>2. /\ ss \in Seq(Seq(Alphabet)) /\ Len(ss) = Len(msg)
          /\ \A i \in 1..Len(msg) : ss[i] = SentOf(msg, block, offset, i)
          /\ Received = FlattenSeq(ss)
      BY <1>3, <2>1, PartsFacts DEF Received
    <2>3. ASSUME NEW i \in 1..Len(msg) PROVE SentOf(msg, block, offset, i) = <<>>
      <3>1. SubSeq(msg[i].text, 1, 0) = <<>>
        BY SubSeqEmpty
      <3>2. i = 1 \/ i > 1
        BY <1>2
      <3> QED BY Zenon, <1>1, <3>1, <3>2 DEF SentOf
    <2>4. \A i \in 1..Len(ss) : ss[i] = <<>>
      BY Zenon, <2>2, <2>3
    <2> QED BY <2>2, <2>4, FlattenEmpties
  <1>5. Course
    BY <1>1, <1>2, <1>3, <1>4 DEF Course
  <1>6. Lookups
    BY Zenon, <1>1, MappingAssumption DEF Lookups, Entry
  <1>7. Placeholders(Received) = {}
    <2>1. ASSUME NEW k \in Placeholders(Received) PROVE FALSE
      <3>1. Len(<<>>) = 0 /\ <<>> \in Seq(Alphabet)
        BY EmptySeq
      <3>2. \E i \in 1..Len(<<>>) : StartsAt(<<>>, k, i)
        BY Zenon, <1>4, <2>1, <3>1, PlaceholderAt
      <3>3. 1..Len(<<>>) = {}
        BY <3>1
      <3> QED BY Zenon, <3>2, <3>3
    <2> QED BY <2>1
  <1>8. Texts
    <2>1. Sent /\ Len(<<>>) = 0
      BY <1>1, EmptySeq DEF Sent
    <2>2. \A i \in 1..Len(out) : FALSE
      BY <1>1, <2>1
    <2> QED BY <2>1, <2>2 DEF Texts
  <1>9. Shows(Received)
    <2>1. PICK ss : ss = ShownParts(out)
      OBVIOUS
    <2>2. Len(out) = 0
      BY <1>1, EmptySeq
    <2>3. ss \in Seq(Seq(Alphabet)) /\ Len(ss) = 0 /\ Visible = FlattenSeq(ss)
      BY <1>8, <2>1, <2>2, ShownFacts DEF Texts, ShownParts, Visible
    <2>4. Visible = <<>>
      <3>1. \A i \in 1..Len(ss) : ss[i] = <<>>
        BY <2>3
      <3> QED BY <2>3, <3>1, FlattenEmpties
    <2>5. Split(<<>>, known, <<>>, <<>>)
      BY <1>6, KnownMapping, EmptySplit DEF Lookups
    <2> QED BY Zenon, <1>1, <1>4, <2>4, <2>5 DEF Shows
  <1> QED BY <1>5, <1>6, <1>7, <1>8, <1>9 DEF TextInv

\* A step that leaves the text, what is known of it and what is held alone.
LEMMA QuietStep ==
  ASSUME TextInv, Course', Received' = Received, UNCHANGED <<known, queried, buffer>>,
         \A k \in DOMAIN redis' : Entry(redis', k), Texts', Visible' = Visible,
         phase # "closed", phase' # "closed"
  PROVE  TextInv'
  <1>1. Lookups'
    BY Zenon DEF TextInv, Lookups, Entry
  <1>2. Placeholders(Received') \subseteq DOMAIN known' \cup queried'
    BY Zenon DEF TextInv
  <1>3. Shows(Received)'
    BY Zenon DEF TextInv, Shows
  <1> QED BY Zenon, <1>1, <1>2, <1>3 DEF TextInv

LEMMA BlockStartText == ASSUME TextInv, BlockStart PROVE TextInv'
  <1>1. /\ phase = "start" /\ phase' = "delta" /\ block <= Len(msg)
        /\ msg' = msg /\ block' = block /\ offset' = offset /\ redis' = redis
        /\ known' = known /\ queried' = queried /\ buffer' = buffer
        /\ textIndex' = IF msg[block].kind = "text" THEN block ELSE textIndex
    BY DEF BlockStart
  <1>2. \E e : Send(e) /\ e.type # "text"
    BY DEF BlockStart
  <1>3. Texts' /\ Visible' = Visible
    BY <1>2, SendQuiet DEF TextInv
  <1>4. Received' = Received
    BY Zenon, <1>1 DEF Received
  <1>5. Course'
    <2>1. Sendable(msg', block', offset')
      BY Zenon, <1>1 DEF TextInv, Course
    <2>2. Len(msg) \in Nat /\ block \in 1..(Len(msg) + 1) /\ textIndex \in 0..Len(msg)
      BY BlockFacts DEF TextInv, Course, Sendable
    <2>3. textIndex' \in 0..Len(msg') /\ (textIndex' = 0 => textIndex = 0)
      BY <1>1, <2>2
    <2> QED BY Zenon, <1>1, <1>4, <2>1, <2>3 DEF TextInv, Course
  <1> QED BY <1>1, <1>3, <1>4, <1>5, QuietStep DEF TextInv, Lookups

LEMMA BlockStopText == ASSUME TextInv, BlockStop PROVE TextInv'
  <1>1. /\ phase = "delta" /\ phase' = "start" /\ offset = Len(msg[block].text)
        /\ msg' = msg /\ block' = block + 1 /\ offset' = 0 /\ redis' = redis
        /\ known' = known /\ queried' = queried /\ buffer' = buffer /\ textIndex' = textIndex
    BY DEF BlockStop, self
  <1>2. \E e : Send(e) /\ e.type # "text"
    BY DEF BlockStop
  <1>3. Texts' /\ Visible' = Visible
    BY <1>2, SendQuiet DEF TextInv
  <1>4. msg \in Messages /\ block \in 1..(Len(msg) + 1) /\ block <= Len(msg)
    BY <1>1 DEF TextInv, Course, Sendable
  <1>5. Len(msg) \in Nat /\ \A i \in 1..Len(msg) : Len(msg[i].text) \in Nat
    BY <1>4, BlockFacts
  <1>6. block \in 1..Len(msg)
    BY <1>4, <1>5
  <1>7. Received' = Received
    BY <1>1, <1>4, <1>6, StopText DEF Received
  <1>8. Course'
    <2>1. Sendable(msg, block + 1, 0)
      <3>1. block + 1 \in 1..(Len(msg) + 1) /\ 0 \in Nat
        BY <1>5, <1>6
      <3>2. block + 1 <= Len(msg) => 0 <= Len(msg[block + 1].text)
        BY <1>5, <1>6
      <3> QED BY <1>4, <3>1, <3>2 DEF Sendable
    <2> QED BY Zenon, <1>1, <1>7, <2>1 DEF TextInv, Course
  <1> QED BY <1>1, <1>3, <1>7, <1>8, QuietStep DEF TextInv, Lookups

LEMMA MessageStopText == ASSUME TextInv, MessageStop PROVE TextInv'
  <1>1. /\ phase = "start" /\ phase' = "end"
        /\ msg' = msg /\ block' = block /\ offset' = offset /\ redis' = redis
        /\ known' = known /\ queried' = queried /\ buffer' = buffer /\ textIndex' = textIndex
    BY DEF MessageStop, self
  <1>2. \E e : Send(e) /\ e.type # "text"
    BY DEF MessageStop
  <1>3. Texts' /\ Visible' = Visible
    BY <1>2, SendQuiet DEF TextInv
  <1>4. Received' = Received
    BY Zenon, <1>1 DEF Received
  <1>5. Course'
    BY Zenon, <1>1, <1>4 DEF TextInv, Course
  <1> QED BY <1>1, <1>3, <1>4, <1>5, QuietStep DEF TextInv, Lookups

\* Nothing is sent, and the upstream goes nowhere or ends.
LEMMA IdleText ==
  ASSUME TextInv, UNCHANGED <<msg, block, offset, known, queried, buffer, textIndex, out>>,
         \A k \in DOMAIN redis' : Entry(redis', k), phase # "closed",
         phase' = phase \/ phase' = "end"
  PROVE  TextInv'
  <1>1. Received' = Received /\ Visible' = Visible
    BY Zenon DEF Received, Visible
  <1>2. Texts'
    BY Zenon DEF TextInv, Texts, Sent
  <1>3. Course'
    BY Zenon, <1>1 DEF TextInv, Course
  <1> QED BY Zenon, <1>1, <1>2, <1>3, QuietStep

LEMMA UnchangedText == ASSUME TextInv, UNCHANGED vars PROVE TextInv'
  <1>1. /\ UNCHANGED <<msg, block, offset, known, queried, buffer, textIndex, out>>
        /\ redis' = redis /\ phase' = phase
    BY DEF vars, upstream, self
  <1>2. Received' = Received /\ Visible' = Visible
    BY Zenon, <1>1 DEF Received, Visible
  <1>3. Texts' /\ Lookups'
    BY Zenon, <1>1 DEF TextInv, Texts, Sent, Lookups, Entry
  <1>4. Course' /\ Shows(Received)'
    BY Zenon, <1>1, <1>2 DEF TextInv, Course, Shows
  <1> QED BY Zenon, <1>1, <1>2, <1>3, <1>4 DEF TextInv

LEMMA LateTokenText == ASSUME TextInv, NEW k \in DOMAIN Late, LateToken(k) PROVE TextInv'
  <1>1. /\ UNCHANGED <<msg, block, offset, known, queried, buffer, textIndex, out>>
        /\ phase # "closed" /\ phase' = phase
        /\ redis' = With(redis, Restrict(Late, {k}))
    BY DEF LateToken, upstream, self
  <1>2. Restrict(Late, {k}) = [x \in {k} |-> Late[x]]
    BY DEF Restrict
  <1>3. /\ DOMAIN redis' = DOMAIN redis \cup {k}
        /\ \A x \in DOMAIN redis : redis'[x] = redis[x]
        /\ k \notin DOMAIN redis => redis'[k] = Late[k]
    BY <1>1, <1>2 DEF With
  <1>4. ASSUME NEW x \in DOMAIN redis' PROVE Entry(redis', x)
    BY Zenon, <1>3 DEF TextInv, Lookups, Entry
  <1> QED BY Zenon, <1>1, <1>4, IdleText

LEMMA ClearText == ASSUME TextInv, Clear PROVE TextInv'
  <1>1. /\ UNCHANGED <<msg, block, offset, known, queried, buffer, textIndex, out>>
        /\ phase # "closed" /\ phase' = phase /\ redis' = [x \in {} |-> x]
    BY DEF Clear, upstream, self
  <1>2. \A k \in DOMAIN redis' : Entry(redis', k)
    BY Zenon, <1>1
  <1> QED BY Zenon, <1>1, <1>2, IdleText

LEMMA BreakText == ASSUME TextInv, Break PROVE TextInv'
  <1>1. /\ UNCHANGED <<msg, block, offset, known, queried, buffer, textIndex, out>>
        /\ phase # "closed" /\ phase' = "end" /\ redis' = redis
    BY DEF Break, self
  <1>2. \A k \in DOMAIN redis' : Entry(redis', k)
    BY Zenon, <1>1 DEF TextInv, Lookups, Entry
  <1> QED BY Zenon, <1>1, <1>2, IdleText

\* The text that n characters more make.
LEMMA ArrivesFacts ==
  ASSUME TextInv, NEW n \in Nat, Arrives(n), msg' = msg, block' = block
  PROVE  /\ Sendable(msg, block, offset) /\ Sendable(msg, block, offset + n)
         /\ Sendable(msg', block', offset') /\ Received' = TextUpTo(msg, block, offset + n)
         /\ block \in 1..Len(msg)
  <1>1. phase = "delta" /\ offset + n <= Len(msg[block].text) /\ offset' = offset + n
    BY DEF Arrives
  <1>2. Sendable(msg, block, offset) /\ block <= Len(msg)
    BY <1>1 DEF TextInv, Course
  <1>3. msg \in Messages /\ block \in 1..(Len(msg) + 1) /\ offset \in Nat
    BY <1>2 DEF Sendable
  <1>4. Len(msg) \in Nat
    BY <1>3, BlockFacts
  <1>5. block \in 1..Len(msg) /\ offset + n \in Nat
    BY <1>2, <1>3, <1>4
  <1>6. Sendable(msg, block, offset + n)
    BY Zenon, <1>1, <1>3, <1>5 DEF Sendable
  <1>7. Received' = TextUpTo(msg, block, offset + n)
    BY Zenon, <1>1 DEF Received
  <1> QED BY Zenon, <1>1, <1>2, <1>5, <1>6, <1>7

LEMMA ToolDeltaText == ASSUME TextInv, NEW n \in Nat, ToolDelta(n) PROVE TextInv'
  <1>1. /\ Arrives(n) /\ msg[block].kind = "tool_use" /\ phase' = phase
        /\ msg' = msg /\ block' = block /\ redis' = redis
        /\ known' = known /\ queried' = queried /\ buffer' = buffer /\ textIndex' = textIndex
    BY DEF ToolDelta, self
  <1>2. \E e : Send(e) /\ e.type # "text"
    BY DEF ToolDelta
  <1>3. Texts' /\ Visible' = Visible
    BY <1>2, SendQuiet DEF TextInv
  <1>4. Sendable(msg', block', offset') /\ Received' = TextUpTo(msg, block, offset + n)
    BY <1>1, ArrivesFacts
  <1>5. Received' = Received
    BY <1>1, <1>4, ToolText DEF Received
  <1>6. phase = "delta"
    BY <1>1 DEF Arrives
  <1>7. Course'
    BY Zenon, <1>1, <1>4, <1>5, <1>6 DEF TextInv, Course
  <1> QED BY <1>1, <1>3, <1>5, <1>6, <1>7, QuietStep DEF TextInv, Lookups

---------------------------------------------------------------------------
\* The tokens of what has been sent of a reply are apart.
LEMMA SentApart ==
  ASSUME NEW m, NEW b, NEW n, Sendable(m, b, n),
         NEW f, \A k \in DOMAIN f : Entry(f, k)
  PROVE  Apart(TextUpTo(m, b, n), f)
  <1>1. PICK t, y : t = TextUpTo(m, b, n) /\ Joins(FullText(m), t, y)
    BY PrefixText
  <1>2. m \in Messages
    BY DEF Sendable
  <1>3. Apart(FullText(m), Snapshot) /\ Apart(FullText(m), Late)
    BY Zenon, <1>2, ApartAssumption
  <1>4. /\ \A k \in DOMAIN Snapshot : k \in Seq(Alphabet)
        /\ \A k \in DOMAIN Late : k \in Seq(Alphabet)
    BY Zenon, MappingAssumption
  <1>5. Apart(t, Snapshot) /\ Apart(t, Late)
    BY <1>1, <1>3, <1>4, ApartFront
  <1> QED BY <1>1, <1>5, KnownApart

LEMMA TextDeltaText ==
  ASSUME TextInv, LastTextOpen, NEW n \in Nat, TextDelta(n)
  PROVE  TextInv'
  <1>1. /\ Arrives(n) /\ msg[block].kind = "text" /\ phase' = phase
        /\ msg' = msg /\ block' = block /\ redis' = redis /\ textIndex' = textIndex
        /\ Feed(Cut(n), block)
    BY DEF TextDelta
  <1>2. PICK t, s, x, r : /\ t = Received' /\ s = Received /\ x = Cut(n) /\ r = buffer \o Cut(n)
    OBVIOUS
  <1>3. /\ Sendable(msg, block, offset) /\ Sendable(msg, block, offset + n)
        /\ Sendable(msg', block', offset') /\ t = TextUpTo(msg, block, offset + n)
        /\ block \in 1..Len(msg)
    BY <1>1, <1>2, ArrivesFacts
  <1>4. Joins(t, s, x)
    <2>1. block <= Len(msg)
      BY <1>3
    <2> QED BY <1>1, <1>2, <1>3, <2>1, DeltaText DEF Received, Cut
  <1>5. phase = "delta" /\ phase # "closed"
    BY <1>1 DEF Arrives
  <1>6. Split(s, known, Visible, buffer)
    BY Zenon, <1>2, <1>5 DEF TextInv, Shows
  <1>7. r = buffer \o x
    BY <1>2
  <1>8. /\ Lookups' /\ DOMAIN known \subseteq DOMAIN known'
        /\ \A k \in DOMAIN known : known'[k] = known[k]
        /\ \A k \in DOMAIN known' \ DOMAIN known : k \in Unknown(r)
        /\ DOMAIN known \cup queried \cup Placeholders(r) \subseteq DOMAIN known' \cup queried'
    <2>1. Resolve(r) /\ Lookups
      BY <1>1, <1>2 DEF Feed, TextInv
    <2> QED BY <1>1, <2>1, ResolveFacts
  <1>9. /\ Mapping(known) /\ Mapping(known') /\ Apart(s, known)
        /\ DOMAIN known' \subseteq DOMAIN Snapshot \cup DOMAIN Late
    <2>1. \A k \in DOMAIN known' : Entry(known', k) /\ IsPlaceholder(k)
      BY <1>8 DEF Lookups
    <2>2. Mapping(known') /\ DOMAIN known' \subseteq DOMAIN Snapshot \cup DOMAIN Late
      BY <2>1, KnownMapping DEF Entry
    <2>3. Apart(s, known)
      BY <1>2, <1>3, SentApart DEF TextInv, Lookups, Received
    <2> QED BY <2>2, <2>3, ReceivedFacts
  <1>10. \A k \in DOMAIN known' \ DOMAIN known : k \notin Placeholders(s)
    BY Zenon, <1>2, <1>8 DEF Unknown, TextInv
  <1>11. PICK f, g, shown, held, u :
            f = known /\ g = known' /\ shown = Visible /\ held = buffer /\ u = Replaced(r, known')
    OBVIOUS
  <1>12. /\ Split(t, g, shown \o Ready(u), Held(u))
         /\ Ready(u) \in Seq(Alphabet)
         /\ Placeholders(t) \subseteq Placeholders(s) \cup Placeholders(r)
    <2>1. /\ Mapping(f) /\ Mapping(g) /\ Apart(s, f) /\ DOMAIN f \subseteq DOMAIN g
          /\ \A k \in DOMAIN f : g[k] = f[k]
          /\ \A k \in DOMAIN g \ DOMAIN f : k \notin Placeholders(s)
          /\ DOMAIN g \subseteq DOMAIN Snapshot \cup DOMAIN Late
          /\ r = held \o x /\ Split(s, f, shown, held)
      BY Zenon, <1>6, <1>7, <1>8, <1>9, <1>10, <1>11
    <2>2. Feeds(t, s, x, r, f, g, shown, held)
      BY SMT, <1>4, <2>1 DEF Feeds
    <2>3. u = Replaced(r, g)
      BY <1>11
    <2> QED BY <2>2, <2>3, FeedText
  <1>13. Send([type |-> "text", index |-> block, text |-> Ready(u)]) /\ buffer' = Held(u)
    BY <1>1, <1>2, <1>11 DEF Feed, Ready, Held
  <1>14. Texts' /\ Visible' = Visible \o Ready(u)
    <2>1. PICK e : e = [type |-> "text", index |-> block, text |-> Ready(u)]
      OBVIOUS
    <2>2. Send(e) /\ ShownBy(e) = Ready(u)
      BY <1>13, <2>1 DEF ShownBy
    <2>3. Texts
      BY DEF TextInv
    <2> QED BY <1>12, <2>2, <2>3, SendShows
  <1>15. Shows(Received)'
    <2>1. Split(t, known', Visible', buffer')
      BY Zenon, <1>11, <1>12, <1>13, <1>14
    <2> QED BY Zenon, <1>1, <1>2, <1>5, <2>1 DEF Shows
  <1>16. Placeholders(Received') \subseteq DOMAIN known' \cup queried'
    BY <1>2, <1>8, <1>12 DEF TextInv
  <1>17. Course'
    <2>1. textIndex \in 0..Len(msg) /\ textIndex # 0
      BY <1>1, <1>3, <1>5 DEF TextInv, Course, LastTextOpen
    <2> QED BY Zenon, <1>1, <1>3, <1>5, <2>1 DEF TextInv, Course
  <1> QED BY Zenon, <1>8, <1>14, <1>15, <1>16, <1>17 DEF TextInv

LEMMA FlushFinalText == ASSUME TextInv, FlushFinal PROVE TextInv'
  <1>1. /\ phase = "end" /\ phase' = "closed" /\ Resolve(buffer) /\ buffer' = <<>>
        /\ msg' = msg /\ block' = block /\ offset' = offset
        /\ redis' = redis /\ textIndex' = textIndex
    BY DEF FlushFinal
  <1>2. PICK s, b, g : s = Received /\ b = buffer /\ g = known'
    OBVIOUS
  <1>3. s \in Seq(Alphabet) /\ Mapping(known)
    BY <1>2, ReceivedFacts
  <1>4. /\ Joins(Replaced(s, known), Visible, b) /\ (b = <<>> \/ IsTail(b))
        /\ b \in Seq(Alphabet) /\ Visible \in Seq(Alphabet)
    <2>1. Split(s, known, Visible, b)
      BY Zenon, <1>1, <1>2 DEF TextInv, Shows
    <2> QED BY <2>1 DEF Split, Joins
  <1>5. Received' = s
    BY Zenon, <1>1, <1>2 DEF Received
  <1>6. /\ Lookups' /\ DOMAIN known \subseteq DOMAIN known'
        /\ \A k \in DOMAIN known : known'[k] = known[k]
        /\ \A k \in DOMAIN known' \ DOMAIN known : k \in Unknown(b)
        /\ DOMAIN known \cup queried \cup Placeholders(b) \subseteq DOMAIN known' \cup queried'
    <2>1. Resolve(b) /\ Lookups
      BY <1>1, <1>2 DEF TextInv
    <2> QED BY <1>1, <2>1, ResolveFacts
  <1>7. DOMAIN g = DOMAIN known
    <2>1. Placeholders(b) = {}
      BY <1>3, <1>4, HeldAsIs
    <2>2. Unknown(b) = {}
      BY <2>1 DEF Unknown
    <2> QED BY <1>2, <1>6, <2>2
  <1>8. Replaced(s, g) = Replaced(s, known)
    <2>1. \A k \in DOMAIN known : g[k] = known[k]
      BY <1>2, <1>6
    <2> QED BY <1>3, <1>7, <2>1, MoreTokens
  <1>9. Mapping(g)
    <2>1. \A k \in DOMAIN g : Entry(g, k) /\ IsPlaceholder(k)
      BY <1>2, <1>6 DEF Lookups
    <2> QED BY <2>1, KnownMapping
  <1>10. Replaced(b, g) = b
    BY <1>4, <1>9, HeldAsIs
  <1>11. Visible \o b = Replaced(s, g)
    BY <1>4, <1>8, ConcatJoins
  <1>12. Texts' /\ Visible' = Visible \o b
    <2>0. Texts
      BY DEF TextInv
    <2>1. CASE b = <<>> \/ textIndex = 0
      <3>1. b = <<>>
        <4>1. textIndex = 0 => s = <<>>
          BY <1>2 DEF TextInv, Course
        <4>2. ASSUME s = <<>> PROVE b = <<>>
          <5>1. PICK z : z = Replaced(s, known)
            OBVIOUS
          <5>2. z = <<>>
            BY Zenon, <1>3, <4>2, <5>1, EmptyReplaced
          <5>3. Len(z) = 0 /\ Len(b) \in Nat /\ Len(Visible) \in Nat
                /\ Len(z) = Len(Visible) + Len(b)
            BY <1>4, <5>1, <5>2, EmptySeq DEF Joins
          <5>4. Len(b) = 0
            BY <5>3
          <5> QED BY <1>4, <5>4, EmptySeq
        <4> QED BY <2>1, <4>1, <4>2
      <3>2. out' = out
        BY <1>1, <1>2, <1>10, <2>1 DEF FlushFinal
      <3>3. Visible' = Visible /\ Texts'
        BY Zenon, <2>0, <3>2 DEF Visible, Texts, Sent
      <3>4. Visible \o <<>> = Visible
        BY <1>4, ConcatEmptySeq
      <3> QED BY Zenon, <3>1, <3>3, <3>4
    <2>2. CASE ~(b = <<>> \/ textIndex = 0)
      <3>1. PICK e : e = [type |-> "text", index |-> textIndex, text |-> b]
        OBVIOUS
      <3>2. Send(e)
        BY <1>1, <1>2, <1>10, <2>2, <3>1 DEF FlushFinal
      <3>3. ShownBy(e) = b
        BY <3>1 DEF ShownBy
      <3> QED BY <1>4, <2>0, <3>2, <3>3, SendShows
    <2> QED BY <2>1, <2>2
  <1>13. Shows(Received)'
    <2>1. Visible' = Replaced(s, g)
      BY <1>11, <1>12
    <2> QED BY Zenon, <1>1, <1>2, <1>5, <2>1 DEF Shows
  <1>14. Placeholders(Received') \subseteq DOMAIN known' \cup queried'
    BY <1>2, <1>5, <1>6 DEF TextInv
  <1>15. Course'
    BY Zenon, <1>1, <1>2, <1>5 DEF TextInv, Course
  <1> QED BY Zenon, <1>6, <1>12, <1>13, <1>14, <1>15 DEF TextInv

---------------------------------------------------------------------------
(* The theorems. *)
StreamInv == OutInv /\ TextInv

LEMMA StreamInit == Init => StreamInv
  BY InitOK, TextInit DEF StreamInv

LEMMA StreamNext == StreamInv /\ [Next]_vars => StreamInv'
  <1> SUFFICES ASSUME OutInv, TextInv, [Next]_vars PROVE TextInv'
    BY StreamStep DEF StreamInv
  <1>1. ASSUME NEW n \in 1..MaxDelta, TextDelta(n) PROVE TextInv'
    <2>1. LastTextOpen /\ n \in Nat
      BY ConstAssumption DEF OutInv, LastIsOpen, LastTextOpen
    <2> QED BY <1>1, <2>1, TextDeltaText
  <1>2. ASSUME NEW n \in 1..MaxDelta, ToolDelta(n) PROVE TextInv'
    <2>1. n \in Nat
      BY ConstAssumption
    <2> QED BY <1>2, <2>1, ToolDeltaText
  <1>3. CASE BlockStart
    BY <1>3, BlockStartText
  <1>4. CASE BlockStop
    BY <1>4, BlockStopText
  <1>5. CASE MessageStop
    BY <1>5, MessageStopText
  <1>6. CASE Break
    BY <1>6, BreakText
  <1>7. CASE FlushFinal
    BY <1>7, FlushFinalText
  <1>8. ASSUME NEW k \in DOMAIN Late, LateToken(k) PROVE TextInv'
    BY <1>8, LateTokenText
  <1>9. CASE Clear
    BY <1>9, ClearText
  <1>10. CASE UNCHANGED vars
    BY <1>10, UnchangedText
  <1> QED BY <1>1, <1>2, <1>3, <1>4, <1>5, <1>6, <1>7, <1>8, <1>9, <1>10 DEF Next

\* However a reply is cut or breaks off, the text sent on, held text included,
\* belongs to a block the client has seen open and never goes back behind text
\* of a later block (proxy_deanonymizer.py:187-188, 219).
THEOREM TextInOrder == Spec => []SyntheticOnLastText
  <1>1. OutInv => SyntheticOnLastText
    BY DEF OutInv
  <1> QED BY <1>1, InitOK, StreamStep, PTL DEF Spec

\* The deanonymiser holds back no more than what may be the beginning of a
\* token, never a "[" that opens nothing, and its state keeps its shape
\* (proxy_deanonymizer.py:47, 122-130).
THEOREM StreamTypeCorrect == Spec => []TypeOK
  <1>1. StreamInv => TypeOK
    <2> SUFFICES ASSUME TextInv PROVE TypeOK
      BY DEF StreamInv
    <2>1. /\ msg \in Messages /\ block \in 1..(Len(msg) + 1) /\ offset \in Nat
          /\ phase \in {"start", "delta", "end", "closed"} /\ textIndex \in 0..Len(msg)
      BY Zenon DEF TextInv, Course, Sendable
    <2>2. DOMAIN known \subseteq DOMAIN Snapshot \cup DOMAIN Late
      BY Zenon DEF TextInv, Lookups, Entry
    <2>3. \A w \in queried : IsPlaceholder(w)
      BY Zenon DEF TextInv, Lookups
    <2>4. buffer \in Seq(Alphabet) /\ (buffer = <<>> \/ IsTail(buffer))
      <3>1. CASE phase # "closed"
        <4>1. Split(Received, known, Visible, buffer)
          BY Zenon, <3>1 DEF TextInv, Shows
        <4> QED BY <4>1 DEF Split, Joins
      <3>2. CASE phase = "closed"
        <4>1. buffer = <<>>
          BY Zenon, <3>2 DEF TextInv, Shows
        <4> QED BY Zenon, <4>1, EmptySeq
      <3> QED BY <3>1, <3>2
    <2> QED BY Zenon, <2>1, <2>2, <2>3, <2>4 DEF TypeOK
  <1> QED BY <1>1, StreamInit, StreamNext, PTL DEF Spec

\* Wherever a reply is cut, and whatever happens to the mapping while it
\* streams, what the user has seen plus what is held back is the whole text
\* with every token replaced (proxy_deanonymizer.py:91-131).
THEOREM CutsDoNotShow == Spec => []CutsInvisible
  <1>1. StreamInv => CutsInvisible
    <2> SUFFICES ASSUME TextInv PROVE CutsInvisible
      BY DEF StreamInv
    <2>1. PICK s : s = Received
      OBVIOUS
    <2>2. s \in Seq(Alphabet) /\ Mapping(known)
      BY <2>1, ReceivedFacts
    <2>3. CASE phase # "closed"
      <3>1. Split(s, known, Visible, buffer)
        BY Zenon, <2>1, <2>3 DEF TextInv, Shows
      <3> QED BY <2>1, <3>1, ConcatJoins DEF CutsInvisible, Split
    <2>4. CASE phase = "closed"
      <3>1. buffer = <<>> /\ Visible = Replaced(s, known)
        BY Zenon, <2>1, <2>4 DEF TextInv, Shows
      <3>2. Replaced(s, known) \o <<>> = Replaced(s, known)
        BY <2>2, PiecesType, ConcatEmptySeq
      <3> QED BY Zenon, <2>1, <3>1, <3>2 DEF CutsInvisible
    <2> QED BY <2>3, <2>4
  <1> QED BY <1>1, StreamInit, StreamNext, PTL DEF Spec

\* When the stream is closed, completed or broken off, nothing of the reply is
\* left behind (proxy_deanonymizer.py:133-143, 174-189).
THEOREM NothingIsWithheld == Spec => []NothingWithheld
  <1>1. StreamInv => NothingWithheld
    BY Zenon DEF StreamInv, TextInv, Shows, NothingWithheld
  <1> QED BY <1>1, StreamInit, StreamNext, PTL DEF Spec
===========================================================================
