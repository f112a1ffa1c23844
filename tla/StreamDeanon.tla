--------------------------- MODULE StreamDeanon ---------------------------
(***************************************************************************)
(* sidecar/proxy_deanonymizer.py: StreamDeanonymizer turns the tokens of a *)
(* streamed reply back into values although the reply arrives cut anywhere.*)
(*                                                                         *)
(* Text is a sequence of characters of a small alphabet, one per class the *)
(* two regular expressions tell apart: "[", "]", "_", capitals, digits and *)
(* the rest; where a text is cut is what the properties are about.  The    *)
(* upstream (external) sends the blocks of a message as SSE events and     *)
(* cuts each block's text into deltas of any size.  The bytes of an event  *)
(* are handled once its delimiter is in, so cuts within an event are not   *)
(* visible, except where the stream breaks off.                            *)
(*                                                                         *)
(* An operator Mut... is a faulty variant of the definition that follows,  *)
(* put in its place to confirm that a property notices the fault.          *)
(***************************************************************************)
EXTENDS Integers, Sequences, SequencesExt

CONSTANTS
    Capitals,    \* the characters of [A-Z]
    Digits,      \* the characters of \d
    Others,      \* characters in neither, brackets and underscore apart
    Messages,    \* replies: sequences of blocks [kind, text]
    Snapshot,    \* the mapping read when the response began: token -> value
    Late,        \* tokens that may enter Redis while it streams
    MaxDelta,    \* bound: characters of one delta
    Events       \* which of EventKinds happen in this instance

EventKinds == {"error", "clear", "break"}
Brackets == {"[", "]"}
Underscore == "_"
Alphabet == Capitals \cup Digits \cup Others \cup Brackets \cup {Underscore}

ASSUME AlphabetAssumption ==
    /\ \A S \in {Capitals, Digits, Others} : S \cap (Brackets \cup {Underscore}) = {}
    /\ Capitals \cap Digits = {} /\ Capitals \cap Others = {} /\ Digits \cap Others = {}

ASSUME ConstAssumption ==
    /\ Messages \subseteq Seq([kind : {"text", "tool_use"}, text : Seq(Alphabet)])
    /\ MaxDelta \in Nat \ {0}
    /\ Events \subseteq EventKinds

---------------------------------------------------------------------------
(* The regular expressions, and what they find. *)
WordPart(w, from, to) == \A i \in from..to : w[i] \in Capitals \cup {Underscore}
Number(w, from, to) == \A i \in from..to : w[i] \in Digits

\* _PLACEHOLDER_FULL on the whole of w
IsPlaceholder(w) ==
    /\ Len(w) >= 5
    /\ w[1] = "[" /\ w[2] \in Capitals /\ w[Len(w)] = "]"
    /\ \E k \in 3..(Len(w) - 2) : /\ w[k] = Underscore
                                  /\ WordPart(w, 3, k - 1)
                                  /\ Number(w, k + 1, Len(w) - 1)

\* _PLACEHOLDER_TAIL on the whole of w
MutIsTailAfterBracket(w) ==
    /\ Len(w) >= 2
    /\ w[1] = "[" /\ w[2] \in Capitals
    /\ \E k \in 2..Len(w) : /\ WordPart(w, 3, k)
                            /\ Number(w, k + 1, Len(w))
                            /\ k < Len(w) => k > 2 /\ w[k] = Underscore
IsTail(w) ==
    /\ Len(w) >= 1
    /\ w[1] = "["
    /\ Len(w) > 1 =>
          /\ w[2] \in Capitals
          /\ \E k \in 2..Len(w) : /\ WordPart(w, 3, k)
                                  /\ Number(w, k + 1, Len(w))
                                  /\ k < Len(w) => k > 2 /\ w[k] = Underscore

Slice(s) == {SubSeq(s, i, j) : i \in DOMAIN s, j \in DOMAIN s}
Placeholders(s) == {w \in Slice(s) : IsPlaceholder(w)}

\* Where the tail to hold back begins: a tail has one "[", its first character.
HoldFrom(s) ==
    IF \E i \in DOMAIN s : IsTail(SubSeq(s, i, Len(s)))
    THEN CHOOSE i \in DOMAIN s : IsTail(SubSeq(s, i, Len(s)))
    ELSE Len(s) + 1

\* str.replace of every token of f in s: tokens do not overlap, and no value
\* makes another token (MappingAssumption, ApartAssumption), so the order in
\* which tokens are replaced is immaterial.
StartsAt(s, k, i) ==
    i + Len(k) - 1 <= Len(s) /\ SubSeq(s, i, i + Len(k) - 1) = k
TokensAt(s, f, i) == {k \in DOMAIN f : StartsAt(s, k, i)}
Covered(s, f, i) == \E j \in 1..i : \E k \in TokensAt(s, f, j) : i < j + Len(k)
Piece(s, f, i) ==
    IF TokensAt(s, f, i) # {} THEN f[CHOOSE k \in TokensAt(s, f, i) : TRUE]
    ELSE IF Covered(s, f, i) THEN <<>> ELSE <<s[i]>>
Replaced(s, f) == FlattenSeq([i \in 1..Len(s) |-> Piece(s, f, i)])

---------------------------------------------------------------------------
(* What the replies and the mappings are taken to be. *)

\* The text of reply m when n characters of its block b have been sent.
SentOf(m, b, n, i) ==
    IF m[i].kind # "text" \/ i > b THEN <<>>
    ELSE IF i = b THEN SubSeq(m[i].text, 1, n) ELSE m[i].text
TextUpTo(m, b, n) == FlattenSeq([i \in 1..Len(m) |-> SentOf(m, b, n, i)])
FullText(m) == TextUpTo(m, Len(m) + 1, 0)

\* Values hold no bracket.  The tokens of the snapshot are of the form the
\* regular expressions know; those found while the reply streams are by
\* construction.
ASSUME MappingAssumption ==
    /\ \A f \in {Snapshot, Late} :
          /\ f = [k \in DOMAIN f |-> f[k]]
          /\ \A k \in DOMAIN f : k \in Seq(Alphabet) /\ f[k] \in Seq(Alphabet \ Brackets)
    /\ \A k \in DOMAIN Snapshot : IsPlaceholder(k)

\* A token right behind an unfinished one, as in "[[P_1]_2]": what replaces it
\* does not make the unfinished one the beginning of a token of this user's.
Apart(t, f) ==
    \A i \in DOMAIN t : \A j \in i..(Len(t) - 1) : \A k \in TokensAt(t, f, j + 1) :
        IsTail(SubSeq(t, i, j)) =>
            \A w \in DOMAIN Snapshot \cup DOMAIN Late : ~StartsAt(w, SubSeq(t, i, j) \o f[k], 1)
ASSUME ApartAssumption ==
    \A m \in Messages : Apart(FullText(m), Snapshot) /\ Apart(FullText(m), Late)

VARIABLES
    msg,       \* the reply
    block,     \* the block the upstream is sending
    offset,    \* characters of it already sent
    phase,     \* "start", "delta" or "stop" event comes next; "end"; "closed"
    redis,     \* hash mapping:{user}, as the lookup sees it
    known,     \* _tokens and _known
    queried,   \* _queried
    buffer,    \* _buffer
    textIndex, \* _last_text_index, 0 for None
    out        \* events sent on to the client

upstream == <<msg, block, offset, phase>>
self == <<known, queried, buffer, textIndex>>
vars == <<upstream, redis, self, out>>

---------------------------------------------------------------------------
Init ==
    /\ msg \in Messages
    /\ block = 1
    /\ offset = 0
    /\ phase = "start"
    /\ redis = Snapshot
    /\ known = Snapshot
    /\ queried = {}
    /\ buffer = <<>>
    /\ textIndex = 0
    /\ out = <<>>

Send(e) == out' = Append(out, e)

\* _resolve_unknowns on s: every complete placeholder that is neither known nor
\* queried is looked up once; a miss or an error counts as queried.
Unknown(s) == Placeholders(s) \ (DOMAIN known \cup queried)

With(f, g) == [k \in DOMAIN f \cup DOMAIN g |-> IF k \in DOMAIN f THEN f[k] ELSE g[k]]

Resolve(s) ==
    \E failed \in IF "error" \in Events THEN SUBSET Unknown(s) ELSE {{}} :
       /\ known' = With(known, Restrict(redis, (Unknown(s) \cap DOMAIN redis) \ failed))
       /\ queried' = queried \cup Unknown(s)

\* feed, and the text_delta event that carries its result (an empty chunk
\* changes nothing, and is left out of the model)
Feed(text, index) ==
    LET raw == buffer \o text
    IN /\ Resolve(raw)
       /\ LET s == Replaced(raw, known')
              h == HoldFrom(s)
          IN /\ Send([type |-> "text", index |-> index, text |-> SubSeq(s, 1, h - 1)])
             /\ buffer' = SubSeq(s, h, Len(s))

\* content_block_start: the index of a text block is remembered.
MutBlockStartKeepsFirst ==
    /\ phase = "start"
    /\ block <= Len(msg)
    /\ textIndex' = IF msg[block].kind = "text" /\ textIndex = 0 THEN block ELSE textIndex
    /\ Send([type |-> "start", index |-> block, text |-> <<>>])
    /\ phase' = "delta"
    /\ UNCHANGED <<msg, block, offset, redis, known, queried, buffer>>
MutBlockStartNextIndex ==
    /\ phase = "start"
    /\ block <= Len(msg)
    /\ textIndex' = IF msg[block].kind = "text" THEN block + 1 ELSE textIndex
    /\ Send([type |-> "start", index |-> block, text |-> <<>>])
    /\ phase' = "delta"
    /\ UNCHANGED <<msg, block, offset, redis, known, queried, buffer>>
BlockStart ==
    /\ phase = "start"
    /\ block <= Len(msg)
    /\ textIndex' = IF msg[block].kind = "text" THEN block ELSE textIndex
    /\ Send([type |-> "start", index |-> block, text |-> <<>>])
    /\ phase' = "delta"
    /\ UNCHANGED <<msg, block, offset, redis, known, queried, buffer>>

\* The next n characters of the block come as one delta.
Cut(n) == SubSeq(msg[block].text, offset + 1, offset + n)
Arrives(n) ==
    /\ phase = "delta"
    /\ offset + n <= Len(msg[block].text)
    /\ offset' = offset + n

TextDelta(n) ==
    /\ Arrives(n)
    /\ msg[block].kind = "text"
    /\ Feed(Cut(n), block)
    /\ UNCHANGED <<msg, block, phase, redis, textIndex>>

\* input_json_delta: the arguments of a tool call pass as they are.
ToolDelta(n) ==
    /\ Arrives(n)
    /\ msg[block].kind = "tool_use"
    /\ Send([type |-> "json", index |-> block, text |-> Cut(n)])
    /\ UNCHANGED <<msg, block, phase, redis, self>>

\* content_block_stop passes as it is, whatever is held back.
BlockStop ==
    /\ phase = "delta"
    /\ offset = Len(msg[block].text)
    /\ Send([type |-> "stop", index |-> block, text |-> <<>>])
    /\ block' = block + 1
    /\ offset' = 0
    /\ phase' = "start"
    /\ UNCHANGED <<msg, redis, self>>

MessageStop ==
    /\ phase = "start"
    /\ block > Len(msg)
    /\ Send([type |-> "message_stop", index |-> 0, text |-> <<>>])
    /\ phase' = "end"
    /\ UNCHANGED <<msg, block, offset, redis, self>>

\* The upstream breaks off between two events.
Break ==
    /\ "break" \in Events
    /\ phase \in {"start", "delta"}
    /\ phase' = "end"
    /\ UNCHANGED <<msg, block, offset, redis, self, out>>

\* flush_final_sse: what is still held goes out as a delta of its own, on the
\* last text block, or is dropped when there was none.
MutFlushDrops ==
    /\ phase = "end"
    /\ phase' = "closed"
    /\ buffer' = <<>>
    /\ UNCHANGED <<msg, block, offset, redis, known, queried, textIndex, out>>
FlushFinal ==
    /\ phase = "end"
    /\ phase' = "closed"
    /\ Resolve(buffer)
    /\ LET final == Replaced(buffer, known')
       IN IF final = <<>> \/ textIndex = 0
          THEN UNCHANGED out
          ELSE Send([type |-> "text", index |-> textIndex, text |-> final])
    /\ buffer' = <<>>
    /\ UNCHANGED <<msg, block, offset, redis, textIndex>>

---------------------------------------------------------------------------
\* Other requests create a token, or DELETE /mapping empties the hash.
LateToken(k) ==
    /\ k \in DOMAIN Late \ DOMAIN redis
    /\ phase # "closed"
    /\ redis' = With(redis, Restrict(Late, {k}))
    /\ UNCHANGED <<upstream, self, out>>

Clear ==
    /\ "clear" \in Events
    /\ phase # "closed"
    /\ redis' = [x \in {} |-> x]
    /\ UNCHANGED <<upstream, self, out>>

Next ==
    \/ BlockStart \/ BlockStop \/ MessageStop \/ Break \/ FlushFinal
    \/ \E n \in 1..MaxDelta : TextDelta(n) \/ ToolDelta(n)
    \/ \E k \in DOMAIN Late : LateToken(k)
    \/ Clear

Spec == Init /\ [][Next]_vars

---------------------------------------------------------------------------
(* Properties. *)
ShownBy(e) == IF e.type = "text" THEN e.text ELSE <<>>
Visible == FlattenSeq([i \in 1..Len(out) |-> ShownBy(out[i])])

\* The text of the reply received so far, as the upstream wrote it.
Received == TextUpTo(msg, block, offset)

\* Every variable keeps the shape the code gives it; what is held back is the
\* possible beginning of a token, so that the "[" of a link delays nothing.
TypeOK ==
    /\ msg \in Messages
    /\ block \in 1..(Len(msg) + 1)
    /\ offset \in Nat
    /\ phase \in {"start", "delta", "end", "closed"}
    /\ DOMAIN known \subseteq DOMAIN Snapshot \cup DOMAIN Late
    /\ \A w \in queried : IsPlaceholder(w)
    /\ buffer \in Seq(Alphabet)
    /\ buffer = <<>> \/ IsTail(buffer)
    /\ textIndex \in 0..Len(msg)

\* However the reply is cut, and whatever happens to the mapping meanwhile,
\* what the user has seen plus what is held back is the whole text received
\* with every token replaced, each token everywhere alike.
CutsInvisible == Visible \o buffer = Replaced(Received, known)

\* At the end nothing is left behind.
NothingWithheld == phase = "closed" => Visible = Replaced(Received, known)

\* The index put on held text is that of a block the client has seen open,
\* the last text block: the text does not jump back over a later block.
SyntheticOnLastText ==
    \A i \in DOMAIN out : out[i].type = "text" =>
        /\ \E j \in 1..(i - 1) : out[j].type = "start" /\ out[j].index = out[i].index
        /\ \A j \in 1..(i - 1) : out[j].type = "text" => out[j].index <= out[i].index
===========================================================================
