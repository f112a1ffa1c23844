-------------------------- MODULE MCStreamDeanon --------------------------
(* StreamDeanon on small instances; the values are those of each .cfg. *)
EXTENDS StreamDeanon

P1 == <<"[", "P", "_", "1", "]">>
P11 == <<"[", "P", "_", "1", "1", "]">>
Q2 == <<"[", "Q", "_", "2", "]">>
Text(t) == [kind |-> "text", text |-> t]
Tool(t) == [kind |-> "tool_use", text |-> t]

SnapshotP == [k \in {P1, P11} |-> IF k = P1 THEN <<"v">> ELSE <<"P", "P">>]
LateQ == [k \in {Q2} |-> <<"w">>]

\* Tokens side by side, one the prefix of another, a token met twice of which
\* the second may be created meanwhile, brackets that open nothing, a token whose
\* value looks like the beginning of one behind a bracket.
OneBlock == {<<Text(P1 \o P11 \o <<"x">>)>>,
             <<Text(Q2 \o <<"x">> \o Q2)>>,
             <<Text(<<"[", "x", "]", "[", "P", "x", "[">> \o P1)>>,
             <<Text(<<"x", "[", "[">> \o P1 \o <<"[", "P", "P", "_">>)>>,
             <<Text(<<"[">> \o P11 \o <<"_", "1", "]">> \o P1)>>}

\* Several blocks, some ending with what may be the beginning of a token.
Blocks == {<<Text(P1 \o <<"[">>), Tool(<<"x">>), Text(<<"x">> \o Q2)>>,
           <<Text(<<"x", "[", "P">>), Text(<<"_", "1", "]", "[">>)>>,
           <<Tool(P1), Text(<<"x", "[">>)>>}

Replies == OneBlock \cup Blocks
===========================================================================
