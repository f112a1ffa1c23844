---------------------------- MODULE Pseudonyms ----------------------------
(***************************************************************************)
(* What a pseudonym register promises, whatever stores it: a placeholder   *)
(* handed out for a value never denotes another one, and whatever can be   *)
(* resolved is something that was handed out.  A label's numbering may be  *)
(* lost by the store; from then on ("retired") its numbers may come again. *)
(***************************************************************************)
CONSTANTS Labels, Numbers, Values

VARIABLES
    denotes,    \* the pairs ever handed out: [token, value]
    published,  \* the pairs the store can resolve now
    retired     \* labels whose numbering the store has lost

vars == <<denotes, published, retired>>

Init == denotes = {} /\ published = {} /\ retired = {}

\* A number not in use under the label is given to a value.
Allocate(l, n, v) ==
    /\ l \in retired \/ \A p \in denotes : p.token # <<l, n>>
    /\ denotes' = denotes \cup {[token |-> <<l, n>>, value |-> v]}
    /\ UNCHANGED <<published, retired>>

\* What was handed out becomes resolvable, possibly in place of another pair.
Publish ==
    /\ published' \subseteq denotes
    /\ UNCHANGED <<denotes, retired>>

\* Resolvable pairs disappear, and with them perhaps some numbering.
Lose ==
    /\ published' \subseteq published
    /\ retired \subseteq retired'
    /\ retired' \subseteq Labels
    /\ UNCHANGED denotes

Next ==
    \/ \E l \in Labels, n \in Numbers, v \in Values : Allocate(l, n, v)
    \/ Publish
    \/ Lose

Spec == Init /\ [][Next]_vars
===========================================================================
