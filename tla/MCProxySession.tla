-------------------------- MODULE MCProxySession --------------------------
(* ProxySession on small instances; the values are those of each .cfg. *)
EXTENDS ProxySession, TLC

CONSTANTS ann, bob, cyd

Text(v) == [kind |-> "text", value |-> v]
Other(k) == [kind |-> k, value |-> ann]

\* One text each, and a second turn that repeats the first.
TwoTexts == {<<Text(ann)>>, <<Text(bob)>>, <<Text(ann), Text(bob)>>}

\* Enough different texts to fill the hash cache.
ThreeTexts == {<<Text(v)>> : v \in {ann, bob, cyd}} \cup {<<Text(ann), Text(bob), Text(cyd)>>}

\* A text beside a part of every other kind; a body that is not JSON is one.
Mixed == {<<Text(ann), Other(k)>> : k \in Kinds \ {"text", "system", "malformed"}}
         \cup {<<Other("other"), Text(bob)>>, <<Other("system"), Text(ann)>>,
               <<Other("malformed")>>}

Symmetry == Permutations(Requests)
===========================================================================
