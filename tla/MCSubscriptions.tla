--------------------------- MODULE MCSubscriptions ---------------------------
(* Small instances of Subscriptions for TLC. *)
EXTENDS Subscriptions

CONSTANTS t1, t2, k1, k2, a, inline, detached

\* The inline sink asks for everything, the detached one for one key.
PlansOfTwo == [s \in {inline, detached} |-> IF s = inline THEN {k1, k2} ELSE {k1}]

\* Lists over two keys that come and go.
ListsOfTwo ==
  {AssertKeyed(k1, a) \o AssertKeyed(k2, a), RetractKey(k1), RetractKey(k2)}

=============================================================================
