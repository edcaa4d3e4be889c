------------------------------- MODULE Energy -------------------------------
(***************************************************************************)
(* Sums over the entries of the `households` object of                     *)
(* netting-entity/utility.js.  The object is modelled by the sequence of   *)
(* its keys in insertion order (the order Object.entries follows) and a    *)
(* function from addresses to meter deltas.                                *)
(***************************************************************************)
EXTENDS Integers, Sequences

(* The accumulating for-loops of _getProducersConsumers: the sum of v over *)
(* the keys, in order.  A recursive function, so that it can be unrolled   *)
(* in a proof.                                                             *)
SumOver(order, v) ==
  LET s[k \in 0..Len(order)] == IF k = 0 THEN 0 ELSE s[k - 1] + v[order[k]]
  IN  s[Len(order)]

Positive(x) == IF x > 0 THEN x ELSE 0
Negative(x) == IF x < 0 THEN x ELSE 0
Magnitude(x) == IF x < 0 THEN -x ELSE x

(* deltaProducers (>= 0) and deltaConsumers (<= 0).                        *)
Produced(order, v) == SumOver(order, [a \in DOMAIN v |-> Positive(v[a])])
Consumed(order, v) == SumOver(order, [a \in DOMAIN v |-> Negative(v[a])])

Keys(order) == {order[k] : k \in 1..Len(order)}

(* The specification of settle() on the deltas: nothing is created or      *)
(* lost, and who is on the side that the other can serve in full, or had   *)
(* nothing, is left with nothing.                                          *)
Served(order, v, a) ==
  \/ v[a] > 0 /\ Produced(order, v) <= -Consumed(order, v)
  \/ v[a] < 0 /\ -Consumed(order, v) <= Produced(order, v)

Nets(order, v, w) ==
  /\ DOMAIN w = DOMAIN v
  /\ SumOver(order, w) = SumOver(order, v)
  /\ \A a \in Keys(order) : Served(order, v, a) \/ v[a] = 0 => w[a] = 0
=============================================================================
