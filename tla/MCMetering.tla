----------------------------- MODULE MCMetering -----------------------------
(* A finite instance of Metering: a household whose first reading needs    *)
(* more than a new channel's funds, and whose second one goes the other    *)
(* way.                                                                    *)
EXTENDS Metering, TLC

CONSTANTS h1, r1, r2, k1, k2

One == {h1}
OrderOne == <<h1>>
Two == {r1, r2}
PartsOfTwo == Two \X {1, 2}
OfOne == [r \in Reading |-> h1]
UpDown == r1 :> 3 @@ r2 :> -1
TwoChannels == {k1, k2}
Small == -3..3
=============================================================================
