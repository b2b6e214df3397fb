---------------------------- MODULE MCForwarder -----------------------------
(* Small instances of Forwarder for TLC.                                    *)
EXTENDS Forwarder, TLC

CONSTANTS a, b, c1, c2

Pair == {<<a, b>>}
IdSymmetry == Permutations(Ids)
OneLength == c1 :> 16
TwoLengths == c1 :> 16 @@ c2 :> 24
=============================================================================
