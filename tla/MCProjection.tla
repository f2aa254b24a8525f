---------------------------- MODULE MCProjection ----------------------------
(***************************************************************************)
(* Instances of Projection for TLC.                                        *)
(***************************************************************************)
EXTENDS Projection, TLC

CONSTANTS a1, o1, p1, p2, c1, c2, r1

TwoNames == (p1 :> "node-1") @@ (p2 :> "node-2")
Consumers == Permutations({c1, c2})
OneNode == p1 :> "node-1"

=============================================================================
