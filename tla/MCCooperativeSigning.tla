------------------------ MODULE MCCooperativeSigning ------------------------
(* Two signers, one of them with a second tab, and a proposal that may     *)
(* follow an expired one.                                                  *)
EXTENDS CooperativeSigning, TLC

CONSTANTS alice, bob, a1, a2, b1, p1, p2

Owner == (a1 :> alice) @@ (a2 :> alice) @@ (b1 :> bob)
Nonces == (alice :> 1) @@ (bob :> 2)
Symmetry == Permutations(Proposals) \cup Permutations({a1, a2})
=============================================================================
