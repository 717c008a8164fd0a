--------------------------- MODULE MCSigbashKeys ----------------------------
(***************************************************************************)
(* An instance of SigbashKeys for TLC: one of the three participants, and  *)
(* the command over three slots of two participants.                       *)
(***************************************************************************)
EXTENDS SigbashKeys

CONSTANTS pair1, pair2, all, alice, bob

TwoPairs == <<pair1, pair2>>
ThreeSlots == <<[who |-> alice, round |-> pair1], [who |-> bob, round |-> pair1],
                [who |-> alice, round |-> all]>>

Symmetry == Permutations(Pages) \cup Permutations(Orgs \ {Operator}) \cup Permutations(Terms)
=============================================================================
