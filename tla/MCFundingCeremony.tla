------------------------- MODULE MCFundingCeremony -------------------------
(***************************************************************************)
(* Small instances of FundingCeremony.  Participants are not               *)
(* interchangeable in the code (alice, bob, carol), nor need they be: the  *)
(* model treats them alike, so their permutations are a symmetry, like     *)
(* those of the outputs and of the operator's runs.                        *)
(***************************************************************************)
EXTENDS FundingCeremony, TLC

CONSTANTS alice, bob, carol, u1, u2, u3, o1, o2

Symmetry ==
    Permutations(Participants) \cup Permutations(Utxos) \cup Permutations(Operators)
=============================================================================
