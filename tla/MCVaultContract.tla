--------------------------- MODULE MCVaultContract --------------------------
EXTENDS VaultContract, TLC

(* The roster's first participant decides only which inputs funding wants, *)
(* and both kinds are on offer: the rest does not tell participants apart. *)
Alike == Permutations(Participants)
=============================================================================
