---------------------------- MODULE MCVaultStore ----------------------------
(***************************************************************************)
(* A vault of three spends for TLC: the two competing first exits of a     *)
(* round (alice's and bob's solo withdrawals), and the cooperative exit of *)
(* the coin alice's leaves behind, which closes the vault.                 *)
(***************************************************************************)
EXTENDS VaultStore, TLC

CONSTANTS fund, soloA, soloB, coopA

BlockSymmetry == Permutations(Blocks)
MCSpends == {soloA, soloB, coopA}
MCTerminal == {coopA}
MCInputOf == (soloA :> fund @@ soloB :> fund @@ coopA :> soloA)
=============================================================================
