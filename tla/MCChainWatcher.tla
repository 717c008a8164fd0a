--------------------------- MODULE MCChainWatcher ---------------------------
(***************************************************************************)
(* Instances of ChainWatcher for TLC: `first' and `rival' are competing    *)
(* exits of the funded coin, `next' is the exit of the coin `first' leaves *)
(* behind, which closes the vault.                                         *)
(***************************************************************************)
EXTENDS ChainWatcher, TLC

CONSTANTS fund, first, rival, next

ChainOfTwo == (first :> fund @@ next :> first)
OneSpend == (first :> fund)
Rivals == (first :> fund @@ rival :> fund)
MCBlocks == (1 .. MaxHeight) \X (0 .. MaxForks)
=============================================================================
