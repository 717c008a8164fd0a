---------------------------- MODULE VaultContract ---------------------------
(***************************************************************************)
(* A funded vault as its participants meet it: the coin on the chain, the  *)
(* ways out of it, and the recoveries being signed meanwhile.              *)
(***************************************************************************)
EXTENDS RecoverySigning

ContractInit == SpendingInit /\ SigningInit

(* When the coin of a round is spent the proposals for it become stale,    *)
(* and a ceremony that was under way goes on.                              *)
SpendAround ==
    /\ SpendingNext
    /\ recovery' = IF round' = round /\ phase' = phase THEN recovery ELSE NoRecovery
    /\ UNCHANGED <<observation, ceremony>>

ContractNext == SpendAround \/ SigningNext

ContractSpec == ContractInit /\ [][ContractNext]_<<spending, signing>>
=============================================================================
