---------------------------- MODULE MCVaultSetup ----------------------------
(***************************************************************************)
(* An instance of VaultSetup for TLC with the three seats of the program.  *)
(***************************************************************************)
EXTENDS VaultSetup, TLC

MCLeaveRounds ==
    [p \in Participants |->
        CASE p = "alice" -> <<"abc", "ab", "ac">>
          [] p = "bob" -> <<"abc", "ab", "bc">>
          [] OTHER -> <<"abc", "ac", "bc">>]
=============================================================================
