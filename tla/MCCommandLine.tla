---------------------------- MODULE MCCommandLine ---------------------------
EXTENDS CommandLine

CONSTANTS pa, pb, pc, vault, pair, payout

(* A vault, the vault of a pair after an honest withdrawal, and a payout.  *)
Coins ==
    [o \in {vault, pair, payout} |->
        CASE o = vault  -> Output({pa, pb, pc}, 30000)
          [] o = pair   -> Output({pa, pb}, 20200)
          [] o = payout -> Output({pa}, 9500)]

(* Each coin as it is; the vault with the sats of the pair, and the other  *)
(* way round.                                                              *)
Mistyped ==
    {[coin |-> o, claimed |-> Coins[o]] : o \in {vault, pair, payout}}
        \cup {[coin |-> vault, claimed |-> Output({pa, pb, pc}, 20200)],
              [coin |-> pair,  claimed |-> Output({pa, pb, pc}, 30000)]}

(* The wrong ones are wrong enough for the audits.                         *)
ASSUME MistypedTells == \A typed \in Mistyped : Telling(typed)

MyContexts == {context \in ExitContexts : Me \in context.claimed.to}

(* The specification does not tell the members of these sets apart.        *)
Alike == Permutations(Processes) \cup Permutations(Paths)
            \cup Permutations(Nonces) \cup Permutations(Sessions)
=============================================================================
