---------------------------- MODULE CommandFiles ----------------------------
(***************************************************************************)
(* What the command line's signing commands make of the files and the      *)
(* arguments they are given.  Files go from hand to hand, and people err:  *)
(* a command may be given any file a builder can have written, any round,  *)
(* any vanished participant, and a coin that is not as typed.  Only what   *)
(* the command reports as finished counts.                                 *)
(*                                                                         *)
(* No command but those of MuSig2 (CommandSigning) keeps anything, so what *)
(* can be made of shares does not depend on when they were made.           *)
(***************************************************************************)
EXTENDS VaultTransactions

CONSTANTS
    Typed,         \* the coins that operators type, right and wrong ones
    Nobody

ASSUME TypedCoins ==
    Typed \subseteq [coin : Outpoints, claimed : [to : SUBSET Participants, sats : Nat]]

(* Files the builders write, for coins typed right or wrong.               *)
BuiltFiles ==
    LET Built(round, typed) ==
            {SoloPsbt(round, p, typed.coin, typed.claimed.sats) :
                p \in {q \in round : CanBuildSolo(round, q, typed.claimed.sats)}}
            \cup {psbt \in {CooperativePsbt(round, typed.coin, typed.claimed.sats)} :
                    CanBuildCooperative(round, typed.claimed.sats)}
            \cup {psbt \in {RecoveryPsbt(round, typed.coin, typed.claimed.sats)} :
                    CanBuildRecovery(round, typed.claimed.sats)}
    IN  UNION {Built(round, typed) : round \in VaultRounds, typed \in Typed}

-----------------------------------------------------------------------------
(* Recovery: shares, each made on its signer's machine, and anyone who     *)
(* combines them.                                                          *)

CanShare(p, vanished, psbt, typed) ==
    /\ AuthorizedRecovery(typed.claimed.to, vanished, psbt, typed)
    /\ p # vanished
    /\ p \in typed.claimed.to

ShareOf(p, vanished, psbt) ==
    [ by        |-> p,
      round     |-> psbt.claimed.to,
      vanished  |-> vanished,
      tx        |-> psbt.tx,
      signature |-> Signature(p, Message(psbt.tx, psbt.claimed, RecoveryLeafOf(psbt.claimed.to))) ]

MadeShares ==
    {ShareOf(c[1], c[2], c[3]) : c \in
        {c \in Participants \X Participants \X BuiltFiles \X Typed : CanShare(c[1], c[2], c[3], c[4])}}

(* Mutant: whom the signer took for vanished is not compared.              *)
ShareFitsAnyVanished(share, vanished, psbt) ==
    /\ share.round = psbt.claimed.to
    /\ share.tx = psbt.tx
    /\ share.by \in RecoveryLeafOf(share.round).keys
    /\ share.by # vanished
    /\ share.signature.message = Message(psbt.tx, psbt.claimed, RecoveryLeafOf(share.round))

(* A share fits when it is bound to all of what is being signed.           *)
ShareFits(share, vanished, psbt) ==
    /\ share.round = psbt.claimed.to
    /\ share.vanished = vanished
    /\ share.tx = psbt.tx
    /\ share.by \in RecoveryLeafOf(share.round).keys
    /\ share.by # vanished
    /\ share.signature.message = Message(psbt.tx, psbt.claimed, RecoveryLeafOf(share.round))

CanAggregate(vanished, psbt, typed, chosen) ==
    /\ AuthorizedRecovery(typed.claimed.to, vanished, psbt, typed)
    /\ Len(chosen) = RecoveryThreshold(typed.claimed.to)
    /\ \A i \in DOMAIN chosen : ShareFits(chosen[i], vanished, psbt)
    /\ \A i, j \in DOMAIN chosen : i # j => chosen[i].by # chosen[j].by

(* What a command reports, with what it was told.                          *)
Report(spend, claimed, vanished, shares) ==
    [spend |-> spend, claimed |-> claimed, vanished |-> vanished, shares |-> shares]

RecoveryFile(vanished, psbt, chosen) ==
    Report(Finished(psbt.tx, RecoveryLeafOf(psbt.claimed.to),
                    {chosen[i].signature : i \in DOMAIN chosen}),
           psbt.claimed, vanished, ToSet(chosen))

(* The same share may be in the list twice.                                *)
FinishedRecoveries ==
    LET Lists == UNION {[1..n -> MadeShares] : n \in 1..2}
        Tasks == {c \in Participants \X BuiltFiles \X Typed :
                    AuthorizedRecovery(c[3].claimed.to, c[1], c[2], c[3])}
        Made(c) == {RecoveryFile(c[1], c[2], chosen) :
                       chosen \in {list \in Lists : CanAggregate(c[1], c[2], c[3], list)}}
        Right(c) == {report \in Made(c) : Verified(report.spend, c[3].claimed)}
    IN  UNION {Right(c) : c \in Tasks}

-----------------------------------------------------------------------------
(* The sweep of a payout by its owner.                                     *)

SweepFile(p, psbt) ==
    Report(Finished(psbt.tx, KeyPathOf(PayoutOf(p)),
                    {Signature(p, Message(psbt.tx, psbt.claimed, KeyPathOf(PayoutOf(p))))}),
           psbt.claimed, Nobody, {})

(* The file swept may have been built for anyone, and for any coin.        *)
FinishedSweeps ==
    LET Built == {SweepPsbt(q, typed.coin, typed.claimed.sats, PayoutOf(q), FinalSweepFee) :
                     q \in Participants, typed \in {t \in Typed : CanBuildSweep(t.claimed.sats)}}
        Tasks == {c \in Participants \X Built \X Typed :
                    AuthorizedSweep(c[1], c[2], c[3], PayoutOf(c[1]), FinalSweepFee)}
    IN  {SweepFile(c[1], c[2]) : c \in
            {c \in Tasks : Verified(SweepFile(c[1], c[2]).spend, c[3].claimed)}}

-----------------------------------------------------------------------------
(* Withdrawals.  A file is signed for whoever asks whose policy it         *)
(* satisfies; the vault is the one whose script the file claims.           *)

PassesPolicy(p, psbt) ==
    /\ psbt.claimed.to \in LeaveRounds(p)
    /\ SatisfiesPolicy(PolicyView(psbt), SoloPolicy(psbt.claimed.to, p))

(* The service signs the transaction it answers with.                      *)
SoloFile(p, psbt, answer) ==
    LET leaf == Leaf(answer.path, psbt.claimed.to, {p}) IN
    Report(Finished(answer.tx, leaf, {Signature(p, Message(answer.tx, psbt.claimed, leaf))}),
           psbt.claimed, Nobody, {})

(* sigbash-sign-psbt: any file.                                            *)
FinishedWithdrawals ==
    LET Tasks == {c \in Participants \X BuiltFiles : PassesPolicy(c[1], c[2])}
        Answers(c) == {answer \in ServiceAnswers(c[2].tx) :
                          AuthorizedArtifact(c[2].tx, answer) /\ answer.final}
        Signed(c) == {SoloFile(c[1], c[2], answer) : answer \in Answers(c)}
    IN  UNION {{report \in Signed(c) : Verified(report.spend, c[2].claimed)} : c \in Tasks}

(* live-solo-withdrawal: the coin is looked up, and must have exactly the  *)
(* sats a vault has when everybody has withdrawn with this program.        *)
ExpectedVaultValue(round) ==
    IF Cardinality(round) = 3 THEN 3 * Deposit ELSE 3 * Deposit - FirstWithdrawal - SoloFee

IsExpectedVault(round, coin) ==
    OnChain[coin] = Output(round, ExpectedVaultValue(round))

LiveWithdrawals ==
    LET Tasks == {c \in Participants \X VaultRounds \X Outpoints :
                    /\ IsExpectedVault(c[2], c[3])
                    /\ CanBuildSolo(c[2], c[1], OnChain[c[3]].sats)}
        Asked(c) == SoloPsbt(c[2], c[1], c[3], OnChain[c[3]].sats)
    IN  {report \in FinishedWithdrawals : \E c \in Tasks :
            PassesPolicy(c[1], Asked(c)) /\ report.spend.tx = Asked(c).tx}

-----------------------------------------------------------------------------
(* The signers of the public demonstration seed, whose keys are all on one *)
(* machine, look at nothing but the file.                                  *)

LocallySigned(psbt, leaf, signers) ==
    Report(Finished(psbt.tx, leaf, {Signature(p, Message(psbt.tx, psbt.claimed, leaf)) : p \in signers}),
           psbt.claimed, Nobody, {})

(* sign-solo-psbt: the file satisfies the policy of the round as typed.    *)
LocalWithdrawals ==
    LET Tasks == {c \in Participants \X VaultRounds \X BuiltFiles :
                    /\ c[1] \in c[2]
                    /\ SatisfiesPolicy(PolicyView(c[3]), SoloPolicy(c[2], c[1]))
                    /\ Leaf(PolicyLeaf, c[2], {c[1]}) \in c[3].leaves}
    IN  {LocallySigned(c[3], Leaf(PolicyLeaf, c[2], {c[1]}), {c[1]}) : c \in Tasks}

(* sign-recovery-psbt: no more signatures than the leaf counts are put     *)
(* into the witness.                                                       *)
LocalRecoveries ==
    LET Tasks == {c \in Participants \X VaultRounds \X BuiltFiles \X SUBSET Participants :
                    /\ RecoveryLeafOf(c[2]) \in c[3].leaves
                    /\ c[3].tx.delay >= RecoveryDelay
                    /\ c[4] \subseteq c[2] \ {c[1]}
                    /\ Cardinality(c[4]) >= RecoveryThreshold(c[2])}
        Counted(c) == CHOOSE signers \in SUBSET c[4] :
                          Cardinality(signers) = RecoveryThreshold(c[2])
    IN  {LocallySigned(c[3], RecoveryLeafOf(c[2]), Counted(c)) : c \in Tasks}

-----------------------------------------------------------------------------
(* The exit of a whole round.                                              *)

ExitContexts ==
    {psbt \in BuiltFiles : \E typed \in Typed : AuthorizedExit(typed.claimed.to, psbt, typed)}

ExitFile(context) ==
    LET round == context.claimed.to
        message == Message(context.tx, context.claimed, KeyPathOf(round))
    IN  Report(Finished(context.tx, KeyPathOf(round), {Signature(p, message) : p \in round}),
               context.claimed, Nobody, {})
=============================================================================
