---------------------------- MODULE ChainWatcher ----------------------------
(***************************************************************************)
(* The store of module VaultStore driven against a Bitcoin chain: the      *)
(* private watcher's poll (pollVaultChain and reconcileConfirmedChainState *)
(* under the lease of watcher-lease.ts) and the submissions of approved    *)
(* spends (submitApprovedBroadcast), by a participant's request and by the *)
(* poll.  Between any two of their steps the chain may grow or reorganize, *)
(* another request may commit, the process may die and an RPC may fail.    *)
(*                                                                         *)
(* One poll step reads the chain for one row; the transaction that acts on *)
(* what it read is a step of its own.                                      *)
(***************************************************************************)
EXTENDS VaultStore, Sequences, SequencesExt

CONSTANTS
    MaxHeight, MaxForks, MaxDepth, Buried,   \* bounds of BitcoinChain
    MayExpire,                               \* bound: spends whose proposals expire
    Required,                                \* chainConfirmationsRequired()
    Web, Watcher                             \* the two kinds of submitter

ASSUME RequiredAssumption == Required \in Nat \ {0}
ASSUME BoundsAssumption == MaxHeight \in Nat /\ MaxForks \in Nat /\ MaxDepth \in Nat
ASSUME SubmittersAssumption == Web # Watcher
ASSUME FixedGraphAssumption == IsFiniteSet(Spends)   \* the roster's, drawn in advance

VARIABLES
    chain, mined, forks, mempool, released,  \* the node and its network
    recency,   \* confirmed spends, least recently written row first
    poll,      \* the poll's phase and the rows it has left
    evidence,  \* what the poll read from the node and has not acted on
    job,       \* the submission each submitter is executing
    quiet      \* the chain has not changed since the poll began

Bitcoin == INSTANCE BitcoinChain

(* The hashes the store records are those of the chain's blocks.           *)
ASSUME BlocksAssumption == Blocks = Bitcoin!BlockIds

nodeVars == <<chain, mined, forks, mempool, released>>
watchVars == <<recency, poll, evidence, job, quiet>>
allVars == <<vars, nodeVars, watchVars>>

Bytes(t) == IF t = FundingTx THEN <<t, 0>> ELSE <<t, version[t]>>
Deep(t) == Bitcoin!Confirmations(t) >= Required

Idle == [phase |-> "idle", rows |-> <<>>]
Dead == [phase |-> "dead", rows |-> <<>>]   \* idle, the last poll was killed
NoEvidence == [verdict |-> "none"]
NoJob == [at |-> "idle"]

WatcherInit ==
    /\ Init
    /\ Bitcoin!ChainInit
    /\ recency = <<>>
    /\ poll = Idle
    /\ evidence = NoEvidence
    /\ job = [w \in {Web, Watcher} |-> NoJob]
    /\ quiet = FALSE

-----------------------------------------------------------------------------
(* The environment.                                                        *)

ChainMoves ==
    /\ Bitcoin!ChainNext
    /\ quiet' = (quiet /\ chain' = chain)
    /\ UNCHANGED <<vars, recency, poll, evidence, job>>

(* The participants' own transactions, and the expiry of what they leave   *)
(* unfinished, for the spends in MayExpire.  The ageing of an observation  *)
(* only disables CreateProposal: module VaultStore has it.                 *)
ParticipantActs ==
    /\ \/ \E c \in Coins : ~observed[c] /\ ObserveCoin(c)
       \/ \E t \in Spends : \/ CreateProposal(t)
                            \/ Finalize(t)
                            \/ approval[t] # "pending" /\ CreateBroadcastApprovalChallenge(t)
                            \/ CompleteBroadcastApproval(t)
                            \/ t \in MayExpire /\ ProposalExpires(t)
    /\ UNCHANGED <<nodeVars, watchVars>>

-----------------------------------------------------------------------------
(* submitApprovedBroadcast, by submitter w.                                *)

(* Mutant: a signed proposal is enough, whatever its approval.             *)
SubmittableUnapproved(t) == prop[t] = "finalized" /\ coin[InputOf[t]] = "current"

Submittable(t) ==
    /\ approval[t] \in {"approved", "submitting"}
    /\ prop[t] = "finalized"
    /\ coin[InputOf[t]] = "current"

(* Mutant: the bytes are sent before the approval is claimed.              *)
FirstStepSends(t) == "send"

FirstStep(t) == IF approval[t] = "approved" THEN "claim" ELSE "send"

StartJob(w, t) == job' = [job EXCEPT ![w] = [at |-> "read", bytes |-> Bytes(t)]]

(* The request that completes an approval goes on to submit it, unless it  *)
(* dies in between, which is ParticipantActs.                              *)
RequestSubmission(t) ==
    /\ job[Web] = NoJob
    /\ CompleteBroadcastApproval(t)
    /\ StartJob(Web, t)
    /\ UNCHANGED <<nodeVars, recency, poll, evidence, quiet>>

EndJob(w) == job' = [job EXCEPT ![w] = NoJob]
JobGoesTo(w, at) == job' = [job EXCEPT ![w].at = at]

(* The approval row belongs to the proposal row the job read only while no *)
(* later row for the same spend has replaced it.                           *)
SameRow(w) == version[job[w].bytes[1]] = job[w].bytes[2]

SubmitRead(w) ==
    LET t == job[w].bytes[1] IN
    /\ job[w].at = "read"
    /\ IF Submittable(t) /\ SameRow(w) THEN JobGoesTo(w, FirstStep(t)) ELSE EndJob(w)
    /\ UNCHANGED <<vars, nodeVars, recency, poll, evidence, quiet>>

SubmitClaim(w) ==
    LET t == job[w].bytes[1] IN
    /\ job[w].at = "claim"
    /\ IF approval[t] = "approved" /\ SameRow(w)
       THEN ClaimBroadcast(t) /\ JobGoesTo(w, "send")
       ELSE EndJob(w) /\ UNCHANGED vars
    /\ UNCHANGED <<nodeVars, recency, poll, evidence, quiet>>

(* The node may be reached or not, and its answer may be lost.             *)
SubmitSend(w) ==
    /\ job[w].at = "send"
    /\ \/ /\ Bitcoin!Send(job[w].bytes)
          /\ \E at \in {"mark", "lookup"} : JobGoesTo(w, at)
       \/ /\ UNCHANGED nodeVars
          /\ JobGoesTo(w, "lookup")
    /\ UNCHANGED <<vars, recency, poll, evidence, quiet>>

(* After an error only the exact bytes, found on the node, count as sent;  *)
(* otherwise the request fails and the approval stays "submitting".        *)
SubmitLookup(w) ==
    /\ job[w].at = "lookup"
    /\ \/ Bitcoin!HoldsExactly(job[w].bytes) /\ JobGoesTo(w, "mark")
       \/ EndJob(w)
    /\ UNCHANGED <<vars, nodeVars, recency, poll, evidence, quiet>>

SubmitMark(w) ==
    LET t == job[w].bytes[1] IN
    /\ job[w].at = "mark"
    /\ IF prop[t] = "finalized" /\ approval[t] = "submitting" /\ SameRow(w)
       THEN MarkBroadcast(t)
       ELSE UNCHANGED vars
    /\ EndJob(w)
    /\ UNCHANGED <<nodeVars, recency, poll, evidence, quiet>>

RequestDies ==
    /\ job[Web] # NoJob
    /\ EndJob(Web)
    /\ UNCHANGED <<vars, nodeVars, recency, poll, evidence, quiet>>

Submit(w) ==
    SubmitRead(w) \/ SubmitClaim(w) \/ SubmitSend(w) \/ SubmitLookup(w) \/ SubmitMark(w)

-----------------------------------------------------------------------------
(* The poll.                                                               *)

Rank(t) == CHOOSE i \in 1 .. Len(recency) : recency[i] = t

(* Mutant: a rewritten row keeps its place, a rolled back one its entry.   *)
TouchedKeeps(t) == recency

Touched(t) == RemoveFirst(recency, t)

(* Mutant: the oldest confirmation is reconciled first.                    *)
ProcessedAscending(s, t) ==
    \/ anchor[s][1] < anchor[t][1]
    \/ anchor[s][1] = anchor[t][1] /\ Rank(s) < Rank(t)

(* ORDER BY confirmed_height DESC, updated_at DESC                         *)
ProcessedBefore(s, t) ==
    \/ anchor[s][1] > anchor[t][1]
    \/ anchor[s][1] = anchor[t][1] /\ Rank(s) > Rank(t)

(* The rows the query returns: one sequence, because ranks are distinct.   *)
ConfirmedRows ==
    {rows \in SetToSeqs({t \in Spends : Confirmed(t)}) :
        \A i, j \in DOMAIN rows : i < j => ProcessedBefore(rows[i], rows[j])}

Phase(p, rows) == poll' = [phase |-> p, rows |-> rows]
NextRow == poll' = [poll EXCEPT !.rows = Tail(@)]

PollStops(left) ==
    /\ poll' = left
    /\ evidence' = NoEvidence
    /\ quiet' = FALSE
    /\ EndJob(Watcher)

PollThrows == PollStops(Idle)

(* The lease admits one poll at a time; another invocation does nothing.   *)
PollStart ==
    /\ poll \in {Idle, Dead}
    /\ \E rows \in ConfirmedRows : Phase("transitions", rows)
    /\ quiet' = TRUE
    /\ UNCHANGED <<vars, nodeVars, recency, evidence, job>>

PollDies ==
    /\ poll \notin {Idle, Dead}
    /\ PollStops(Dead)
    /\ UNCHANGED <<vars, nodeVars, recency>>

(* Mutant: the transaction's own depth is enough, in whatever block.       *)
VerdictByDepth(t) ==
    IF Deep(t) THEN "stable"
    ELSE IF Bitcoin!Found(t) \notin {{}, {Bytes(t)}} THEN "mismatch"
    ELSE "rollback"

(* decideConfirmationReconciliation for a row anchored at block b: stable, *)
(* re-included elsewhere, gone, or confirmed with other bytes (an error).  *)
Verdict(t) ==
    IF Bitcoin!BlockConfirmations(anchor[t]) >= Required THEN "stable"
    ELSE IF Bitcoin!Found(t) \notin {{}, {Bytes(t)}} THEN "mismatch"
    ELSE IF Deep(t) THEN "reanchor"
    ELSE "rollback"

ReadConfirmation(t) ==
    /\ evidence = NoEvidence
    /\ CASE Verdict(t) = "stable" -> NextRow /\ UNCHANGED <<evidence, job, quiet>>
         [] Verdict(t) = "mismatch" -> PollThrows
         [] OTHER -> /\ evidence' = [verdict |-> Verdict(t), tx |-> t,
                                     prior |-> anchor[t],
                                     block |-> IF Deep(t) THEN Bitcoin!BlockOf(t)
                                               ELSE NoBlock]
                     /\ UNCHANGED <<poll, job, quiet>>
    /\ UNCHANGED <<vars, nodeVars, recency>>

ReadTransition ==
    /\ poll.phase = "transitions"
    /\ poll.rows # <<>>
    /\ ReadConfirmation(Head(poll.rows))

ReconcileDone ==
    /\ evidence' = NoEvidence
    /\ NextRow
    /\ UNCHANGED <<job, quiet>>

CommitTransition ==
    LET t == evidence.tx IN
    /\ poll.phase = "transitions"
    /\ evidence # NoEvidence
    /\ \/ /\ evidence.verdict = "reanchor"
          /\ ReanchorTransition(t, evidence.prior, evidence.block)
          /\ recency' = Append(Touched(t), t)
          /\ ReconcileDone
       \/ /\ evidence.verdict = "rollback"
          /\ RollbackTransition(t, evidence.prior)
          /\ recency' = Touched(t)
          /\ ReconcileDone
       \/ /\ evidence.verdict = "rollback"
          /\ t \notin Terminal /\ coin[t] # "current"
          /\ PollThrows
          /\ UNCHANGED <<vars, recency>>
    /\ UNCHANGED nodeVars

TransitionsDone ==
    /\ poll.phase = "transitions" /\ poll.rows = <<>>
    /\ Phase("funding", IF funding = "confirmed" THEN <<FundingTx>> ELSE <<>>)
    /\ UNCHANGED <<vars, nodeVars, recency, evidence, job, quiet>>

ReadFunding ==
    /\ poll.phase = "funding"
    /\ poll.rows # <<>>
    /\ ReadConfirmation(FundingTx)

CommitFunding ==
    /\ poll.phase = "funding"
    /\ evidence # NoEvidence
    /\ \/ /\ evidence.verdict = "reanchor"
          /\ ReanchorFunding(evidence.prior, evidence.block)
          /\ ReconcileDone
       \/ /\ evidence.verdict = "rollback"
          /\ RollbackFunding(evidence.prior)
          /\ ReconcileDone
       \/ /\ evidence.verdict = "rollback"
          /\ \E t \in Spends : Confirmed(t)
          /\ PollThrows
          /\ UNCHANGED vars
    /\ UNCHANGED <<nodeVars, recency>>

(* Mutant: only claimed approvals count as interrupted.                    *)
InterruptedClaimed == {t \in Spends : Submittable(t) /\ approval[t] = "submitting"}

(* Interrupted submissions: a subset, because an approval written in the   *)
(* last 30 seconds is left to the request that wrote it.                   *)
Interrupted == {t \in Spends : Submittable(t)}

ReconciliationDone ==
    /\ poll.phase = "funding" /\ poll.rows = <<>>
    /\ \E S \in SUBSET Interrupted : \E rows \in SetToSeqs(S) : Phase("resume", rows)
    /\ UNCHANGED <<vars, nodeVars, recency, evidence, job, quiet>>

(* A resumed submission that fails is reported and the next one is tried.  *)
ResumeNext ==
    /\ poll.phase = "resume"
    /\ job[Watcher] = NoJob
    /\ poll.rows # <<>>
    /\ StartJob(Watcher, Head(poll.rows))
    /\ NextRow
    /\ UNCHANGED <<vars, nodeVars, recency, evidence, quiet>>

ResumeDone ==
    /\ poll.phase = "resume" /\ poll.rows = <<>> /\ job[Watcher] = NoJob
    /\ Phase("activate", IF funding = "broadcast" THEN <<FundingTx>> ELSE <<>>)
    /\ UNCHANGED <<vars, nodeVars, recency, evidence, job, quiet>>

(* observeOrResubmitExactTransaction: bytes the node does not hold are     *)
(* sent again, and the row waits for the next poll.                        *)
Resubmit(t) ==
    /\ Bitcoin!Found(t) = {}
    /\ Bitcoin!Send(Bytes(t))
    /\ NextRow
    /\ UNCHANGED <<vars, recency, evidence, job, quiet>>

(* Mutant: the node's current tip is recorded as the confirming block.     *)
ConfirmEvidenceAtTip(t) ==
    evidence' = [verdict |-> "confirm", tx |-> t, block |-> <<Len(chain), Last(chain)>>]

ConfirmEvidence(t) ==
    evidence' = [verdict |-> "confirm", tx |-> t, block |-> Bitcoin!BlockOf(t)]

(* Any failure here ends the whole poll: there is no handler around it.    *)
ObserveFunding ==
    /\ poll.phase = "activate" /\ poll.rows # <<>> /\ evidence = NoEvidence
    /\ \/ Resubmit(FundingTx)
       \/ /\ Bitcoin!Found(FundingTx) = {}
          /\ ~Bitcoin!Accepts(Bytes(FundingTx))
          /\ PollThrows
          /\ UNCHANGED <<vars, nodeVars, recency>>
       \/ /\ Bitcoin!HoldsExactly(Bytes(FundingTx))
          /\ CASE ~Deep(FundingTx) -> NextRow /\ UNCHANGED <<evidence, job, quiet>>
               [] Deep(FundingTx) /\ ~Bitcoin!Unspent(FundingTx) -> PollThrows
               [] OTHER -> ConfirmEvidence(FundingTx) /\ UNCHANGED <<poll, job, quiet>>
          /\ UNCHANGED <<vars, nodeVars, recency>>

ActivateFunding ==
    /\ poll.phase = "activate" /\ evidence # NoEvidence
    /\ RecordConfirmedFunding(evidence.block)
    /\ ReconcileDone
    /\ UNCHANGED <<nodeVars, recency>>

Candidates == {t \in Spends : Confirmable(t)}

ActivationDone ==
    /\ poll.phase = "activate" /\ poll.rows = <<>>
    /\ \E rows \in SetToSeqs(Candidates) : Phase("advance", rows)
    /\ UNCHANGED <<vars, nodeVars, recency, evidence, job, quiet>>

(* Any failure here, of the node too, is reported and the next candidate   *)
(* is tried.                                                               *)
ObserveSpend ==
    /\ poll.phase = "advance" /\ poll.rows # <<>> /\ evidence = NoEvidence
    /\ LET t == Head(poll.rows) IN
       \/ t \in Candidates /\ Resubmit(t)
       \/ /\ t \in Candidates /\ Bitcoin!HoldsExactly(Bytes(t)) /\ Deep(t)
          /\ ConfirmEvidence(t)
          /\ UNCHANGED <<vars, nodeVars, recency, poll, job, quiet>>
       \/ NextRow /\ UNCHANGED <<vars, nodeVars, recency, evidence, job, quiet>>

AdvanceSpend ==
    /\ poll.phase = "advance" /\ evidence # NoEvidence
    /\ RecordConfirmedProposal(evidence.tx, evidence.block)
    /\ recency' = Append(Touched(evidence.tx), evidence.tx)
    /\ ReconcileDone
    /\ UNCHANGED nodeVars

PollDone ==
    /\ poll.phase = "advance" /\ poll.rows = <<>>
    /\ poll' = Idle
    /\ quiet' = FALSE
    /\ UNCHANGED <<vars, nodeVars, recency, evidence, job>>

PollStep ==
    \/ PollStart \/ ReadTransition \/ CommitTransition \/ TransitionsDone
    \/ ReadFunding \/ CommitFunding \/ ReconciliationDone \/ ResumeNext \/ ResumeDone
    \/ ObserveFunding \/ ActivateFunding \/ ActivationDone
    \/ ObserveSpend \/ AdvanceSpend \/ PollDone

WatcherNext ==
    \/ ChainMoves
    \/ ParticipantActs
    \/ \E t \in Spends : RequestSubmission(t)
    \/ \E w \in {Web, Watcher} : Submit(w)
    \/ RequestDies
    \/ PollStep
    \/ PollDies

(* No process dies and the chain moves only between polls and submissions.   *)
AtRest == poll = Idle /\ \A w \in {Web, Watcher} : job[w] = NoJob

CalmNext ==
    \/ AtRest /\ ChainMoves /\ chain' # chain
    \/ ParticipantActs
    \/ \E t \in Spends : RequestSubmission(t)
    \/ \E w \in {Web, Watcher} : Submit(w)
    \/ PollStep

CalmSpec == WatcherInit /\ [][CalmNext]_allVars

WatcherSpec == WatcherInit /\ [][WatcherNext]_allVars

-----------------------------------------------------------------------------
(* Safety.                                                                 *)

WatcherTypeOK ==
    /\ TypeOK
    /\ poll.phase \in {"idle", "dead", "transitions", "funding", "resume", "activate", "advance"}
    /\ evidence.verdict \in {"none", "reanchor", "rollback", "confirm"}
    /\ Range(recency) = {t \in Spends : Confirmed(t)}
    /\ \A w \in {Web, Watcher} : job[w].at \in {"idle", "read", "claim", "send", "lookup", "mark"}

(* Every recorded confirmation names a block that really contained the     *)
(* exact bytes the participants approved, whatever happened between the    *)
(* read of the node and the transaction that recorded it.                  *)
AnchorsAreEvidence ==
    \A t \in Txs : anchor[t] # NoBlock => Bytes(t) \in mined[anchor[t]]

(* Nothing is resumed, activated or advanced by a poll on a state the      *)
(* chain has already contradicted: when reconciliation is over and the     *)
(* chain did not move meanwhile, every recorded block is on the best chain *)
(* and deep enough.                                                        *)
ReconciledBeforeNewWork ==
    quiet /\ poll.phase \in {"resume", "activate", "advance"} =>
        \A t \in Txs : anchor[t] # NoBlock =>
            Bitcoin!BlockConfirmations(anchor[t]) >= Required

(* A rollback the poll decided on while the chain stood still commits: no  *)
(* transition is rolled back before its confirmed descendant.              *)
QuietReconcileSucceeds ==
    quiet /\ evidence.verdict = "rollback" =>
        IF evidence.tx = FundingTx
        THEN \A t \in Spends : ~Confirmed(t)
        ELSE evidence.tx \in Terminal \/ coin[evidence.tx] = "current"

(* Bytes reach the network only under a completed passkey approval of      *)
(* exactly those bytes: as long as they are the latest the spend was       *)
(* signed with, the row that holds them is claimed, tracked or failed, or  *)
(* a reorganization failed it and a new row has no bytes of its own yet.   *)
ReleasedWereApproved ==
    \A x \in released : x[1] \in Spends =>
        /\ x[2] <= version[x[1]]
        /\ x[2] = version[x[1]] =>
              \/ approval[x[1]] \in {"submitting", "broadcast", "failed"}
              \/ prop[x[1]] \in {"collecting", "stale"} /\ approval[x[1]] = "none"

(* An approved transaction that may have reached Bitcoin is never orphaned *)
(* by the store: it stays submitting, tracked or confirmed, as the very    *)
(* bytes that were sent.                                                   *)
ReleasedIsTracked ==
    \A x \in released : x[1] \in Spends =>
        /\ x[2] = version[x[1]]
        /\ \/ prop[x[1]] = "finalized" /\ approval[x[1]] = "submitting"
           \/ prop[x[1]] \in {"broadcast", "confirmed"}

-----------------------------------------------------------------------------
(* Liveness.  The scheduler keeps starting polls and a poll that does not  *)
(* die goes on to its end; an approval is younger than 30 seconds only for *)
(* 30 seconds; and the node does not fail to answer every one of the sends *)
(* it would accept, or every lookup of bytes it holds.  Nothing is assumed *)
(* of the participants' requests, which may all die, nor of miners.        *)
ResumesAll == ReconciliationDone /\ Len(poll'.rows) = Cardinality(Interrupted)
SendAnswered == SubmitSend(Watcher) /\ job'[Watcher].at = "mark"
LookupAnswered == SubmitLookup(Watcher) /\ job'[Watcher].at = "mark"

Fairness ==
    /\ WF_allVars(PollStep)
    /\ WF_allVars(Submit(Watcher))
    /\ SF_allVars(ResumesAll)
    /\ SF_allVars(SendAnswered)
    /\ SF_allVars(LookupAnswered)

FairWatcherSpec == WatcherSpec /\ Fairness

PollsSurvive == <>[](poll # Dead)

(* A completed approval whose request crashed, or whose answer was lost,   *)
(* is still carried out by some poll, unless the coin moves on or a rival  *)
(* spend of it has reached the network first.                              *)
RivalReleased(t) ==
    \E x \in released : x[1] \in Children(InputOf[t]) \ {t}

ApprovedIntentIsCarriedOut ==
    PollsSurvive =>
        \A t \in Spends :
            approval[t] \in {"approved", "submitting"} ~>
                \/ prop[t] \in {"broadcast", "confirmed"}
                \/ coin[InputOf[t]] # "current"
                \/ RivalReleased(t)

(* A funding that stays deeply confirmed, with its vault output unspent,   *)
(* is activated by some poll, after a reorganization too.                  *)
FundingIsActivated ==
    PollsSurvive /\ <>[](Deep(FundingTx) /\ Bitcoin!Unspent(FundingTx)) =>
        <>[](funding = "confirmed")

(* The same without the condition on the output: the descendants of an     *)
(* orphaned funding continue once their ancestor confirms again, the ones  *)
(* that were broadcast before the reorganization too.                      *)
FundingReconfirms ==
    PollsSurvive /\ <>[]Deep(FundingTx) => <>[](funding = "confirmed")
=============================================================================
