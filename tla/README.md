# Verification of the three-participant Bitcoin vault

Three people (alice, bob, carol) put one deposit each into a Bitcoin output
that follows fixed rules: the last one to leave gets more, everybody may leave
alone or together. A Next.js service with a PostgreSQL database coordinates
them: it keeps the rows that say what has been agreed, approved, broadcast and
confirmed; browsers sign and approve with passkeys; a private watcher process
follows the chain; an operator releases the funding transaction. Outside the service, a participant can do
everything with a command line and files. The safety of the deposits rests on
Bitcoin scripts and on the amounts the program writes into them; the *truth the
participants see*, the *moment a signed transaction leaves the service* and the
*secrets that must neither be lost nor used twice* rest on database transactions,
browser storage and files, and on the order in which they meet. Both are modelled
here; the cryptography itself is not.

## 1. Inventory

A vault goes `setup -> roster_confirmed -> ready -> active -> closed`; a
reorganization takes `active` back to `ready` (the funding) and `closed` back to
`active` (the last exit).

| Component (source) | State | Operations | What is hard | Correct when |
|---|---|---|---|---|
| Vault runtime store (`vault-runtime-store.ts`, `src/vault-runtime.ts`) | coins, observations, proposals, broadcast approvals | observe, propose, sign, approve, claim, mark, record a confirmation | competing exits of one coin, expiry, rows re-used after a reorganization | the rows are one chain of confirmed transactions to one tip |
| Chain reorganization store (`chain-reorganization-store.ts`) | the same rows | reanchor and roll back funding or transition | order of rollbacks, what descendants become | every rollback the chain demands is possible, nothing broadcast is forgotten |
| Reconciliation and poll (`chain-reconciliation.ts`, `pollVaultChain`) | none of its own | reconcile, resume, activate, advance | the chain moves between read and commit, one throw ends a poll | records only what was on the chain, reconciles before new work, progresses |
| Submission (`submitApprovedBroadcast`) | the approval's status | read, claim, send, look up, mark | lost answers, crashes, a request racing the poll | sent bytes were approved and stay tracked |
| Watcher lease (`watcher-lease.ts`) | a PostgreSQL session lock | acquire, release | the connection may die under a running poll | one poll at a time |
| Bitcoin node client (`src/bitcoin-rpc.ts`) | none | reads, `testmempoolaccept`, send | errors that look like absence | |
| Funding ceremony (`funding-ceremony-store.ts`) | input challenges, committed inputs | challenge, complete | the fee is read before the challenge is stored | inputs agree |
| Funding signatures, approval, restart (`funding-signature-store.ts`) | signatures, finalization, approvals, restart approvals | challenge and complete each | restart approvals of several states and reasons | exact bytes, unanimous |
| Operator submission (`submitPasskeyApprovedFunding`) | `submitting`, `submission_started_at` | read, claim, take over, preflight, send, mark, free | two runs of the command, lost answers, an old run's late failure | bytes sent are never replaced |
| Sigbash provisioning (`sigbash-provisioning-store.ts`, `src/sigbash-provisioning.ts`) | nine registered keys | read the manifest, register | a manifest read before others register | no policy over a placeholder |
| Roster (`roster-store.ts`) | the artifact, confirmations | build, store, confirm | concurrent creation under two configurations, the last two confirmations together | everybody confirms the artifact on record |
| Readiness (`sigbash-readiness-store.ts`) | challenges, nine proofs | challenge, prove, mark ready | the last two proofs together | ready iff nine proofs of this roster |
| Custody (`sigbash-custody-store.ts`, `sigbash-custody-setup.tsx`) | append-only encrypted revisions, leases; per tab the bundle it unlocked | unlock, append, reserve, list, create, protect, publish | two tabs on one revision, a lost answer of `createKey`, changed economics, at most 32 revisions | no immutable key is lost or made twice |
| Operator's Sigbash setup (`sigbash-live-setup`, `sigbash-recovery-journal.ts`) | a journal of recovery kits, a checkpoint of finished slots | look for a key, create, reconcile, store the kit, check off | the command dies between any two writes | the same, and it can always be run again |
| Passkeys and recovery (`webauthn-store.ts`, `passkey-*.tsx`, `key-envelope.ts`) | invite, credentials, envelopes, enrolments, sessions | register, seal, sign in, unlock, enrol a recovery key | interrupted and overlapping enrolments, counter races | every envelope opens to the one identity |
| Cooperative signing (`recordCooperativeContribution`, `musig2-nonce-vault.ts`, `vault-runtime-panel.tsx`) | recorded nonces and partials; per tab an encrypted nonce and an unacknowledged partial | publish a nonce, sign, publish the partial, finalize | two tabs of one participant, late and repeated requests, restart after expiry | a nonce signs once, nobody is stranded |
| Recovery contributions (`vault-runtime-store.ts`, `chain-observation.ts`, `vault-signing.ts`) | sightings, proposals, shares | look, register, propose, share, finalize | sightings of older coins, ceremonies that outlast the coin | nobody signs without having seen this coin wait |
| Nonce files of the CLI (`nonce-store.ts`, `cli-main.ts`) | files on the participant's disk | create, read, destroy, sign | two commands on one file, a crash between any two steps | a nonce signs once |
| Economics, builders and policies (`config.ts`, `vault.ts`, `psbt.ts`, `sigbash.ts`) | none | validate, derive floors, build and check each transaction | two floors, two budgets and fixed fees that must add up | everybody can always leave with what is due |
| Signing and audit commands (`cli-main.ts`, `custody.ts`, `ceremony.ts`) | none but the nonces | build, sign, aggregate, finalize, audit | files mixed up, coins mistyped | what is finished is what was agreed |
| Rate limiter (`rate-limit.ts`) | window counters | consume | | |
| HTTP routes, pages, Esplora, health and release reports | none | | | not state machines of this system |

Interaction: browsers and the operator meet in the database and at two outside
services, the Bitcoin node and Sigbash. Requests and the two background processes (watcher, operator) share
nothing but the database, through transactions that lock the vault's row or
compare a row before they change it, and the outside services. Nothing is cached in
memory between requests. So one database transaction is one atomic step, and
every await between two of them, or between a transaction and a node call, is a
place where another actor may run.

The list of what a test would hardly reach, with the line at which each hazard
bites and the property that would catch it, is `hazards` in `PROJECT.json`.

## 2. The modules

* **VaultStore** - the rows of one vault after its funding was released
  (`vaults.status`, `funding_finalizations`, `vault_coins`,
  `vault_transaction_proposals`, `vault_broadcast_approvals`) and one action per
  transaction of the store. A coin is named by the transaction that creates it;
  `Spends` is the graph of possible exits, `InputOf` the coin each spends,
  `Terminal` the exits that leave no vault coin. `version` counts how often a
  proposal's row was signed anew, so `<<t, version>>` names exact bytes. The
  per-signer contributions of a cooperative exit are one `Finalize` step here and
  the subject of CooperativeSigning.
* **VaultLineage** - the abstract promise: a tip that moves along one authorized
  spend at a time, or back. `VaultStore!ImplementsLineage` is the refinement.
* **BitcoinChain** - the external node: a best chain of blocks, the blocks ever
  mined, a mempool, bytes ever released; blocks, reorganizations, evictions,
  sends, and the answers of the calls the service makes.
* **ChainWatcher** - VaultStore composed with BitcoinChain: the poll
  (`pollVaultChain`) as a program counter with the rows it still has to visit,
  and a submission job for each of the two submitters (a request, the poll).
  One poll step reads the node for one row into `evidence`; the transaction that
  acts on it is a step of its own, so the chain, a request or a death may come in
  between. A row's several node calls are read at one moment: reading them at
  several moments either yields the same answers, or an inconsistency that the
  code throws on, which is `PollDies`.
* **FundingCeremony** - how the funding came to be: the commitments, signatures,
  final approvals and restart, each with its challenge, and any number of
  concurrent runs of the operator's command with a step for each transaction and
  each node call. Digests are the values they digest. A challenge that expired,
  or was consumed, is no challenge. An output's state at the node is not
  modelled, and the bytes reach the network only through the operator.
* **VaultSetup** - the vault before its funding: key material, the keys each
  participant registers with Sigbash (a slot is a participant and a round it can
  leave in), the roster built from them, its confirmation and the readiness
  proofs. The database runs transactions at READ COMMITTED, so the two
  transactions that count rows and then move the vault's status are two steps
  each, up to the count and up to the commit; `confirming` and `proving` are the
  row locks they hold between. A registration is two steps as well: the request
  reads the manifest, then records the key. A policy is the economics its payout
  is computed from and the pair keys its destination is made of: when the
  deployment's economics change between a key and the roster, the key refuses the
  roster's exits and the vault stays `roster_confirmed` for good, which is safe
  (`ReadyIsProven`) but final, nothing replaces a key or a roster. The custody
  lease that registration and proof require is CustodyPages' subject, passkey
  counters are that of Passkeys. The module ends in `ready`, where FundingCeremony begins.
* **CooperativeSigning** - the two MuSig2 rounds behind `Finalize`: the rows of
  `vault_proposal_contributions` and the transaction that records one, and, for
  each browser tab, what its sessionStorage holds (`stored`, the encrypted nonce;
  `pending`, a partial not yet acknowledged), what its panel shows (`view`) and
  what it is doing (`page`). A request is a message that may be handled after its
  tab gave up on it or went away. `ConsumeNonce` and `SignPartial` are two steps,
  because the removal of the nonce is followed by awaits before the partial is
  kept. A tab may be opened, reloaded, duplicated (the new tab starts with a copy
  of the storage) and closed (the storage ends). A nonce is a number, `made` says
  which proposal each was generated for, a partial is its nonce and the nonce set
  that it is over (`sign` is deterministic in these). `signed` is every use of a
  secret nonce. The coin stays current and is observed by all its signers;
  passkeys and custody unlocking belong to other modules.
* **Passkeys** - one seat: its invite, credentials (`rows`, `enabled`, `stored`
  counters), envelopes, enrolments, sessions, and the pages that walk through
  registration, envelope, sign-in, unlock and the three parts of a recovery
  enrolment. Finishing reads the challenge and its counter first and runs the
  transaction as a second step, so two requests over one passkey interleave. An
  envelope is its salt, the PRF output it was sealed with and the secret in it; it
  opens when the authenticator is asked at that salt. `created` are the passkeys
  that exist on devices, also those the server never heard of.
* **SigbashOrganization** - the external key service: an organization is a set of
  credentials with at most one immutable key at an index; the answer to a creation
  may be lost and the creation still happen later, or never.
* **CustodyPages** - a participant's tabs over the append-only custody: unlock the
  latest bundle, reserve a key as pending, list, create, save it with its kit,
  publish it. A tab may stop at every step; a tab works on what it unlocked, so a
  save may find another revision in its place. **OperatorSetup** - the same keys
  made by `sigbash-live-setup`, which dies and is run again. **SigbashKeys**
  composes both with the service; an organization belongs to one of them.
* **VaultEconomics** - no state: the schedule and its validation, floors,
  policies of the withdrawal keys, and every builder with its inputs, outputs and
  amounts. An address is the set of those it pays.
* **VaultSpending** - the one coin from funding to the last payout: funding, blocks,
  withdrawals built by this program or by any other software the policy lets
  through, cooperative exits, the last sweep, and what was paid and burned.
  **RecoverySigning** adds sightings, proposals and shares of recoveries, and the
  same by hand with the command line. **VaultContract** composes them: the coin
  may be spent in the middle of a ceremony. A record of the coin in the database is
  current here as soon as the chain has it; VaultStore and ChainWatcher are about
  the delay.
* **VaultTransactions** - no state: the PSBT files, what each signing command checks
  before it signs, and the verification of a finished transaction. A signature is
  the message it signs, and a message commits to the transaction, the leaf and the
  coin *as the signer was told*. **CommandFiles** - what the commands can finish
  when they are given any file, round, vanished participant and coin, rightly or
  wrongly typed. **CommandAudits** - the commands that judge a confirmed
  transaction.
* **CommandSigning** - one participant's nonce files under concurrent commands: a
  step for looking, reading, checking, removing and signing, a stop after any.
  **CommandLine** composes it with CommandFiles and CommandAudits.
* **MCVaultStore, MCChainWatcher, MCFundingCeremony, MCVaultSetup,
  MCCooperativeSigning, MCPasskeys, MCSigbashKeys, MCVaultContract,
  MCCommandLine** - constants of the runs.
* **ChainWatcherProofs** (with those of VaultStore), **FundingCeremonyProofs,
  VaultSetupProofs, CooperativeSigningProofs, PasskeysProofs, SigbashKeysProofs,
  CommandLineProofs, VaultContractProofs** - the TLAPS proofs.

Definitions that say `Mutant:` are not part of the model. Each is a plausible
mistake in the definition below it, with the same parameters; put in its place,
it makes the property of the corresponding run fail.

## 3. The runs

| Run | Instance | Shows |
|---|---|---|
| vault_store | two rival exits of the funding, a terminal exit of one of them; 2 block hashes, 2 signings | `Lineage` in every interleaving of all transactions; rollbacks are never refused (`RollbackNeverStuck`); what is broadcast stays tracked; completed approvals survive expiry and rivals; the tip moves along one spend; refinement of VaultLineage |
| reorg_chain | funding, exit and terminal descendant, 2 signings, 1 reorganization of up to 2 blocks | anchors are blocks that held the exact bytes; a poll reconciles before new work; a decided rollback commits; only approved bytes are sent; type invariant |
| submission | growing chain, 2 rivals, lost answers, crashes, eviction, expiry, fair | what was sent stays tracked as the very bytes (`ReleasedIsTracked`); a completed approval is carried out, or a rival's confirmation settles it (`ApprovedIntentIsCarriedOut`) |
| funding_live | 2 confirmations required, funding and exit reorganized away and mined again, fair | the funding is activated, and activated again after a reorganization, also when its block is on the chain but too shallow (`FundingIsActivated`) |
| funding_reconfirm | a funding confirmed again with its child waiting | **violated**, see below |
| funding | 2 participants, 2 runs of the command, 2 claims, 2 reasons, 1 restart, 2 fees | bytes sent stay the finalized bytes on record; everybody approved them; a submission is freed only unsent; inputs are cleared only by everybody's approval of one state and one reason; a restart can be asked for (`RestartStaysOpen`) |
| vault_setup | the three seats and nine keys, 2 economics, 2 requests that build a roster, alice's challenges expire | policies are final; one exact roster is confirmed; the last confirmation and the last proof move the vault on (`LastOneMovesOn`); a ready vault's keys are all proven to sign its roster's exits (`ReadyIsProven`) |
| cooperative | 2 signers, one with 2 tabs and 1 nonce, the other with 1 tab that is closed, reloaded or gives up and 2 nonces; 2 proposals, 2 requests on their way | a nonce signs over one nonce set; a finalized exit was signed by all over the recorded nonces; a kept partial is never refused as different; who keeps its tab can finish (`SecretsSurvive`) |
| passkeys | 2 pages, a counting and two other passkeys, 3 salts, 2 enrolments | every envelope on record opens to the one identity; an interrupted setup can be resumed; a reported recovery survives the loss of any authenticator; a working passkey keeps working |
| sigbash_keys | 2 tabs of a participant with 3 keys, a history of 7 revisions (exactly what 3 keys can need), 2 economics; the command over 3 slots | no immutable key is stranded or made twice; none is public without its kit; whatever stopped attempts leave, the next one gets through every check, a tab's under economics that do not contradict the key left at the service (`RetryIsPossible`) |
| contract | the three, amounts at the bounds of the economics, leavers who burn nothing, one budget, or all their policy allows | everybody in can leave alone or sweep (`EveryoneCanLeave`); the payouts are the schedule's up to the budgets (`EachGetsTheirDue`); nobody signs against a vanished one without having seen this coin wait (`RecoveryNeedsWitnesses`) |
| command_line | 2 processes, 2 paths, 2 nonces, 2 sessions; a vault, a pair's vault and a payout, the first two mistyped for each other | a nonce signs once; what is finished out of mixed up files and coins is what was agreed, and the audits say so |

Type invariants that are proved (VaultStore, FundingCeremony, VaultSetup,
CooperativeSigning, the coin of VaultSpending) are left out of the runs; those of
ChainWatcher and Passkeys are checked.

Bounds. `MaxHeight`, `MaxForks`, `MaxDepth` bound the chain: two blocks are the
least depth at which a parent and its child leave together, and one fork is
enough for every decision of the reconciliation (same block, other block, gone,
too shallow). `MaxVersions` 2 lets a row be staled
and signed again. `Buried` and `MayExpire` name what an instance holds fixed.
In the ceremony two participants already have everything that depends on
"everybody" against "the rest"; the proofs cover any number. `AskedIn` names the
statuses in which a restart is asked for, `MaxRestarts` how often, `MaxClaims` 2
is one claim and a take-over. In the setup `Builders` are
the requests that may build a roster (two are enough for two different ones),
`Expiring` the participants whose challenges may lapse; a deployment never goes
back to earlier economics. In the cooperative rounds `Shaky` are the tabs that
get closed, reloaded or give up, `MaxNonces` bounds the nonces of each signer (a
second one is what a lost tab or the next proposal needs), `MaxOnTheWay` the
requests on their way (two, for one that a later one overtakes). None of the
three enters the proofs. `MaxRevision` is 32 in the code; 7 is exactly what
three keys need (two revisions each and the first), so a wasted one would show. `MaxCount` bounds how often a counting passkey is used.
`RecoveryDelay` 2 with ages up to 3 separates one block too early, the block the
chain accepts and the block the program asks for. Amounts are scaled to the least
deposit the validation accepts; the inputs meet exactly the deposit, its dust and
its change. Deadlock checking is off in contract and command_line only, where a
vault ends and a participant runs out of nonces.

Fairness (ChainWatcher). The scheduler of `instrumentation.ts` and
`watch-chain.ts` keeps starting polls and a running poll goes on (`WF PollStep`,
`WF Submit(Watcher)`); rows younger than 30 seconds get older, so a poll that
sees them all happens again and again (`SF ResumesAll`); the node does not lose
every answer to sends it accepts and lookups of what it holds (`SF
SendAnswered`, `SF LookupAnswered`). Nothing is assumed of participants, whose
requests may all die, or of miners.

### What the violation shows

* **funding_reconfirm** - `getTxOut` includes the mempool, so a funding that
  confirms again while its broadcast child waits in the mempool (or comes in the
  same block) looks spent; the poll throws, and the vault stays `ready`.

### Where a property stops

The properties hold under the bounds and assumptions above. These are the edges
found while modelling, with the change to a `.cfg` that shows each.

* *A second reorganization* (`MaxForks = 2`, `SPECIFICATION CalmSpec` in
  `MCReorgChain.cfg` violates `QuietReconcileSucceeds`). Rows are reconciled
  `ORDER BY confirmed_height DESC, updated_at DESC`; reanchoring writes
  `updated_at`. When a reorganization has put parent and descendant into one block
  and the parent's row was written last, the next one makes the poll roll back the
  parent first, which throws, and keeps throwing.
* *A reorganization during a submission* (`MaxForks = 1` in `MCSubmission.cfg`
  violates `ReleasedIsTracked`). A rollback fails every approval in `submitting`,
  also one whose bytes were just sent, although the comment at
  `vault-runtime-store.ts:607` says that such an intent is preserved.
* *A fee that changes during a ceremony* (`MCFunding.cfg` without its action
  constraint `Steady` violates `RestartStaysOpen`).
  `createFundingInputChallenge` takes the deployment's fee while no input is
  approved. Two challenges taken before and after a change commit inputs with
  different fees; from then on the status call throws, and a restart starts with
  that call. The same can happen when a request that read an old fee is still under
  way while a restart ends. `Steady` excludes both; of the theorems only
  `RestartOpen` assumes it.
* *A nonce file's path used again* (`ReusesPaths = TRUE` in `MCCommandLine.cfg`
  violates `CommandNonceSignsOnce`). A command checks that the path it is about to
  remove is the file it read by device and inode, then removes by name: between
  the two another process can have burned that file and put a new nonce at the
  path. `src/README.md:213` shows a fixed path.
* *A new organization the service refuses to list* (`Strict = TRUE`): the browser
  exempts index 0 from listing (`sigbash-custody-setup.tsx:221`), but asks for the
  pair rounds first, which have other indexes; no first key can then be created.
  Whether the service refuses is outside this repository (the comment at
  `sigbash-provisioning-client.ts:1` says so); `Strict = FALSE` assumes it does not.
  With `Strict = TRUE` the run violates `RetryIsPossible`; of the theorems only
  `RetriesStayPossible` assumes `~Strict`.
* *Economics that change while a key is under way* (`RetryIsPossible` with
  `\A t \in Terms : Passes(t)` for its last conjunct is violated). A key is immutable
  and made for one policy. When the deployment's economics change after a
  participant's key is created or protected and before it is registered, every later
  attempt is refused: by `assertCompiledPolicy` in the page
  (`sigbash-custody-setup.tsx:248`), or by the register request when the key is
  already in the bundle. The manifest goes on asking for that round, so no other can
  be begun either. `RetryIsPossible` says that nothing else refuses an attempt, and that there
  are economics under which it gets through: those the key was made for, which have
  to be deployed again. A creation still on its way may yet be carried out under the
  old ones. The command is modelled under one economics; a change
  between two of its runs is left out.
* *One budget per withdrawal.* The comment at `src/config.ts:59` and
  `src/README.md:148` say a leaver can burn one budget. The second leaver may burn
  its own budget and what the first one left of theirs; what holds is the sum, and
  that is what `EachGetsTheirDue` says. `FeesRelay` is not checked by
  `validateVaultEconomics`: an economics whose committed fee is below a satoshi per
  vbyte is accepted.
* *Commands stricter than the service.* `cli-main.ts:4034` and `:4568` take a pair's
  coin only at the value an exit of this program leaves; the runtime accepts the
  whole range the policy allows, so a coin left by other software needs the
  service.
* The recovery of a pair's coin needs one share, by design. `sigbash-sign-psbt`
  given a wrong value finishes a signature the chain refuses. The cooperative audit
  does not bound additional outputs, the recovery audit does not look at who
  signed.

## 4. What is proved

Every theorem is about every value of the constants that the named assumptions of
the modules admit; the assumptions are those of the code (a vault has three
participants, a roster's spend graph is acyclic and finite, sats are natural
numbers, `None` is not a passkey) and TLC evaluates each of them on the runs.

**ChainWatcherProofs, the store.** For any set of spends, any spend graph that
satisfies the assumptions named in VaultStore, and any blocks. `TypeOK /\ Lineage`
is inductive: `Lineage` alone says which rows may coexist, and each of its parts is
needed by another - `SingleTip` needs `CoinOnChain` and `SpentByConfirmed` to
know that the spent coin was the only tip; these need `NoProposalOnOrphan` to know
that no row is left that could confirm on an orphaned coin. One lemma covers the
steps that touch no status, one those of proposals and approvals, one each of the
four recording and rollback transactions. From it: `RollbackAlwaysPossible`,
`TrackedForever`, `ApprovalSurvives`, `TipMovesCorrect`, and
`StoreImplementsLineage` (initial states map to initial states, each action to a
step of VaultLineage or a stutter).

**ChainWatcherProofs, the watcher.** For any bounds of the chain, any number of
confirmations required, and any interleaving of polls, requests, crashes, lost
answers and reorganizations.
* `WatcherRunsTheStore`: a behaviour of ChainWatcher is one of VaultStore, so what
  is proved of the store in any order of its transactions holds in the order the
  watcher runs them; `WatcherKeepsThePromise` adds the refinement of VaultLineage.
* `WInv` is inductive: the store's invariant, the shape of the chain (`ChainOK`:
  blocks of a replaced branch keep their contents and their names are never used
  again), the rows of each phase (`PollOK`), and what was read of the node and not
  yet acted on (`EvidenceOK`: a block to be recorded holds the very bytes the row
  has now, however much happened since it was read). `AnchorsCorrect` follows.
* `ReconciledFirst` adds `ReconciledSoFar`: until the chain moves, every
  confirmation on record is deep enough or among the rows the poll has yet to read.
  It rests on the poll's query listing all confirmed rows, in whatever order.
* `ReleasedApproved` adds `ReleaseInv`: a submission past its claim holds approved
  bytes, and a failed approval belongs to a stale row.
* `ReleasedTracked` proves `ReleasedIsTracked` for a chain that is not reorganized
  (`NeverReorganizes`), as in its run; `TrackedUndisturbed` for any chain that never
  takes back a confirmation on record (`Undisturbed`). Without the hypothesis it is
  false, see *A reorganization during a submission*. The strengthening (`TrackInv`)
  says that such a poll never decides on a rollback and that what is claimed is
  tracked already.
* `WatcherTypeCorrect` includes that `recency` lists each confirmed spend once.
* `QuietReconcileCorrect` proves `QuietReconcileSucceeds` for at most one
  reorganization (`MaxForks <= 1`), of any depth and at any moment; with two it is
  false, see *A second reorganization*. The strengthening is `QuietInv`. A confirmed
  child's row comes before its parent's in the poll's order, or one of the two is
  deep enough since the reorganization (`ChildrenFirst`); this needs that a block
  never comes below that of a transaction it spends (`InputsBelow`), that a spend is
  only recorded above its input (`ConfirmsInOrder`), and that before the
  reorganization nothing is in doubt and after it nothing is reanchored that is not
  deep (`UntouchedYet`, `ReanchorsDeep`: this is where a second one would break the
  proof). The rows of a poll stay in the order they were queried in, whatever the
  rows it has done are rewritten to (`RowsInOrder`, `RowsAnchored`), so a child that
  is still to come would have had to be before its parent; and one that is done is
  deep (`ReconciledSoFar`), which makes its parent deep too and no case for a
  rollback (`ShallowRead`). For the funding, that some confirmed spend spends it
  directly is `AcyclicAssumption`: a transaction commits to the txid it spends.

**FundingCeremonyProofs**, for any participants, outputs, fees, restarts and
concurrent runs; only `MaxClaims \in Nat` is assumed of the bounds.
* `FundingTypeCorrect`.
* `SubmissionIsPinned` and `FreedOnlyUnsent`. `SentIsPinned` is not inductive: a
  run past its preflight will send later, so its bytes must be pinned already
  (`OnTheWay => Pinned`); and the step that unpins, a fresh run giving its claim
  back, must find nothing sent and nobody else on the way (`MayFree => ...`).
  That holds because claim numbers grow (`mine <= claims`), so a take-over
  dispossesses the older run, and because a run that took over inherits the
  uncertainty (`maySend`). A claim number stands for `submission_started_at`;
  two claims never carry the same microsecond timestamp, which the row's lock
  and the ten minutes between claim and take-over justify.
* `SubmittedIsUnanimous`, from `FinalIsExact`: once a finalization exists,
  nothing it is built from changes.
* `OnlyUnanimousRestart`, from the types alone: a restart challenge can only
  carry a status that allows a restart.
* `RestartOpen`, for steps that keep the fee while it matters (`Steady`, the
  action constraint of the run). The status call needs equal fees on all committed
  inputs; that alone is not inductive, for drafts and challenges under way carry a
  fee too. `OneFee` says that one fee is charged everywhere, and that it is the
  deployment's as long as nothing is committed.

**VaultSetupProofs**, for any seats, any rounds to leave in, any economics and no
bound. `SetupInv` is inductive. `LastOneMovesOn` needs that a transaction past its
count has counted all rows but its own and that nobody else is past it
(`CountsAreExact`, `ProofsAreExact`), which is what the locks are for; `RosterIsExact`
that a roster can only be built of all keys, so none is registered after it
(`RosterIsWhole`); `PoliciesAreFinal` that a manifest under way is final already
(`ManifestsAreFinal`). That `Cardinality(counted) = Cardinality(Slots)` means every
slot is the only use of finiteness.

**CooperativeSigningProofs**, for any signers, tabs, proposals and whatever the
bounds are. `SigningInv` is inductive. `NonceSignsOnce` follows from two bindings:
a nonce is stored, sent and recorded only under the proposal it was generated for
(`NoncesAreBound`), and every signature ever made is over the complete set on
record for its proposal (`PartialsAreSigned`), which is never replaced
(`AcceptKeeps`) and is what a panel shows once it is complete (`ViewsAreExact`) -
also when the view is old. `ExitIsUnanimous` and `RetriesAgree` follow from the
same. `NobodyIsStranded` is an action property: for each step, the tab that holds
what a signer needs still holds it, or the partial is on record.

**PasskeysProofs**, for any pages, passkeys, salts and enrolments, with no bound on
how often a passkey is used. `PInv` is inductive: besides the rows (`RowsOK`: the
enabled passkeys are those with an envelope, and each works) it says what every
page under way holds - a PRF output for the salt it will be stored with, a new
passkey that no other page registers, a counter that advanced over the one it was
checked against (`PageOK`) - since a request stores what its page brought, and the
row may have changed in between. `EnvelopesAlwaysOpen`, `SetupResumes`,
`LossSurvived` follow, and the action property `WorkingForever`.

**SigbashKeysProofs**, for any slots, tabs and terms, up to two pair rounds (a vault
has three participants), any history that three keys fit in, and with creations that
are carried out long after their request was given up. Each client has an invariant
of its own.
* `OInv`, of the command: what its files know (`FilesOK`), what the run believes
  (`RunOK`). The heart is that slots are finished in order, so at most one slot is
  under way and every creation that may still be carried out is of that slot and at
  the very index any later run asks for, the smallest free one.
* `CInv`, of the tabs: the newest bundle holds live keys, one a round (`LatestOK`),
  and what any tab unlocked, chose and was told still fits that bundle (`PageOK`).
  A save is refused unless it follows the revision the tab unlocked; the invariant
  therefore speaks of stale tabs only through what no save ever drops (`Extends`).
* `NothingStranded` and `KitsComeFirst` follow for both. `RunsStayPossible`, the
  command's part of `RetryIsPossible`, needs that the keys on record take distinct
  indexes, so a slot without a key finds one free (`RoomForSlot`).
  `RetriesStayPossible` adds the tabs' and assumes `~Strict`: the history holds the
  first bundle and the snapshots of every key and no more (`HistoryFits`), so with two
  keys at most besides the next one (`TwoKeysAtMost`) there is room, and whatever is
  live at the next round's index was made for that round, under some economics
  (`LeftWasAskedFor`).

**CommandLineProofs**, for any processes, paths, nonces, messages, sessions, members,
coins, values and economics.
* Assuming `~ReusesPaths`, `CommandInv` is inductive: a path then holds one nonce in
  its life, so what a process has found at its path is there still or nowhere
  (`FoundIsThere`), only one of two processes with the same nonce can remove the file
  (`BurnedIsMine`), and a nonce that signed is in no file and about to sign nowhere
  (`SignedIsGone`). `NonceOfFileSignsOnce` follows, and with it `ExitsAreAsAgreed`: an
  exit is finished over the context this participant's nonce is bound to, and that
  nonce is in no file.
* `FilesAreAsAgreed` has no hypothesis: whatever is typed, whichever shares and files
  are put together, a finished recovery, sweep or withdrawal pays what was agreed for
  the coin that is really there, or no node accepts it. The signature commits to the
  typed value and script, so `Verified` ties them to the chain.
* `AuditsAreAsAgreed`, and with it `FinishedIsAsAgreed`, assume `Telling` of whatever
  may be typed. An audit knows a coin only by what a transaction pays out of it, and
  compares parts: two values that differ by less than the division's remainder have
  the same parts, fees make up for differences no larger than they are, and the sole
  member of a smaller vault is told from the vault only by its script. `AllFees`
  bounds what they can hide. Without the hypothesis the statement is false; that the
  run's mistyped coins have it is an ASSUME of `MCCommandLine`, which TLC evaluates.
  The sums over outputs are folds of the community modules, unfolded for the at most
  three outputs a transaction has.

**VaultContractProofs**, for every economics that `ValidEconomics` accepts and whose
fees relay (`FeesRelay`), any delay, inputs, funding fees and fees of leavers.
* `CoinIsRecognised`: `CoinInv`, the types and that an open coin's value is one the
  runtime accepts, is inductive. It is the arithmetic of the floors: a withdrawal
  its policy allows leaves a coin of the next round (`NextCoin`).
* `AlwaysAWayOut`: in every reachable state everybody in the round can build a
  withdrawal that its policy allows and that relays, or sweep (`SoloFits`).
* `EachIsPaid`: `DueInv` is inductive, `EachGetsTheirDue` alone is not. It says that
  the leavers are exactly those no longer in the round, that who is in has nothing
  while the coin is open, and that value and burned sats add up to what the schedule
  leaves to the round (`Worth`), from which the floors bound what was burned. The
  sum over the participants is the fold of the community modules; `TotalIs` unfolds
  it once for three participants.
* `WitnessesNeeded`: `RecoveryNeedsWitnesses` is not inductive alone. A sighting of
  an older coin must not count for the current one, and a later sighting must not
  have fewer confirmations than an earlier one. Rounds only shrink, so a sighting
  of the current round is one of the current coin and has no more confirmations
  than it has now (`SeenBefore`, `SightingsPast`); `SightingsStay` carries that over
  every spend.

Only model-checked:
* all liveness (under fairness, out of the prover's reach):
  `ApprovedIntentIsCarriedOut`, `FundingIsActivated`.

## 5. Not modelled, and the plan

Left out for good: script and PSBT encodings, MuSig2 arithmetic and encryption
(pure functions, tested against vectors), HTTP parsing and rendering, the
Esplora backend (I/O), health, acceptance and release reports and the offline
demonstration commands (no state; they print what they compute), the rate limiter
(one atomic upsert that refuses a request, which a model without a step has too).

Left out of the modules above: a second poll beside one whose lease was lost,
which doubles the poll's state; an input of the funding spent elsewhere during
the ceremony; the time that sightings and proposals stay valid (each may lapse at
any moment instead); what a node answers at several moments of one row.

What is left of proof is the liveness, which no installed prover can do. Two
hypotheses of theorems mark edges of the code rather than of the proofs: that
nothing on record is taken back (`TrackedUndisturbed`) and that the chain
reorganizes once (`QuietReconcileCorrect`). To go further needs a rollback that
leaves approvals in `submitting` alone, and an order of the rows that follows the
coins they spend instead of `updated_at`.
