---------------------------- MODULE BitcoinChain ----------------------------
(***************************************************************************)
(* The Bitcoin node the coordinator talks to, as src/src/bitcoin-rpc.ts    *)
(* uses it: the best chain, the blocks it ever contained, the node's       *)
(* mempool and the transactions the network knows.  Everything here is     *)
(* external to the repository.                                             *)
(*                                                                         *)
(* A signed transaction is a pair <<t, v>>: its txid t does not cover the  *)
(* witness, so the signings of one spend share t and differ in v.  A block *)
(* is <<h, f>>: its height and the number of reorganizations before it.    *)
(***************************************************************************)
EXTENDS Naturals, Sequences, FiniteSets, SequencesExt

CONSTANTS
    FundingTx, Spends, InputOf,
    MaxHeight,    \* bound: height of the best chain
    MaxForks,     \* bound: reorganizations in a behaviour
    MaxDepth,     \* bound: blocks one reorganization removes
    Buried        \* bound: transactions too deep to be reorganized away

VARIABLES
    chain,        \* chain[h] is the fork number of the best block at h
    mined,        \* the signed transactions of every block there ever was
    forks,        \* reorganizations so far
    mempool,      \* signed transactions this node would relay and mine
    released      \* signed transactions the network has ever accepted

chainVars == <<chain, mined, forks, mempool, released>>

BlockIds == (1 .. MaxHeight) \X (0 .. MaxForks)

Best == {<<h, chain[h]>> : h \in 1 .. Len(chain)}
OnChain == UNION {mined[b] : b \in Best}
Ids(S) == {x[1] : x \in S}

Conflict(s, t) ==
    \/ s = t
    \/ s \in Spends /\ t \in Spends /\ InputOf[s] = InputOf[t]

(* S could be a ledger: one signing of each transaction, inputs present,   *)
(* nothing spent twice.                                                    *)
Consistent(S) ==
    /\ \A x \in S : x[1] \in Spends => InputOf[x[1]] \in Ids(S)
    /\ \A x, y \in S : Conflict(x[1], y[1]) => x = y

(* What stays in a pool once the best chain holds `base'.                  *)
Surviving(pool, base) ==
    UNION {P \in SUBSET pool : /\ Ids(P) \cap Ids(base) = {}
                               /\ Consistent(base \cup P)}

ChainInit ==
    /\ chain = <<>>
    /\ mined = [b \in BlockIds |-> {}]
    /\ forks = 0
    /\ mempool = {<<FundingTx, 0>>}
    /\ released = {<<FundingTx, 0>>}

(* Any miner may include any transaction the network has seen.             *)
Mine(S) ==
    /\ Len(chain) < MaxHeight
    /\ S \subseteq released
    /\ Ids(S) \cap Ids(OnChain) = {}
    /\ Consistent(OnChain \cup S)
    /\ chain' = Append(chain, forks)
    /\ mined' = [mined EXCEPT ![<<Len(chain) + 1, forks>>] = S]
    /\ mempool' = Surviving(mempool, OnChain \cup S)
    /\ UNCHANGED <<forks, released>>

(* A branch one block longer replaces the last d blocks at once; place     *)
(* says which of its blocks contains each of its transactions.  What the   *)
(* old branch confirmed returns to the mempool if it still can.            *)
Reorganize(d, S, place) ==
    LET keep == Len(chain) - d
        kept == UNION {mined[<<h, chain[h]>>] : h \in 1 .. keep}
        newChain == SubSeq(chain, 1, keep) \o [i \in 1 .. d + 1 |-> forks + 1]
    IN
    /\ forks < MaxForks
    /\ keep + d + 1 <= MaxHeight
    /\ Ids(S) \cap Ids(kept) = {}
    /\ Consistent(kept \cup S)
    /\ \A x, y \in S : x[1] \in Spends /\ InputOf[x[1]] = y[1] => place[y] <= place[x]
    /\ Ids(OnChain \ kept) \cap Buried = {}
    /\ chain' = newChain
    /\ mined' = [b \in BlockIds |->
                    IF b[2] = forks + 1 /\ b[1] \in keep + 1 .. keep + d + 1
                    THEN {x \in S : place[x] = b[1] - keep}
                    ELSE mined[b]]
    /\ mempool' = Surviving(mempool \cup (OnChain \ kept), kept \cup S)
    /\ forks' = forks + 1
    /\ UNCHANGED released

(* Expiry, eviction or replacement empties part of this node's mempool.    *)
Evict(x) ==
    /\ x \in mempool
    /\ mempool' = Surviving(mempool \ {x}, OnChain)
    /\ UNCHANGED <<chain, mined, forks, released>>

ChainNext ==
    \/ \E S \in SUBSET released : Mine(S)
    \/ \E d \in 1 .. MaxDepth :
          /\ d <= Len(chain)
          /\ \E S \in SUBSET released :
                \E place \in [S -> 1 .. d + 1] : Reorganize(d, S, place)
    \/ \E x \in mempool : Evict(x)

-----------------------------------------------------------------------------
(* What the RPC calls answer.                                              *)

(* sendrawtransaction succeeds without effect when the mempool already     *)
(* holds the txid, whatever its witness.                                   *)
Accepts(x) ==
    \/ x[1] \in Ids(mempool)
    \/ /\ x[1] \notin Ids(OnChain)
       /\ Consistent(OnChain \cup mempool \cup {x})

Send(x) ==
    /\ Accepts(x)
    /\ IF x[1] \in Ids(mempool)
       THEN UNCHANGED <<mempool, released>>
       ELSE /\ mempool' = mempool \cup {x}
            /\ released' = released \cup {x}
    /\ UNCHANGED <<chain, mined, forks>>

(* getrawtransaction: the signing found for a txid, if any.                *)
Found(t) == {x \in OnChain \cup mempool : x[1] = t}
HoldsExactly(x) == Found(x[1]) = {x}

(* The best block of a confirmed transaction, and its confirmations.       *)
BlockOf(t) == CHOOSE b \in Best : t \in Ids(mined[b])
Confirmations(t) ==
    IF t \in Ids(OnChain) THEN Len(chain) - BlockOf(t)[1] + 1 ELSE 0

(* getblockheader: a block off the best chain has no confirmations.        *)
BlockConfirmations(b) == IF b \in Best THEN Len(chain) - b[1] + 1 ELSE 0

(* gettxout with include_mempool: confirmed, and not spent even by an      *)
(* unconfirmed transaction.                                                *)
Unspent(c) ==
    /\ c \in Ids(OnChain)
    /\ \A x \in OnChain \cup mempool : x[1] \in Spends => InputOf[x[1]] # c
=============================================================================
