---------------------------- MODULE VaultLineage ----------------------------
(***************************************************************************)
(* What the product promises about one vault's money, with no rows, locks  *)
(* or approvals in it: the value sits at one confirmed transaction (the    *)
(* tip); it moves only to a spend of the tip that the participants have    *)
(* authorized, which is never forgotten afterwards; and when the chain     *)
(* removes a confirmation it moves back exactly one transaction.           *)
(***************************************************************************)
CONSTANTS FundingTx, Spends, Terminal, InputOf

Unfunded == "unfunded"

VARIABLES
    tip,         \* the transaction the value is recorded at
    reached,     \* coins the value has been recorded at so far
    authorized   \* spends released to the network with an approval

lineageVars == <<tip, reached, authorized>>

LineageInit ==
    /\ tip = Unfunded
    /\ reached = {}
    /\ authorized = {}

(* The coin a transaction creates: a terminal spend creates none.          *)
CoinsOf(t) == {t} \ Terminal

Fund ==
    /\ tip = Unfunded
    /\ tip' = FundingTx
    /\ reached' = reached \cup CoinsOf(FundingTx)
    /\ UNCHANGED authorized

(* A spend may be authorized only once its input has been recorded.        *)
Authorize(t) ==
    /\ InputOf[t] \in reached
    /\ authorized' = authorized \cup {t}
    /\ UNCHANGED <<tip, reached>>

Advance(t) ==
    /\ t \in authorized
    /\ tip = InputOf[t]
    /\ tip' = t
    /\ reached' = reached \cup CoinsOf(t)
    /\ UNCHANGED authorized

Retreat(t) ==
    /\ tip = t
    /\ tip' = InputOf[t]
    /\ UNCHANGED <<reached, authorized>>

Unfund ==
    /\ tip = FundingTx
    /\ tip' = Unfunded
    /\ UNCHANGED <<reached, authorized>>

LineageNext ==
    \/ Fund
    \/ Unfund
    \/ \E t \in Spends : Authorize(t) \/ Advance(t) \/ Retreat(t)

LineageSpec == LineageInit /\ [][LineageNext]_lineageVars
=============================================================================
