------------------------ MODULE VaultContractProofs -------------------------
(***************************************************************************)
(* Proofs about VaultContract, for every economics the validation accepts, *)
(* every delay and any inputs, fees and amounts.                           *)
(***************************************************************************)
EXTENDS VaultContract, FiniteSetTheorems, TLAPS

USE ThreeParticipants, SatsAreIntegers, AmountsAreIntegers

(* What the runtime says of the open coin: it is one of a round.           *)
OpenCoin ==
    phase = "open" =>
        /\ round # {} /\ age >= 1
        /\ AcceptedValue(round, value)

(* The inductive invariant of the coin.                                    *)
CoinInv == SpendingTypeOK /\ OpenCoin

-----------------------------------------------------------------------------
(* Arithmetic of the economics.                                            *)

(* What the validation fixes.                                              *)
LEMMA Floors ==
    /\ RoundOneFloor \in Int /\ RoundTwoFloor \in Int
    /\ RoundTwoFloor >= 330
    /\ RoundOneFloor = 3 * Deposit - FirstWithdrawal - SoloFeeBudget
    /\ RoundTwoFloor = RoundOneFloor - SecondWithdrawal - SoloFeeBudget
    /\ MaximumPairValue = 3 * Deposit - FirstWithdrawal
    /\ MaximumFinalValue = MaximumPairValue - SecondWithdrawal
    /\ SoloFee > 0 /\ 2 * SoloFee <= SoloFeeBudget
  BY CommittedEconomics DEF ValidEconomics, RoundOneFloor, RoundTwoFloor, DustLimit,
     MaximumPairValue, MaximumFinalValue

(* Rounds are small and finite.                                            *)
LEMMA Sizes ==
    ASSUME NEW r \in SUBSET Participants
    PROVE  /\ IsFiniteSet(r) /\ Cardinality(r) \in 0..3
           /\ Cardinality(r) = 0 <=> r = {}
           /\ \A p \in r : Cardinality(r \ {p}) = Cardinality(r) - 1
<1>1. IsFiniteSet(r) /\ Cardinality(r) <= 3
  BY FS_Subset
<1>2. Cardinality(r) \in Nat /\ (Cardinality(r) = 0 <=> r = {})
  BY <1>1, FS_CardinalityType, FS_EmptySet
<1>3. \A p \in r : Cardinality(r \ {p}) = Cardinality(r) - 1
  BY <1>1, FS_RemoveElement
<1> QED BY <1>1, <1>2, <1>3

(* The payout and the floor of a round, in sats.                           *)
Payout(r) == IF Cardinality(r) = 3 THEN FirstWithdrawal ELSE SecondWithdrawal
(* The least the next coin may have.                                       *)
Floor(r) == IF Cardinality(r) = 3 THEN RoundOneFloor ELSE RoundTwoFloor

(* A withdrawal and its policy, written out.                               *)
LEMMA WithdrawalShape ==
    ASSUME NEW r, NEW p, NEW v, NEW fee
    PROVE  /\ Withdrawal(r, p, v, fee) =
                 [inputs |-> 1, leaf |-> <<r, p>>,
                  outputs |-> <<[to |-> {p}, sats |-> Payout(r)],
                                [to |-> r \ {p}, sats |-> v - Payout(r) - fee]>>]
           /\ SoloPolicy(r, p) =
                 [key |-> <<r, p>>, payout |-> [to |-> {p}, sats |-> Payout(r)],
                  next |-> r \ {p}, floor |-> Floor(r)]
  BY DEF Withdrawal, SoloPolicy, Transaction, Output, PayoutOf, Payout, Floor

(* Of a withdrawal the policy only limits the fee.                         *)
LEMMA PolicyAllows ==
    ASSUME NEW r, NEW p, NEW v, NEW fee
    PROVE  SatisfiesPolicy(Withdrawal(r, p, v, fee), SoloPolicy(r, p))
              <=> v - Payout(r) - fee >= Floor(r)
<1> DEFINE tx == Withdrawal(r, p, v, fee)
           policy == SoloPolicy(r, p)
           amount == Payout(r)
           floor == Floor(r)
<1>1. /\ tx = [inputs |-> 1, leaf |-> <<r, p>>,
               outputs |-> <<[to |-> {p}, sats |-> amount],
                             [to |-> r \ {p}, sats |-> v - amount - fee]>>]
      /\ policy = [key |-> <<r, p>>, payout |-> [to |-> {p}, sats |-> amount],
                   next |-> r \ {p}, floor |-> floor]
  BY WithdrawalShape
<1> HIDE DEF tx, policy, amount, floor
<1>2. /\ tx.inputs = 1 /\ tx.leaf = <<r, p>> /\ Len(tx.outputs) = 2
      /\ tx.outputs[1] = [to |-> {p}, sats |-> amount]
      /\ tx.outputs[2] = [to |-> r \ {p}, sats |-> v - amount - fee]
  BY <1>1
<1>3. /\ policy.key = <<r, p>> /\ policy.payout = [to |-> {p}, sats |-> amount]
      /\ policy.next = r \ {p} /\ policy.floor = floor
  BY <1>1
<1>4. tx.outputs[2].to = r \ {p} /\ tx.outputs[2].sats = v - amount - fee
  BY <1>2
<1>5. SatisfiesPolicy(tx, policy) <=> v - amount - fee >= floor
  BY <1>2, <1>3, <1>4 DEF SatisfiesPolicy
<1> QED BY <1>5 DEF tx, policy, amount, floor

(* A withdrawal that leaves the floor makes a coin of the next round.      *)
LEMMA NextCoin ==
    ASSUME NEW r \in SUBSET Participants, NEW p \in r, NEW v \in Int, NEW fee \in Int,
           Cardinality(r) > 1, AcceptedValue(r, v), fee > 0,
           SatisfiesPolicy(Withdrawal(r, p, v, fee), SoloPolicy(r, p))
    PROVE  /\ r \ {p} # {}
           /\ v - Payout(r) - fee \in Nat
           /\ AcceptedValue(r \ {p}, v - Payout(r) - fee)
<1>1. v - Payout(r) - fee >= Floor(r)
  BY PolicyAllows
<1>2. Cardinality(r) \in 2..3 /\ Cardinality(r \ {p}) = Cardinality(r) - 1
  BY Sizes
<1>3. r \ {p} # {}
  BY <1>2, Sizes
<1>4. v - Payout(r) - fee \in Nat /\ AcceptedValue(r \ {p}, v - Payout(r) - fee)
  BY <1>1, <1>2, Floors DEF AcceptedValue, Payout, Floor
<1> QED BY <1>3, <1>4

(* The program's own withdrawals always leave the floor.                   *)
LEMMA SoloFits ==
    ASSUME NEW r \in SUBSET Participants, NEW p \in r, NEW v \in Int,
           Cardinality(r) > 1, AcceptedValue(r, v)
    PROVE  /\ CanBuildSolo(r, p, v)
           /\ SatisfiesPolicy(SoloWithdrawal(r, p, v), SoloPolicy(r, p))
           /\ SoloFeeOf(r) \in Int /\ SoloFeeOf(r) > 0
           /\ Relays(SoloFeeOf(r))
<1>1. Cardinality(r) \in 2..3
  BY Sizes
<1>2. /\ SoloFeeOf(r) \in Int /\ SoloFeeOf(r) > 0 /\ SoloFeeOf(r) <= SoloFeeBudget
      /\ SoloFeeOf(r) >= RelayFloor
  BY Floors, FeesRelay DEF SoloFeeOf
<1>3. v - Payout(r) - SoloFeeOf(r) >= Floor(r)
  BY <1>1, <1>2, Floors DEF AcceptedValue, Payout, Floor
<1>4. SatisfiesPolicy(SoloWithdrawal(r, p, v), SoloPolicy(r, p))
  BY <1>3, PolicyAllows DEF SoloWithdrawal
<1>5. /\ SoloWithdrawal(r, p, v).outputs[2].sats = v - Payout(r) - SoloFeeOf(r)
      /\ SoloPolicy(r, p).floor = Floor(r)
  BY WithdrawalShape DEF SoloWithdrawal
<1> QED BY <1>2, <1>3, <1>4, <1>5 DEF CanBuildSolo, Relays

-----------------------------------------------------------------------------
(* Sums over the three.                                                    *)

(* Whichever element the fold takes first, it adds up all three.           *)
LEMMA TotalIs ==
    ASSUME NEW a, NEW b, NEW c, a # b, a # c, b # c, Participants = {a, b, c},
           NEW g \in [Participants -> Nat]
    PROVE  TotalOf(g) = g[a] + g[b] + g[c] /\ g[a] \in Nat /\ g[b] \in Nat /\ g[c] \in Nat
<1> DEFINE S == Participants
           pick(s) == CHOOSE x \in s : TRUE
           body(f, s) == IF s = {} THEN 0 ELSE g[pick(s)] + f[s \ {pick(s)}]
           part(s, x) == IF x \in s THEN g[x] ELSE 0
           sum == [s \in SUBSET S |-> part(s, a) + part(s, b) + part(s, c)]
           iter == CHOOSE f : f = [s \in SUBSET S |-> body(f, s)]
<1>1. TotalOf(g) = iter[S]
  BY DEF TotalOf, MapThenSumSet, MapThenFoldSet
<1>2. \A s \in SUBSET S : s # {} => pick(s) \in s
  OBVIOUS
<1> HIDE DEF pick
<1>3. \A s \in SUBSET S : sum[s] = body(sum, s)
  <2> SUFFICES ASSUME NEW s \in SUBSET S PROVE sum[s] = body(sum, s)
    OBVIOUS
  <2>1. CASE s = {}
    BY <2>1
  <2>2. CASE s # {}
    <3>1. PICK x : x = pick(s)
      OBVIOUS
    <3>2. x \in s /\ s \ {x} \in SUBSET S
      BY <1>2, <2>2, <3>1
    <3>3. part(s, a) + part(s, b) + part(s, c)
            = g[x] + (part(s \ {x}, a) + part(s \ {x}, b) + part(s \ {x}, c))
      BY <3>2
    <3>4. sum[s] = g[x] + sum[s \ {x}]
      BY <3>2, <3>3
    <3> QED BY <2>2, <3>1, <3>4
  <2> QED BY <2>1, <2>2
<1>4. sum = [s \in SUBSET S |-> body(sum, s)]
  <2> HIDE DEF body
  <2>1. sum = [s \in SUBSET S |-> sum[s]]
    OBVIOUS
  <2> HIDE DEF sum
  <2> QED BY <1>3, <2>1
<1>5. iter = [s \in SUBSET S |-> body(iter, s)]
  <2> HIDE DEF sum, body
  <2> QED BY <1>4
<1>6. \A s \in SUBSET S : iter[s] = body(iter, s)
  <2> HIDE DEF iter, body
  <2> QED BY <1>5
<1> HIDE DEF iter
<1>7. iter[S] = sum[S]
  <2> DEFINE same(s) == iter[s] = sum[s]
  <2>1. same({})
    BY <1>3, <1>6
  <2>2. \A s \in SUBSET S : s # {} /\ (\A x \in s : same(s \ {x})) => same(s)
    <3> SUFFICES ASSUME NEW s \in SUBSET S, s # {}, \A x \in s : same(s \ {x})
                 PROVE  same(s)
      OBVIOUS
    <3>1. pick(s) \in s
      BY <1>2
    <3> HIDE DEF sum
    <3> QED BY <1>3, <1>6, <3>1
  <2> HIDE DEF same
  <2>3. \A x \in S : same({x})
    <3> SUFFICES ASSUME NEW x \in S PROVE same({x})
      OBVIOUS
    <3>1. \A y \in {x} : {x} \ {y} = {}
      OBVIOUS
    <3> QED BY <2>1, <2>2, <3>1
  <2>4. \A x, y \in S : x # y => same({x, y})
    <3> SUFFICES ASSUME NEW x \in S, NEW y \in S, x # y PROVE same({x, y})
      OBVIOUS
    <3>1. {x, y} \ {x} = {y} /\ {x, y} \ {y} = {x}
      OBVIOUS
    <3> QED BY <2>2, <2>3, <3>1
  <2>5. S \ {a} = {b, c} /\ S \ {b} = {a, c} /\ S \ {c} = {a, b}
    OBVIOUS
  <2>6. \A x \in S : same(S \ {x})
    BY <2>4, <2>5
  <2>7. same(S)
    BY <2>2, <2>6
  <2> QED BY <2>7 DEF same
<1>8. sum[S] = g[a] + g[b] + g[c] /\ g[a] \in Nat /\ g[b] \in Nat /\ g[c] \in Nat
  OBVIOUS
<1> QED BY <1>1, <1>7, <1>8

(* The participants by name.                                               *)
LEMMA TheThree ==
    \E a, b, c : a # b /\ a # c /\ b # c /\ Participants = {a, b, c}
<1>1. Participants # {}
  BY FS_EmptySet
<1>2. PICK a : a \in Participants
  BY <1>1
<1>3. IsFiniteSet(Participants \ {a}) /\ Cardinality(Participants \ {a}) = 2
  BY <1>2, FS_RemoveElement
<1>4. Participants \ {a} # {}
  BY <1>3, FS_EmptySet
<1>5. PICK b : b \in Participants \ {a}
  BY <1>4
<1>6. IsFiniteSet((Participants \ {a}) \ {b}) /\ Cardinality((Participants \ {a}) \ {b}) = 1
  BY <1>3, <1>5, FS_RemoveElement
<1>7. PICK c : (Participants \ {a}) \ {b} = {c}
  BY <1>6, FS_Singleton
<1>8. Participants = {a, b, c} /\ a # b /\ a # c /\ b # c
  BY <1>2, <1>5, <1>7
<1> QED BY <1>8

(* A payout to one adds itself to the total.                               *)
LEMMA PayingOne ==
    ASSUME NEW f \in [Participants -> Nat], NEW p \in Participants, NEW amount \in Nat
    PROVE  /\ TotalOf(f) \in Nat
           /\ TotalOf([f EXCEPT ![p] = @ + amount]) = TotalOf(f) + amount
<1>1. PICK a, b, c : a # b /\ a # c /\ b # c /\ Participants = {a, b, c}
  BY TheThree
<1>2. PICK g : g = [f EXCEPT ![p] = @ + amount]
  OBVIOUS
<1>3. g \in [Participants -> Nat]
  BY <1>2
<1>4. TotalOf(f) = f[a] + f[b] + f[c] /\ f[a] \in Nat /\ f[b] \in Nat /\ f[c] \in Nat
  BY <1>1, TotalIs
<1>5. TotalOf(g) = g[a] + g[b] + g[c]
  BY <1>1, <1>3, TotalIs
<1>6. \A q \in Participants : g[q] = IF q = p THEN f[q] + amount ELSE f[q]
  BY <1>2
<1>7. g[a] + g[b] + g[c] = f[a] + f[b] + f[c] + amount
  BY <1>1, <1>4, <1>6
<1> QED BY <1>2, <1>4, <1>5, <1>7

(* A share for each of a round adds the share as often as it has members.  *)
LEMMA PayingRound ==
    ASSUME NEW f \in [Participants -> Nat], NEW r \in SUBSET Participants, NEW share \in Nat
    PROVE  /\ TotalOf(f) \in Nat
           /\ TotalOf([p \in Participants |-> f[p] + IF p \in r THEN share ELSE 0])
                = TotalOf(f) + share * Cardinality(r)
<1>1. PICK a, b, c : a # b /\ a # c /\ b # c /\ Participants = {a, b, c}
  BY TheThree
<1>2. PICK g : g = [p \in Participants |-> f[p] + IF p \in r THEN share ELSE 0]
  OBVIOUS
<1>3. g \in [Participants -> Nat]
  BY <1>2
<1>4. TotalOf(f) = f[a] + f[b] + f[c] /\ f[a] \in Nat /\ f[b] \in Nat /\ f[c] \in Nat
  BY <1>1, TotalIs
<1>5. TotalOf(g) = g[a] + g[b] + g[c]
  BY <1>1, <1>3, TotalIs
<1> DEFINE one(p) == IF p \in r THEN 1 ELSE 0
<1>6. Cardinality(r) = one(a) + one(b) + one(c)
  <2>1. r = (IF a \in r THEN {a} ELSE {}) \cup (IF b \in r THEN {b} ELSE {})
              \cup (IF c \in r THEN {c} ELSE {})
    BY <1>1
  <2>2. PICK x : x = IF a \in r THEN {a} ELSE {}
    OBVIOUS
  <2>3. PICK y : y = IF b \in r THEN x \cup {b} ELSE x
    OBVIOUS
  <2>4. IsFiniteSet(x) /\ Cardinality(x) = one(a)
    BY <2>2, FS_EmptySet, FS_Singleton
  <2>5. IsFiniteSet(y) /\ Cardinality(y) = one(a) + one(b)
    BY <1>1, <2>2, <2>3, <2>4, FS_AddElement
  <2>6. c \notin y /\ r = IF c \in r THEN y \cup {c} ELSE y
    BY <1>1, <2>1, <2>2, <2>3
  <2> QED BY <2>5, <2>6, FS_AddElement
<1>7. g[a] + g[b] + g[c] = f[a] + f[b] + f[c] + share * (one(a) + one(b) + one(c))
  <2>1. \A p \in Participants : g[p] = f[p] + share * one(p)
    BY <1>2
  <2>2. one(a) \in 0..1 /\ one(b) \in 0..1 /\ one(c) \in 0..1
    OBVIOUS
  <2> HIDE DEF one
  <2>3. share * (one(a) + one(b) + one(c)) = share * one(a) + share * one(b) + share * one(c)
    BY <2>2
  <2> QED BY <1>1, <1>4, <2>1, <2>2, <2>3
<1> QED BY <1>2, <1>4, <1>5, <1>6, <1>7

-----------------------------------------------------------------------------
(* What the steps do to the coin.                                          *)

(* What a withdrawal does to the coin.                                     *)
LEMMA LeaveIs ==
    ASSUME SpendingTypeOK, NEW p \in round, NEW fee \in Int,
           Leave(p, Withdrawal(round, p, value, fee))
    PROVE  /\ fee > 0
           /\ round' = round \ {p} /\ value' = value - Payout(round) - fee /\ age' = 1
           /\ left' = Append(left, p)
           /\ paid' = [paid EXCEPT ![p] = @ + Payout(round)]
           /\ burned' = burned + fee
           /\ phase' = phase
<1> DEFINE tx == Withdrawal(round, p, value, fee)
           amount == Payout(round)
<1>1. /\ tx.outputs[1].sats = amount
      /\ tx.outputs[2].to = round \ {p} /\ tx.outputs[2].sats = value - amount - fee
  BY WithdrawalShape
<1>2. amount \in Int /\ value \in Int
  BY DEF Payout, SpendingTypeOK
<1> HIDE DEF tx, amount
<1>3. Leave(p, tx)
  BY DEF tx
<1>4. value - amount - (value - amount - fee) = fee
  BY <1>2
<1>5. /\ fee > 0
      /\ round' = round \ {p} /\ value' = value - amount - fee /\ age' = 1
      /\ left' = Append(left, p)
      /\ paid' = [paid EXCEPT ![p] = @ + amount]
      /\ burned' = burned + fee
      /\ phase' = phase
  BY <1>1, <1>3, <1>4 DEF Leave
<1> QED BY <1>5 DEF amount

(* A withdrawal the policy allows leaves a coin of the next round.         *)
LEMMA LeaveKeeps ==
    ASSUME CoinInv, IsOpenVault, NEW p \in round, NEW fee \in Int,
           SatisfiesPolicy(Withdrawal(round, p, value, fee), SoloPolicy(round, p)),
           Leave(p, Withdrawal(round, p, value, fee))
    PROVE  CoinInv' /\ phase' = "open" /\ round' = round \ {p}
<1>1. /\ fee > 0
      /\ round' = round \ {p} /\ value' = value - Payout(round) - fee /\ age' = 1
      /\ left' = Append(left, p)
      /\ paid' = [paid EXCEPT ![p] = @ + Payout(round)]
      /\ burned' = burned + fee
      /\ phase' = phase
  BY LeaveIs DEF CoinInv
<1>2. round \in SUBSET Participants /\ value \in Int /\ Cardinality(round) > 1
      /\ AcceptedValue(round, value) /\ phase = "open"
  BY DEF CoinInv, OpenCoin, SpendingTypeOK, IsOpenVault, IsVault
<1>3. /\ round \ {p} # {} /\ value' \in Nat /\ AcceptedValue(round', value')
  BY <1>1, <1>2, NextCoin
<1>4. p \in Participants /\ Payout(round) \in Nat
  BY <1>2 DEF Payout
<1>5. SpendingTypeOK'
  <2>1. paid' \in [Participants -> Nat]
    BY <1>1, <1>4 DEF CoinInv, SpendingTypeOK
  <2>2. burned' \in Nat /\ left' \in Seq(Participants) /\ age' \in 0..RecoveryDelay + 1
    BY <1>1, <1>4 DEF CoinInv, SpendingTypeOK
  <2> QED BY <1>1, <1>2, <1>3, <2>1, <2>2 DEF SpendingTypeOK
<1> QED BY <1>1, <1>2, <1>3, <1>5 DEF CoinInv, OpenCoin

(* Dividing what the fee leaves never pays out more than there is.         *)
LEMMA Division ==
    ASSUME NEW n \in 1..3, NEW v \in Nat, NEW fee \in Nat, v >= fee
    PROVE  /\ (v - fee) \div n \in Nat
           /\ ((v - fee) \div n) * n \in Nat
           /\ ((v - fee) \div n) * n <= v
<1>1. v - fee \in Nat
  OBVIOUS
<1>2. CASE n = 1
  BY <1>1, <1>2
<1>3. CASE n = 2
  BY <1>1, <1>3
<1>4. CASE n = 3
  BY <1>1, <1>4
<1> QED BY <1>2, <1>3, <1>4

(* A spend for everybody in closes the vault.                              *)
LEMMA DissolveKeeps ==
    ASSUME CoinInv, phase = "open", NEW fee \in Nat, value >= fee, Dissolve(fee)
    PROVE  CoinInv' /\ phase' = "closed" /\ UNCHANGED <<round, value, age, left>>
<1> DEFINE n == Cardinality(round)
           share == (value - fee) \div n
<1>1. n \in 1..3 /\ value \in Nat
  BY Sizes DEF CoinInv, OpenCoin, SpendingTypeOK
<1>2. share \in Nat /\ share * n \in Nat /\ share * n <= value
  BY <1>1, Division
<1>3. /\ paid' = [p \in Participants |-> paid[p] + IF p \in round THEN share ELSE 0]
      /\ burned' = burned + value - share * n
      /\ phase' = "closed" /\ UNCHANGED <<round, value, age, left>>
  BY DEF Dissolve, Share
<1>4. paid' \in [Participants -> Nat]
  <2>1. \A p \in Participants : paid[p] + (IF p \in round THEN share ELSE 0) \in Nat
    BY <1>2 DEF CoinInv, SpendingTypeOK
  <2> QED BY <1>3, <2>1
<1>5. burned' \in Nat
  <2> HIDE DEF share, n
  <2>1. burned \in Nat
    BY DEF CoinInv, SpendingTypeOK
  <2>2. \A x, y, z \in Nat : x <= y => z + y - x \in Nat
    OBVIOUS
  <2> QED BY <1>1, <1>2, <1>3, <2>1, <2>2
<1> QED BY <1>3, <1>4, <1>5 DEF CoinInv, OpenCoin, SpendingTypeOK

(* Every coin covers the fees of its shared spends.                        *)
LEMMA CoversFees ==
    ASSUME CoinInv, phase = "open"
    PROVE  /\ IsVault(round) => /\ value >= CooperativeFee /\ value >= RecoveryFee
           /\ value - FinalSweepFee > 0
<1>1. /\ round \in SUBSET Participants /\ value \in Nat /\ AcceptedValue(round, value)
      /\ Cardinality(round) \in 1..3
  BY Sizes DEF CoinInv, OpenCoin, SpendingTypeOK
<1> QED BY <1>1, Floors, FeesRelay DEF AcceptedValue, IsVault

(* The funding makes the coin of the first round.                          *)
LEMMA FundKeeps ==
    ASSUME CoinInv, Fund
    PROVE  CoinInv' /\ phase' = "open" /\ round' = Participants /\ phase = "unfunded"
<1>1. /\ phase' = "open" /\ phase = "unfunded"
      /\ round' = Participants /\ value' = FundingValue /\ age' = 1
      /\ UNCHANGED <<left, paid, burned>>
  BY DEF Fund
<1>2. FundingValue \in Nat /\ AcceptedValue(Participants, FundingValue) /\ Participants # {}
  BY FS_EmptySet DEF FundingValue, AcceptedValue
<1> QED BY <1>1, <1>2 DEF CoinInv, OpenCoin, SpendingTypeOK

(* A recovery closes the vault.                                            *)
LEMMA RecoverKeeps ==
    ASSUME CoinInv, NEW signers, Recover(signers)
    PROVE  CoinInv' /\ phase' = "closed" /\ phase = "open" /\ UNCHANGED <<round, value, age, left>>
  BY DissolveKeeps, CoversFees DEF Recover, IsOpenVault

(* The ways a spend moves the coin: funded, older, left by one, or gone.   *)
Moves ==
    \/ phase = "unfunded" /\ phase' = "open" /\ round' = Participants
    \/ phase = "open" /\ UNCHANGED <<phase, round, value>> /\ age' > age
    \/ /\ phase = "open" /\ phase' = "open"
       /\ \E p \in round : round' = round \ {p}
    \/ phase = "open" /\ phase' = "closed" /\ UNCHANGED <<round, value, age, left>>

(* What a spend of the open coin does: somebody leaves by a withdrawal     *)
(* their policy allows, or everybody in is paid.                           *)
LeavesAllowed ==
    \E p \in round, fee \in Int :
        /\ IsOpenVault
        /\ SatisfiesPolicy(Withdrawal(round, p, value, fee), SoloPolicy(round, p))
        /\ Leave(p, Withdrawal(round, p, value, fee))

(* Everybody in is paid an equal part.                                     *)
Dissolves ==
    \E fee \in {CooperativeFee, RecoveryFee, FinalSweepFee} :
        phase = "open" /\ value >= fee /\ Dissolve(fee)

(* The ways to spend come down to these, with this program or without it.  *)
LEMMA SpendingIs ==
    ASSUME CoinInv, SpendingNext
    PROVE  Fund \/ MineBlock \/ LeavesAllowed \/ Dissolves
<1>1. CASE \E p \in Participants : WithdrawAlone(p)
  <2>1. PICK p \in Participants : WithdrawAlone(p)
    BY <1>1
  <2>2. PICK answer \in BelievedAnswers(SoloWithdrawal(round, p, value)) :
           /\ CanAskFor(p, SoloWithdrawal(round, p, value))
           /\ Leave(p, answer.tx)
    BY <2>1 DEF WithdrawAlone
  <2>3. answer.tx = Withdrawal(round, p, value, SoloFeeOf(round))
    BY <2>2 DEF BelievedAnswers, AuthorizedArtifact, SoloWithdrawal
  <2>4. /\ IsOpenVault /\ p \in round
        /\ SatisfiesPolicy(Withdrawal(round, p, value, SoloFeeOf(round)), SoloPolicy(round, p))
    BY <2>2 DEF CanAskFor, SoloWithdrawal
  <2>5. SoloFeeOf(round) \in Int
    BY DEF SoloFeeOf
  <2> QED BY <2>2, <2>3, <2>4, <2>5 DEF LeavesAllowed
<1>2. CASE \E p \in Participants, fee \in LeaverFees : LeaveByPolicy(p, fee)
  BY <1>2 DEF LeaveByPolicy, LeavesAllowed
<1>3. CASE ExitTogether
  BY <1>3, CoversFees DEF ExitTogether, IsOpenVault, Dissolves
<1>4. CASE \E p \in Participants : SweepFinal(p)
  <2>1. phase = "open" /\ Dissolve(FinalSweepFee)
    BY <1>4 DEF SweepFinal, CanSweep
  <2>2. value >= FinalSweepFee
    BY <2>1, CoversFees DEF CoinInv, SpendingTypeOK
  <2> QED BY <2>1, <2>2 DEF Dissolves
<1> QED BY <1>1, <1>2, <1>3, <1>4 DEF SpendingNext

(* A recovery that confirms does the same.                                 *)
LEMMA SigningIs ==
    ASSUME CoinInv, SigningNext
    PROVE  UNCHANGED spending \/ Dissolves
<1>1. ASSUME NEW signers, Recover(signers) PROVE Dissolves
  BY <1>1, CoversFees DEF Recover, IsOpenVault, Dissolves
<1>2. CASE \E vanished \in Participants : ConfirmRecovery(vanished)
  BY <1>1, <1>2 DEF ConfirmRecovery
<1>3. CASE \E vanished \in Participants, signers \in SUBSET Participants :
              CommandRecovery(signers, vanished)
  BY <1>1, <1>3 DEF CommandRecovery
<1> QED BY <1>2, <1>3 DEF SigningNext, SeeCoin, OpenChallenge, FinishChallenge,
           AbandonCeremony, ProposeRecovery, ContributeShare, ExpireRecovery

(* Whatever its fee, it closes the vault.                                  *)
LEMMA DissolvesKeeps ==
    ASSUME CoinInv, Dissolves
    PROVE  /\ CoinInv' /\ phase = "open" /\ phase' = "closed"
           /\ UNCHANGED <<round, value, age, left>>
  BY DissolveKeeps DEF Dissolves

(* Every spend keeps the coin one the runtime recognises.                  *)
LEMMA SpendingKeeps ==
    ASSUME CoinInv, SpendingNext
    PROVE  CoinInv' /\ Moves
<1>1. CASE Fund
  BY <1>1, FundKeeps DEF Moves
<1>2. CASE MineBlock
  BY <1>2 DEF MineBlock, CoinInv, SpendingTypeOK, OpenCoin, Moves
<1>3. CASE LeavesAllowed
  BY <1>3, LeaveKeeps DEF LeavesAllowed, Moves, IsOpenVault
<1>4. CASE Dissolves
  BY <1>4, DissolvesKeeps DEF Moves
<1> QED BY <1>1, <1>2, <1>3, <1>4, SpendingIs

(* A step of a recovery leaves the coin alone or spends it.                *)
LEMMA SigningKeeps ==
    ASSUME CoinInv, SigningNext
    PROVE  /\ CoinInv'
           /\ \/ UNCHANGED spending
              \/ phase = "open" /\ phase' = "closed" /\ UNCHANGED <<round, value, age, left>>
<1>1. CASE UNCHANGED spending
  <2>1. UNCHANGED <<phase, round, value, age, left, paid, burned>>
    BY <1>1 DEF spending
  <2>2. CoinInv'
    BY <2>1 DEF CoinInv, SpendingTypeOK, OpenCoin
  <2> QED BY <1>1, <2>2
<1>2. CASE Dissolves
  BY <1>2, DissolvesKeeps
<1> QED BY <1>1, <1>2, SigningIs

(* Before the funding there is no coin.                                    *)
LEMMA CoinInit == ContractInit => CoinInv
  BY DEF ContractInit, SpendingInit, CoinInv, SpendingTypeOK, OpenCoin

(* Every step keeps it.                                                    *)
LEMMA CoinStep ==
    ASSUME CoinInv, [ContractNext]_<<spending, signing>> PROVE CoinInv'
<1>1. CASE SpendAround
  BY <1>1, SpendingKeeps DEF SpendAround
<1>2. CASE SigningNext
  BY <1>2, SigningKeeps
<1>3. CASE UNCHANGED <<spending, signing>>
  BY <1>3 DEF CoinInv, SpendingTypeOK, OpenCoin, spending
<1> QED BY <1>1, <1>2, <1>3 DEF ContractNext

(* Every variable of the coin stays in its type, and an open coin is one   *)
(* the runtime recognises.                                                 *)
THEOREM CoinIsRecognised == ContractSpec => []CoinInv
  BY CoinInit, CoinStep, PTL DEF ContractSpec

(* Under every economics the validation accepts, and whatever leavers give *)
(* to the miners within their policies: each one still in can withdraw     *)
(* with this program, and the last one can sweep.                          *)
THEOREM AlwaysAWayOut == ContractSpec => []EveryoneCanLeave
<1>1. CoinInv => EveryoneCanLeave
  <2> SUFFICES ASSUME CoinInv, phase = "open"
               PROVE  /\ AcceptedValue(round, value)
                      /\ IsVault(round) => \A p \in round :
                            /\ CanBuildSolo(round, p, value)
                            /\ SatisfiesPolicy(SoloWithdrawal(round, p, value), SoloPolicy(round, p))
                            /\ Relays(SoloFeeOf(round))
                      /\ ~IsVault(round) => CanBuildSweep(value)
    BY DEF EveryoneCanLeave
  <2>1. AcceptedValue(round, value) /\ round \in SUBSET Participants /\ value \in Int
    BY DEF CoinInv, OpenCoin, SpendingTypeOK
  <2>2. CanBuildSweep(value)
    BY CoversFees DEF CanBuildSweep
  <2> QED BY <2>1, <2>2, SoloFits DEF IsVault
<1> QED BY <1>1, CoinIsRecognised, PTL

-----------------------------------------------------------------------------
(* Who is paid what.  The promise alone is not inductive: it needs that    *)
(* the leavers are exactly those no longer in the round, that who is still *)
(* in has nothing yet while the coin is open, and what the coin was worth  *)
(* before anything of it was burned.                                       *)

(* What the schedule leaves to a round.                                    *)
Worth(r) ==
    IF Cardinality(r) = 3 THEN FundingValue
    ELSE IF Cardinality(r) = 2 THEN MaximumPairValue ELSE MaximumFinalValue

(* Who left is who is not in the round.                                    *)
LeaversAreOut ==
    /\ Leavers = Participants \ round
    /\ Len(left) = 3 - Cardinality(round)

(* The schedule's amounts, in the order of leaving.                        *)
LeaversArePaid ==
    \A i \in DOMAIN left :
        paid[left[i]] = IF i = 1 THEN FirstWithdrawal ELSE SecondWithdrawal

(* Who is in the round has nothing yet.                                    *)
OthersWait == \A p \in round : paid[p] = 0

(* Who stayed to the end has what the others have.                         *)
OthersAreEqual == \A p, q \in round : paid[p] = paid[q]

(* The most a shared spend costs.                                          *)
LargestSharedFee == Max({CooperativeFee, RecoveryFee, FinalSweepFee})

(* The inductive invariant.                                                *)
DueInv ==
    /\ phase = "unfunded" => left = <<>> /\ burned = 0 /\ \A p \in Participants : paid[p] = 0
    /\ phase # "unfunded" => LeaversAreOut /\ LeaversArePaid
    /\ phase = "open" => /\ OthersWait
                         /\ value + burned = Worth(round)
                         /\ TotalOf(paid) + burned + value = FundingValue
    /\ phase = "closed" => /\ OthersAreEqual
                           /\ TotalOf(paid) + burned = FundingValue
                           /\ burned <= SoloFeeBudget * Len(left) + LargestSharedFee + 2

(* It bounds each of the three.                                            *)
LEMMA SharedFees ==
    /\ LargestSharedFee \in Nat
    /\ \A fee \in {CooperativeFee, RecoveryFee, FinalSweepFee} : fee <= LargestSharedFee
<1> DEFINE fees == {CooperativeFee, RecoveryFee, FinalSweepFee}
<1>1. \E fee \in fees : \A other \in fees : fee >= other
  OBVIOUS
<1>2. LargestSharedFee \in fees /\ \A other \in fees : LargestSharedFee >= other
  <2> HIDE DEF fees
  <2>1. LargestSharedFee = CHOOSE fee \in fees : \A other \in fees : fee >= other
    BY DEF LargestSharedFee, Max, fees
  <2> QED BY <1>1, <2>1
<1> QED BY <1>2

(* The open coin has at least its floor, so its leavers burned a budget    *)
(* each at most.                                                           *)
LEMMA BudgetsHold ==
    ASSUME CoinInv, DueInv, phase = "open"
    PROVE  burned <= SoloFeeBudget * Len(left)
<1>1. /\ AcceptedValue(round, value) /\ value \in Int /\ burned \in Int
      /\ Cardinality(round) \in 1..3 /\ Len(left) = 3 - Cardinality(round)
      /\ value + burned = Worth(round)
  BY Sizes DEF CoinInv, OpenCoin, SpendingTypeOK, DueInv, LeaversAreOut
<1>2. CASE Cardinality(round) = 3
  <2>1. value = 3 * Deposit /\ Worth(round) = 3 * Deposit /\ Len(left) = 0
    BY <1>1, <1>2 DEF AcceptedValue, Worth, FundingValue
  <2> QED BY <1>1, <2>1
<1>3. CASE Cardinality(round) = 2
  <2>1. RoundOneFloor <= value /\ Worth(round) = MaximumPairValue /\ Len(left) = 1
    BY <1>1, <1>3 DEF AcceptedValue, Worth
  <2>2. SoloFeeBudget * Len(left) = SoloFeeBudget
    BY <2>1
  <2> QED BY <1>1, <2>1, <2>2, Floors
<1>4. CASE Cardinality(round) = 1
  <2>1. RoundTwoFloor <= value /\ Worth(round) = MaximumFinalValue /\ Len(left) = 2
    BY <1>1, <1>4 DEF AcceptedValue, Worth
  <2>2. SoloFeeBudget * Len(left) = 2 * SoloFeeBudget
    BY <2>1
  <2> QED BY <1>1, <2>1, <2>2, Floors
<1> QED BY <1>1, <1>2, <1>3, <1>4

(* The invariant is enough for the promise.                                *)
LEMMA DueIsDue == CoinInv /\ DueInv => EachGetsTheirDue
<1> SUFFICES ASSUME CoinInv, DueInv, phase # "unfunded" PROVE EachGetsTheirDue
  BY DEF EachGetsTheirDue
<1>1. phase \in {"open", "closed"} /\ TotalOf(paid) \in Nat /\ burned \in Nat
      /\ Participants \ Leavers = round
  <2>1. paid \in [Participants -> Nat] /\ round \in SUBSET Participants
    BY DEF CoinInv, SpendingTypeOK
  <2>2. Leavers = Participants \ round
    BY DEF DueInv, LeaversAreOut
  <2>3. TotalOf(paid) \in Nat
    BY <2>1, PayingRound
  <2> QED BY <2>1, <2>2, <2>3 DEF CoinInv, SpendingTypeOK
<1>2. CASE phase = "open"
  <2>1. SoloFeeBudget * Len(left) \in Nat
    BY Sizes DEF CoinInv, SpendingTypeOK, DueInv, LeaversAreOut
  <2>2. TotalOf(paid) + burned + value = FundingValue /\ burned <= SoloFeeBudget * Len(left) + 0
    BY <1>2, <2>1, BudgetsHold, <1>1 DEF DueInv
  <2> QED BY <1>1, <1>2, <2>2 DEF EachGetsTheirDue, DueInv, LeaversArePaid, OthersWait
<1>3. CASE phase = "closed"
  <2>1. /\ TotalOf(paid) + burned + 0 = FundingValue
        /\ burned <= SoloFeeBudget * Len(left) + (LargestSharedFee + 2)
    <3>1. SoloFeeBudget * Len(left) \in Nat
      BY Sizes DEF CoinInv, SpendingTypeOK, DueInv, LeaversAreOut
    <3> QED BY <1>1, <1>3, <3>1, SharedFees DEF DueInv
  <2> QED BY <1>1, <1>3, <2>1 DEF EachGetsTheirDue, DueInv, LeaversArePaid, OthersAreEqual,
           LargestSharedFee
<1> QED BY <1>1, <1>2, <1>3

(* The funding pays nobody and burns nothing.                              *)
LEMMA FundingIsDue ==
    ASSUME CoinInv, DueInv, Fund
    PROVE  DueInv'
<1>1. /\ phase = "unfunded" /\ phase' = "open" /\ round' = Participants
      /\ value' = FundingValue /\ UNCHANGED <<left, paid, burned>>
  BY DEF Fund
<1>2. left = <<>> /\ burned = 0 /\ \A p \in Participants : paid[p] = 0
  BY <1>1 DEF DueInv
<1>3. PICK a, b, c : a # b /\ a # c /\ b # c /\ Participants = {a, b, c}
  BY TheThree
<1>4. paid \in [Participants -> Nat]
  BY DEF CoinInv, SpendingTypeOK
<1>5. TotalOf(paid) = 0
  <2>1. TotalOf(paid) = paid[a] + paid[b] + paid[c]
    BY <1>3, <1>4, TotalIs
  <2> QED BY <1>2, <1>3, <2>1
<1>6. TotalOf(paid)' = 0
  BY <1>1, <1>5
<1>7. FundingValue \in Nat /\ Worth(Participants) = FundingValue
  BY DEF FundingValue, Worth
<1>8. LeaversAreOut'
  BY <1>1, <1>2 DEF LeaversAreOut, Leavers
<1> QED BY <1>1, <1>2, <1>6, <1>7, <1>8 DEF DueInv, LeaversArePaid, OthersWait

(* A leaver is paid what the schedule gives to its place, out of the coin. *)
LEMMA LeavingIsDue ==
    ASSUME CoinInv, DueInv, LeavesAllowed
    PROVE  DueInv'
<1>1. PICK p \in round, fee \in Int :
           /\ IsOpenVault
           /\ SatisfiesPolicy(Withdrawal(round, p, value, fee), SoloPolicy(round, p))
           /\ Leave(p, Withdrawal(round, p, value, fee))
  BY DEF LeavesAllowed
<1>2. /\ fee > 0
      /\ round' = round \ {p} /\ value' = value - Payout(round) - fee
      /\ left' = Append(left, p)
      /\ paid' = [paid EXCEPT ![p] = @ + Payout(round)]
      /\ burned' = burned + fee
      /\ phase = "open" /\ phase' = "open"
  BY <1>1, LeaveIs DEF CoinInv, IsOpenVault
<1>3. /\ round \in SUBSET Participants /\ value \in Nat /\ burned \in Nat
      /\ left \in Seq(Participants) /\ paid \in [Participants -> Nat]
      /\ p \in Participants /\ Payout(round) \in Nat
  BY DEF CoinInv, SpendingTypeOK, Payout
<1>4. /\ LeaversAreOut /\ LeaversArePaid /\ OthersWait /\ value + burned = Worth(round)
      /\ TotalOf(paid) + burned + value = FundingValue
  BY <1>2 DEF DueInv
<1>5. Cardinality(round) \in 2..3 /\ Cardinality(round') = Cardinality(round) - 1
  <2>1. Cardinality(round) \in 0..3 /\ Cardinality(round \ {p}) = Cardinality(round) - 1
    BY <1>3, Sizes
  <2>2. Cardinality(round) > 1
    BY <1>1 DEF IsOpenVault, IsVault
  <2> QED BY <1>2, <2>1, <2>2
<1>6. /\ Len(left) \in Nat /\ Len(left') = Len(left) + 1
      /\ DOMAIN left = 1..Len(left) /\ DOMAIN left' = 1..Len(left) + 1
      /\ left'[Len(left) + 1] = p
      /\ \A i \in DOMAIN left : left'[i] = left[i]
  BY <1>2, <1>3
<1>7. LeaversAreOut'
  <2>1. Leavers' = Leavers \cup {p}
    BY <1>6 DEF Leavers
  <2> QED BY <1>2, <1>3, <1>4, <1>5, <1>6, <2>1 DEF LeaversAreOut
<1>8. paid'[p] = Payout(round) /\ \A q \in Participants : q # p => paid'[q] = paid[q]
  <2>1. paid[p] = 0
    BY <1>4 DEF OthersWait
  <2> QED BY <1>2, <1>3, <2>1
<1>9. LeaversArePaid'
  <2> SUFFICES ASSUME NEW i \in DOMAIN left'
               PROVE  paid'[left'[i]] = IF i = 1 THEN FirstWithdrawal ELSE SecondWithdrawal
    BY DEF LeaversArePaid
  <2>1. CASE i \in DOMAIN left
    <3>1. left[i] \in Leavers
      BY <2>1 DEF Leavers
    <3>2. left[i] \in Participants /\ left[i] # p
      BY <1>4, <3>1 DEF LeaversAreOut
    <3> QED BY <1>4, <1>6, <1>8, <2>1, <3>2 DEF LeaversArePaid
  <2>2. CASE i = Len(left) + 1
    <3>1. i = 1 <=> Cardinality(round) = 3
      BY <1>4, <1>5, <1>6, <2>2 DEF LeaversAreOut
    <3> QED BY <1>6, <1>8, <2>2, <3>1 DEF Payout
  <2> QED BY <1>6, <2>1, <2>2
<1>10. OthersWait'
  BY <1>2, <1>3, <1>4, <1>8 DEF OthersWait
<1>11. Worth(round') = Worth(round) - Payout(round) /\ Worth(round) \in Int
  BY <1>5, Floors DEF Worth, Payout, FundingValue
<1>12. TotalOf(paid) \in Nat /\ TotalOf(paid') = TotalOf(paid) + Payout(round)
  BY <1>2, <1>3, PayingOne
<1>13. TotalOf(paid') + burned' + value' = FundingValue
  BY <1>2, <1>3, <1>4, <1>12
<1>14. value' + burned' = Worth(round')
  BY <1>2, <1>3, <1>4, <1>11
<1> QED BY <1>2, <1>7, <1>9, <1>10, <1>13, <1>14 DEF DueInv

(* What the division leaves over is less than the round has members.       *)
LEMMA Remainder ==
    ASSUME NEW n \in 1..3, NEW v \in Nat, NEW fee \in Nat, v >= fee
    PROVE  v - ((v - fee) \div n) * n <= fee + 2
<1>1. v - fee \in Nat
  OBVIOUS
<1>2. CASE n = 1
  BY <1>1, <1>2
<1>3. CASE n = 2
  BY <1>1, <1>3
<1>4. CASE n = 3
  BY <1>1, <1>4
<1> QED BY <1>2, <1>3, <1>4

(* What is not divided evenly is burned with the fee.                      *)
LEMMA DissolvingIsDue ==
    ASSUME CoinInv, DueInv, Dissolves
    PROVE  DueInv'
<1>1. PICK fee \in {CooperativeFee, RecoveryFee, FinalSweepFee} :
           phase = "open" /\ value >= fee /\ Dissolve(fee)
  BY DEF Dissolves
<1> DEFINE n == Cardinality(round)
           share == (value - fee) \div n
<1>2. /\ n \in 1..3 /\ value \in Nat /\ burned \in Nat /\ fee \in Nat
      /\ round \in SUBSET Participants /\ paid \in [Participants -> Nat]
  BY <1>1, Sizes DEF CoinInv, OpenCoin, SpendingTypeOK
<1>3. share \in Nat /\ share * n \in Nat /\ value - share * n <= fee + 2
  BY <1>1, <1>2, Division, Remainder
<1>4. /\ paid' = [p \in Participants |-> paid[p] + IF p \in round THEN share ELSE 0]
      /\ burned' = burned + value - share * n
      /\ phase' = "closed" /\ UNCHANGED <<round, value, left>>
  BY <1>1 DEF Dissolve, Share
<1>5. /\ LeaversAreOut /\ LeaversArePaid /\ OthersWait
      /\ TotalOf(paid) + burned + value = FundingValue
  BY <1>1 DEF DueInv
<1>6. TotalOf(paid) \in Nat /\ TotalOf(paid') = TotalOf(paid) + share * n
  BY <1>2, <1>3, <1>4, PayingRound
<1> HIDE DEF share, n
<1>7. LeaversAreOut'
  BY <1>4, <1>5 DEF LeaversAreOut, Leavers
<1>8. \A p \in Participants : paid'[p] = paid[p] + IF p \in round THEN share ELSE 0
  BY <1>4
<1>9. LeaversArePaid'
  <2> SUFFICES ASSUME NEW i \in DOMAIN left
               PROVE  paid'[left[i]] = IF i = 1 THEN FirstWithdrawal ELSE SecondWithdrawal
    BY <1>4 DEF LeaversArePaid
  <2>1. left[i] \in Participants /\ left[i] \notin round
    BY <1>5 DEF LeaversAreOut, Leavers
  <2>2. paid'[left[i]] = paid[left[i]] + 0
    BY <1>8, <2>1
  <2> QED BY <1>2, <1>5, <2>1, <2>2 DEF LeaversArePaid
<1>10. OthersAreEqual'
  BY <1>2, <1>4, <1>5, <1>8 DEF OthersAreEqual, OthersWait
<1>11. TotalOf(paid') + burned' = FundingValue
  BY <1>2, <1>3, <1>4, <1>5, <1>6
<1>12. burned' <= SoloFeeBudget * Len(left') + LargestSharedFee + 2
  <2>1. SoloFeeBudget * Len(left) \in Nat
    BY <1>2, <1>5, Sizes DEF LeaversAreOut
  <2>2. burned <= SoloFeeBudget * Len(left)
    BY <1>1, BudgetsHold
  <2>3. fee <= LargestSharedFee /\ LargestSharedFee \in Nat
    BY SharedFees
  <2>4. burned' = burned + value - share * n /\ left' = left
    BY <1>4
  <2>5. PICK budgets \in Nat : budgets = SoloFeeBudget * Len(left)
    BY <2>1
  <2>6. PICK shares \in Nat : shares = share * n
    BY <1>3
  <2>7. burned + value - shares <= budgets + LargestSharedFee + 2
    BY <1>2, <1>3, <2>2, <2>3, <2>5, <2>6
  <2> QED BY <2>4, <2>5, <2>6, <2>7
<1>13. LargestSharedFee' = LargestSharedFee
  BY DEF LargestSharedFee
<1> QED BY <1>4, <1>7, <1>9, <1>10, <1>11, <1>12, <1>13 DEF DueInv

(* Every step keeps it.                                                    *)
LEMMA DueStep ==
    ASSUME CoinInv, DueInv, [ContractNext]_<<spending, signing>>
    PROVE  DueInv'
<1>1. CASE UNCHANGED spending
  <2>1. UNCHANGED <<phase, round, value, left, paid, burned>>
    BY <1>1 DEF spending
  <2> QED BY <2>1 DEF DueInv, LeaversAreOut, Leavers, LeaversArePaid, OthersWait,
          OthersAreEqual
<1>2. CASE MineBlock
  <2>1. UNCHANGED <<phase, round, value, left, paid, burned>>
    BY <1>2 DEF MineBlock
  <2> QED BY <2>1 DEF DueInv, LeaversAreOut, Leavers, LeaversArePaid, OthersWait,
          OthersAreEqual
<1>3. CASE SpendAround
  BY <1>2, <1>3, SpendingIs, FundingIsDue, LeavingIsDue, DissolvingIsDue DEF SpendAround
<1>4. CASE SigningNext
  BY <1>1, <1>4, SigningIs, DissolvingIsDue
<1> QED BY <1>1, <1>3, <1>4 DEF ContractNext

(* Whoever leaves, in which order and with what fees their policies allow: *)
(* no satoshi is lost, leavers have the schedule's amounts, those who      *)
(* stayed have equal ones, and the withdrawals cost a budget each at most. *)
THEOREM EachIsPaid == ContractSpec => []EachGetsTheirDue
<1>1. ContractInit => CoinInv /\ DueInv
  <2>1. ContractInit => DueInv
    BY DEF ContractInit, SpendingInit, DueInv
  <2> QED BY <2>1, CoinInit
<1>2. CoinInv /\ DueInv /\ [ContractNext]_<<spending, signing>> => CoinInv' /\ DueInv'
  BY CoinStep, DueStep
<1> QED BY <1>1, <1>2, DueIsDue, PTL DEF ContractSpec

-----------------------------------------------------------------------------
(* Recoveries.  A coin is known by its round, for rounds only shrink: what *)
(* was seen of the current round was seen of this coin, when it had no     *)
(* more confirmations than now, and later sightings have no fewer.         *)

(* A sighting is one of this coin or an earlier one.                       *)
SeenBefore(s) ==
    /\ phase # "unfunded"
    /\ round \subseteq s.round
    /\ s.round = round => s.confirmations <= age

(* All sightings are, and those under way are the newest.                  *)
SightingsPast ==
    /\ \A p \in Participants : observation[p] # None => SeenBefore(observation[p])
    /\ ceremony # None =>
          /\ SeenBefore(ceremony.seen)
          /\ observation[ceremony.who] # None /\ observation[ceremony.who].round = ceremony.seen.round
                => observation[ceremony.who].confirmations <= ceremony.seen.confirmations

(* Who shared has a sighting.                                              *)
SharersSaw ==
    \A vanished \in Participants :
        recovery[vanished] # None =>
            \A p \in recovery[vanished].shares : observation[p] # None

(* The inductive invariant.                                                *)
WitnessInv == SigningTypeOK /\ SightingsPast /\ SharersSaw /\ RecoveryNeedsWitnesses

(* Nobody has seen anything.                                               *)
LEMMA WitnessInit == ContractInit => WitnessInv
  BY DEF ContractInit, SigningInit, WitnessInv, SigningTypeOK, SightingsPast,
     SharersSaw, RecoveryNeedsWitnesses, NoRecovery

(* A sighting stays one of the past, wherever the coin goes.               *)
LEMMA SightingsStay ==
    ASSUME CoinInv, CoinInv', Moves, phase # "unfunded", NEW s \in Sightings, SeenBefore(s)
    PROVE  SeenBefore(s)'
<1> USE DEF SeenBefore, Sightings
<1>1. CASE UNCHANGED <<phase, round, value>> /\ age' > age
  BY <1>1 DEF CoinInv, SpendingTypeOK
<1>2. CASE phase' = "open" /\ \E p \in round : round' = round \ {p}
  BY <1>2
<1>3. CASE phase' = "closed" /\ UNCHANGED <<round, value, age, left>>
  BY <1>3
<1> QED BY <1>1, <1>2, <1>3 DEF Moves

(* A spend of the coin makes the proposals of its round stale.             *)
LEMMA SpendKeepsWitness ==
    ASSUME CoinInv, WitnessInv, SpendAround
    PROVE  WitnessInv'
<1> USE DEF WitnessInv
<1>1. Moves /\ UNCHANGED <<observation, ceremony>>
  BY SpendingKeeps DEF SpendAround
<1>2. recovery' = recovery \/ recovery' = NoRecovery
  BY DEF SpendAround
<1>3. SigningTypeOK'
  BY <1>1, <1>2 DEF SigningTypeOK, NoRecovery
<1>4. SightingsPast'
  <2>1. CASE phase = "unfunded"
    BY <1>1, <2>1 DEF SightingsPast, SeenBefore
  <2>2. CASE phase # "unfunded"
    <3>1. \A p \in Participants : observation[p] # None => SeenBefore(observation[p])'
      BY <1>1, <2>2, SpendingKeeps, SightingsStay DEF SpendAround, SightingsPast, SigningTypeOK
    <3>2. ceremony # None => SeenBefore(ceremony.seen)'
      BY <1>1, <2>2, SpendingKeeps, SightingsStay DEF SpendAround, SightingsPast, SigningTypeOK
    <3> QED BY <1>1, <3>1, <3>2 DEF SightingsPast
  <2> QED BY <2>1, <2>2
<1>5. RecoveryNeedsWitnesses'
  <2>1. CASE recovery' = NoRecovery
    BY <2>1 DEF RecoveryNeedsWitnesses, NoRecovery
  <2>2. CASE recovery' = recovery /\ round' = round /\ phase' = phase
    <3>1. age' >= age /\ age \in Int /\ age' \in Int
      <4>1. CASE phase = "unfunded"
        BY <1>1, <2>2, <4>1 DEF Moves
      <4>2. CASE phase = "open"
        <5>1. \A p \in round : round \ {p} # round
          OBVIOUS
        <5>2. age' > age
          BY <1>1, <2>2, <4>2, <5>1 DEF Moves
        <5>3. CoinInv'
          BY SpendingKeeps DEF SpendAround
        <5> QED BY <5>2, <5>3 DEF CoinInv, SpendingTypeOK
      <4>3. CASE phase = "closed"
        BY <1>1, <4>3 DEF Moves
      <4> QED BY <4>1, <4>2, <4>3 DEF CoinInv, SpendingTypeOK
    <3> QED BY <1>1, <2>2, <3>1 DEF RecoveryNeedsWitnesses, IsOpenVault
  <2> QED BY <2>1, <2>2 DEF SpendAround
<1>6. SharersSaw'
  BY <1>1, <1>2 DEF SharersSaw, NoRecovery
<1> QED BY <1>3, <1>4, <1>5, <1>6

(* A later sighting of the same coin has no fewer confirmations.           *)
LEMMA ObservingKeepsWitness ==
    ASSUME CoinInv, WitnessInv,
           \/ \E p \in Participants : SeeCoin(p)
           \/ OpenChallenge \/ FinishChallenge \/ AbandonCeremony
    PROVE  WitnessInv'
<1> USE DEF WitnessInv
<1>1. UNCHANGED <<phase, round, value, age, recovery>>
  BY DEF SeeCoin, OpenChallenge, FinishChallenge, AbandonCeremony, spending
<1>2. CASE \E p \in Participants : SeeCoin(p)
  <2>1. PICK p \in Participants : SeeCoin(p)
    BY <1>2
  <2>2. /\ ceremony' = [who |-> p, seen |-> [round |-> round, confirmations |-> age], step |-> "seen"]
        /\ observation' = observation /\ phase = "open" /\ age \in 1..RecoveryDelay + 1
        /\ round \in SUBSET Participants
    BY <2>1 DEF SeeCoin, Seen, CoinInv, OpenCoin, SpendingTypeOK
  <2>3. SigningTypeOK'
    BY <1>1, <2>2 DEF SigningTypeOK, Sightings
  <2>4. /\ ceremony'.who = p /\ ceremony'.seen.round = round /\ ceremony'.seen.confirmations = age
    BY <2>2
  <2>5. SightingsPast'
    BY <1>1, <2>2, <2>4 DEF SightingsPast, SeenBefore
  <2>6. RecoveryNeedsWitnesses'
    BY <1>1, <2>2 DEF RecoveryNeedsWitnesses, IsOpenVault
  <2>7. SharersSaw'
    BY <1>1, <2>2 DEF SharersSaw
  <2> QED BY <2>3, <2>5, <2>6, <2>7
<1>3. CASE OpenChallenge
  <2>1. /\ ceremony # None /\ ceremony' = [ceremony EXCEPT !.step = "challenged"]
        /\ observation' = observation
    BY <1>3 DEF OpenChallenge
  <2>2. ceremony'.who = ceremony.who /\ ceremony'.seen = ceremony.seen
    BY <2>1 DEF SigningTypeOK
  <2>3. SigningTypeOK'
    BY <1>1, <2>1 DEF SigningTypeOK
  <2>4. SightingsPast'
    BY <1>1, <2>1, <2>2 DEF SightingsPast, SeenBefore
  <2>5. RecoveryNeedsWitnesses'
    BY <1>1, <2>1 DEF RecoveryNeedsWitnesses, IsOpenVault
  <2>6. SharersSaw'
    BY <1>1, <2>1 DEF SharersSaw
  <2> QED BY <2>3, <2>4, <2>5, <2>6
<1>4. CASE FinishChallenge
  <2> DEFINE who == ceremony.who
             seen == ceremony.seen
  <2>1. /\ ceremony # None /\ ceremony' = None
        /\ observation' = [observation EXCEPT ![who] = seen]
        /\ seen.round = round
    BY <1>4 DEF FinishChallenge, ChallengeStands
  <2>2. who \in Participants /\ seen \in Sightings
    BY <2>1 DEF SigningTypeOK
  <2>3. /\ observation'[who] = seen
        /\ \A p \in Participants : p # who => observation'[p] = observation[p]
    BY <2>1, <2>2 DEF SigningTypeOK
  <2>4. SigningTypeOK'
    BY <1>1, <2>1, <2>2 DEF SigningTypeOK
  <2>5. SightingsPast'
    BY <1>1, <2>1, <2>2, <2>3 DEF SightingsPast, SeenBefore
  <2>6. RecoveryNeedsWitnesses'
    <3> SUFFICES ASSUME NEW vanished \in Participants, recovery[vanished] # None,
                        NEW p \in recovery[vanished].shares
                 PROVE  /\ observation'[p].round = round
                        /\ observation'[p].confirmations > RecoveryDelay
      BY <1>1 DEF RecoveryNeedsWitnesses, IsOpenVault
    <3>1. /\ p \in Participants /\ observation[p].round = round
          /\ observation[p].confirmations > RecoveryDelay
      BY DEF RecoveryNeedsWitnesses, SigningTypeOK
    <3>2. CASE p # who
      BY <2>3, <3>1, <3>2
    <3>3. observation[p] # None
      BY <3>1 DEF SharersSaw
    <3>4. CASE p = who
      <4>1. observation[p].confirmations <= seen.confirmations
        BY <2>1, <3>1, <3>3, <3>4 DEF SightingsPast
      <4>2. observation[p] \in Sightings
        BY <3>1, <3>3 DEF SigningTypeOK
      <4> QED BY <2>1, <2>2, <2>3, <3>1, <3>4, <4>1, <4>2 DEF Sightings
    <3> QED BY <3>2, <3>4
  <2>7. SharersSaw'
    BY <1>1, <2>2, <2>3, NoneIsNoSighting DEF SharersSaw, SigningTypeOK
  <2> QED BY <2>4, <2>5, <2>6, <2>7
<1>5. CASE AbandonCeremony
  BY <1>1, <1>5 DEF AbandonCeremony, SigningTypeOK, SightingsPast, SeenBefore,
     SharersSaw, RecoveryNeedsWitnesses, IsOpenVault
<1> QED BY <1>2, <1>3, <1>4, <1>5

(* A proposal is opened, joined and dropped under the current coin.        *)
LEMMA SharingKeepsWitness ==
    ASSUME CoinInv, WitnessInv, NEW p \in Participants, NEW vanished \in Participants,
           \/ ProposeRecovery(p, vanished)
           \/ ContributeShare(p, vanished)
           \/ ExpireRecovery(vanished)
    PROVE  WitnessInv'
<1> USE DEF WitnessInv
<1>1. UNCHANGED <<phase, round, value, age, observation, ceremony>>
  BY DEF ProposeRecovery, ContributeShare, ExpireRecovery, spending
<1>2. SightingsPast'
  BY <1>1 DEF SightingsPast, SeenBefore
<1>3. CASE ProposeRecovery(p, vanished)
  <2>1. /\ recovery' = [recovery EXCEPT ![vanished] =
                [status |-> "collecting", shares |-> {}]]
        /\ IsOpenVault
    BY <1>3 DEF ProposeRecovery
  <2>2. \A v \in Participants :
            \/ recovery'[v] = recovery[v]
            \/ recovery'[v] = [status |-> "collecting", shares |-> {}]
    BY <2>1 DEF SigningTypeOK
  <2>3. SigningTypeOK'
    BY <1>1, <2>1 DEF SigningTypeOK
  <2>4. SharersSaw'
    BY <1>1, <2>2 DEF SharersSaw
  <2>5. RecoveryNeedsWitnesses'
    <3>1. 0 # RecoveryThreshold(round) /\ Cardinality({}) = 0
      BY <2>1, Sizes, FS_EmptySet DEF IsOpenVault, IsVault, RecoveryThreshold, CoinInv, SpendingTypeOK
    <3> QED BY <1>1, <2>1, <2>2, <3>1 DEF RecoveryNeedsWitnesses, IsOpenVault
  <2> QED BY <1>2, <2>3, <2>4, <2>5
<1>4. CASE ContributeShare(p, vanished)
  <2> DEFINE shares == recovery[vanished].shares \cup {p}
             proposal == [status |-> IF Cardinality(shares) = RecoveryThreshold(round)
                                     THEN "finalized" ELSE "collecting",
                          shares |-> shares]
  <2>1. /\ recovery' = [recovery EXCEPT ![vanished] = proposal]
        /\ recovery[vanished] # None /\ IsOpenVault
        /\ p \in RecoverySigners(round, vanished)
        /\ observation[p] # None /\ observation[p].round = round
        /\ observation[p].confirmations > RecoveryDelay
    BY <1>4 DEF ContributeShare, SawItMature, SawThisCoin, IsMature, SignedOnPage, ValidShare
  <2>2. /\ recovery'[vanished] = proposal
        /\ \A v \in Participants : v # vanished => recovery'[v] = recovery[v]
    BY <2>1 DEF SigningTypeOK
  <2>3. recovery[vanished].shares \in SUBSET Participants
    BY <2>1 DEF SigningTypeOK
  <2>4. SigningTypeOK'
    BY <1>1, <2>1, <2>3 DEF SigningTypeOK
  <2>5. /\ \A q \in shares : /\ q \in RecoverySigners(round, vanished)
                             /\ observation[q] # None /\ observation[q].round = round
                             /\ observation[q].confirmations > RecoveryDelay
        /\ proposal.shares = shares
        /\ proposal.status = "finalized" <=> Cardinality(shares) = RecoveryThreshold(round)
    BY <2>1 DEF RecoveryNeedsWitnesses, SharersSaw
  <2>6. SharersSaw'
    BY <1>1, <2>2, <2>5 DEF SharersSaw
  <2>7. age > RecoveryDelay
    <3>1. observation[p] \in Sightings /\ observation[p].confirmations <= age
      BY <2>1 DEF SightingsPast, SeenBefore, SigningTypeOK
    <3> QED BY <2>1, <3>1 DEF Sightings, CoinInv, SpendingTypeOK
  <2> HIDE DEF proposal, shares
  <2>8. RecoveryNeedsWitnesses'
    <3> SUFFICES ASSUME NEW v \in Participants, recovery'[v] # None
                 PROVE  /\ IsOpenVault
                        /\ recovery'[v].shares \subseteq RecoverySigners(round, v)
                        /\ recovery'[v].shares # {} => age > RecoveryDelay
                        /\ \A q \in recovery'[v].shares :
                              /\ observation[q].round = round
                              /\ observation[q].confirmations > RecoveryDelay
                        /\ recovery'[v].status = "finalized"
                              <=> Cardinality(recovery'[v].shares) = RecoveryThreshold(round)
      BY <1>1 DEF RecoveryNeedsWitnesses, IsOpenVault, RecoverySigners, RecoveryThreshold
    <3>1. CASE v = vanished
      BY <2>1, <2>2, <2>5, <2>7, <3>1
    <3>2. CASE v # vanished
      BY <2>2, <3>2 DEF RecoveryNeedsWitnesses
    <3> QED BY <3>1, <3>2
  <2> QED BY <1>2, <2>4, <2>6, <2>8
<1>5. CASE ExpireRecovery(vanished)
  <2>1. /\ recovery' = [recovery EXCEPT ![vanished] = None]
        /\ \A v \in Participants : recovery'[v] = recovery[v] \/ recovery'[v] = None
    BY <1>5 DEF ExpireRecovery, SigningTypeOK
  <2>2. SigningTypeOK'
    BY <1>1, <2>1 DEF SigningTypeOK
  <2>3. SharersSaw'
    BY <1>1, <2>1 DEF SharersSaw
  <2>4. RecoveryNeedsWitnesses'
    BY <1>1, <2>1 DEF RecoveryNeedsWitnesses, IsOpenVault
  <2> QED BY <1>2, <2>2, <2>3, <2>4
<1> QED BY <1>3, <1>4, <1>5

(* A recovery that confirms ends the vault and every proposal with it.     *)
LEMMA RecoveringKeepsWitness ==
    ASSUME CoinInv, WitnessInv, NEW signers,
           Recover(signers), recovery' = NoRecovery, UNCHANGED <<observation, ceremony>>
    PROVE  WitnessInv'
<1> USE DEF WitnessInv
<1>1. phase' = "closed" /\ UNCHANGED <<round, value, age>>
  BY RecoverKeeps
<1>2. SigningTypeOK'
  BY DEF SigningTypeOK, NoRecovery
<1>3. SightingsPast'
  BY <1>1 DEF SightingsPast, SeenBefore
<1>4. SharersSaw' /\ RecoveryNeedsWitnesses'
  BY DEF SharersSaw, RecoveryNeedsWitnesses, NoRecovery
<1> QED BY <1>2, <1>3, <1>4

(* Every step keeps it.                                                    *)
LEMMA WitnessStep ==
    ASSUME CoinInv, WitnessInv, [ContractNext]_<<spending, signing>> PROVE WitnessInv'
<1>1. CASE SpendAround
  BY <1>1, SpendKeepsWitness
<1>2. CASE SigningNext
  <2>1. CASE \/ \E p \in Participants : SeeCoin(p)
             \/ OpenChallenge \/ FinishChallenge \/ AbandonCeremony
    BY <2>1, ObservingKeepsWitness
  <2>2. CASE \E p, vanished \in Participants :
                \/ ProposeRecovery(p, vanished) \/ ContributeShare(p, vanished)
                \/ ExpireRecovery(vanished)
    BY <2>2, SharingKeepsWitness
  <2>3. CASE \E vanished \in Participants : ConfirmRecovery(vanished)
    BY <2>3, RecoveringKeepsWitness DEF ConfirmRecovery
  <2>4. CASE \E vanished \in Participants, signers \in SUBSET Participants :
                CommandRecovery(signers, vanished)
    BY <2>4, RecoveringKeepsWitness DEF CommandRecovery
  <2> QED BY <1>2, <2>1, <2>2, <2>3, <2>4 DEF SigningNext
<1>3. CASE UNCHANGED <<spending, signing>>
  <2>1. UNCHANGED <<phase, round, value, age, observation, ceremony, recovery>>
    BY <1>3 DEF spending, signing
  <2> QED BY <2>1 DEF WitnessInv, SigningTypeOK, SightingsPast, SeenBefore, SharersSaw,
          RecoveryNeedsWitnesses, IsOpenVault
<1> QED BY <1>1, <1>2, <1>3 DEF ContractNext

(* However the spends, the sightings and the shares interleave, the shares *)
(* against a participant are those of members of the round who each saw    *)
(* this very coin unspent for longer than the delay, for every delay.      *)
THEOREM WitnessesNeeded == ContractSpec => []RecoveryNeedsWitnesses
<1>1. ContractInit => CoinInv /\ WitnessInv
  BY CoinInit, WitnessInit
<1>2. CoinInv /\ WitnessInv /\ [ContractNext]_<<spending, signing>>
        => CoinInv' /\ WitnessInv'
  BY CoinStep, WitnessStep
<1>3. WitnessInv => RecoveryNeedsWitnesses
  BY DEF WitnessInv
<1> QED BY <1>1, <1>2, <1>3, PTL DEF ContractSpec
=============================================================================
