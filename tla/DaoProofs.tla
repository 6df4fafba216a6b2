----------------------------- MODULE DaoProofs -----------------------------
(***************************************************************************)
(* Proofs about VotingPower and about Dao, which composes it with the      *)
(* proposal module.                                                        *)
(*                                                                         *)
(* The voting module.  A step of it is a step of the vesting contract, or  *)
(* none of it, so that its inductive invariant and what it keeps of the    *)
(* past carry over; the staking contract only adds the distribution of a   *)
(* new block.  The sums: of every record the power is what counts less     *)
(* what was claimed (PowerOfSafe), so the sum of the powers is the         *)
(* difference of the two sums that the total subtracts.                    *)
(*                                                                         *)
(* The composition.  A step of it is a step of the voting module, hooks    *)
(* included (DaoMoves), so that powers of past blocks stay; and with these *)
(* answers it is a step of Proposal (StepsOfProposal), so that all that    *)
(* ProposalProofs shows holds of it, and it needs only to be shown what    *)
(* the answers add: that the total power covers the powers (Covering).     *)
(***************************************************************************)
EXTENDS Dao, VestingProofs, Sequences

-----------------------------------------------------------------------------
(* The voting module.                                                      *)

StakesTyped == staked \in [InitHeight .. height -> [Address -> Nat]]

VPIInv == IInv /\ StakesTyped /\ active_threshold \in ActiveThreshold

\* No answer of the staking contract about an earlier block changes.
KeepsStakes == \A h \in InitHeight .. height - 1 : staked'[h] = staked[h]

(* A step of the voting module is one of the vesting contract, or leaves   *)
(* it alone.                                                               *)
LEMMA VestingOnly == [VPNext]_vpvars => [Next]_vars
BY DEF VPNext, vpvars, VPNextBlock, VestingStep, UpdateActiveThreshold, Next

LEMMA InitVPIInv == VPInit => VPIInv
<1> SUFFICES ASSUME VPInit PROVE VPIInv
    OBVIOUS
<1>1. IInv /\ height = InitHeight
    BY InitIInv DEF VPInit, Init
<1>2. StakesTyped
  <2>1. InitHeight .. height = {InitHeight}
      BY <1>1, VestingAssumption
  <2> QED
      BY <2>1, VotingPowerAssumption DEF VPInit, StakesTyped
<1>3. active_threshold \in ActiveThreshold
    BY VotingPowerAssumption DEF VPInit
<1> QED
    BY <1>1, <1>2, <1>3 DEF VPIInv

LEMMA StakesStep ==
  ASSUME VPIInv, [VPNext]_vpvars
  PROVE  StakesTyped' /\ KeepsStakes
<1>h. height \in Nat /\ height >= InitHeight /\ InitHeight \in Nat
    BY VestingAssumption DEF VPIInv, IInv, TypeOK
<1>1. CASE VPNextBlock
  <2>1. PICK stake \in Stakes : staked' = Put(staked, height', stake)
      BY <1>1 DEF VPNextBlock
  <2>2. height' = height + 1
      BY <1>1 DEF VPNextBlock, NextBlock
  <2>3. DOMAIN staked = InitHeight .. height
      BY DEF VPIInv, StakesTyped
  <2>4. DOMAIN staked' = InitHeight .. height'
      BY <2>1, <2>2, <2>3, <1>h DEF Put
  <2>5. stake \in [Address -> Nat]
      BY VotingPowerAssumption
  <2>6. \A h \in InitHeight .. height' :
          staked'[h] = IF h = height' THEN stake ELSE staked[h]
      BY <2>1, <2>2, <2>3, <1>h DEF Put
  <2>7. StakesTyped'
      BY <2>1, <2>2, <2>3, <2>4, <2>5, <2>6, <1>h DEF VPIInv, StakesTyped, Put
  <2>8. KeepsStakes
      BY <2>2, <2>6, <1>h DEF KeepsStakes
  <2> QED
      BY <2>7, <2>8
<1>2. CASE UNCHANGED <<height, staked>>
    BY <1>2 DEF VPIInv, StakesTyped, KeepsStakes
<1> QED
    BY <1>1, <1>2 DEF VPNext, vpvars, vars, VestingStep, UpdateActiveThreshold

LEMMA StepVPIInv ==
  ASSUME VPIInv, [VPNext]_vpvars
  PROVE  VPIInv' /\ KeepsPast /\ KeepsStakes
<1>1. IInv' /\ KeepsPast
    BY VestingOnly, StepIInv DEF VPIInv
<1>2. active_threshold' \in ActiveThreshold
    BY VotingPowerAssumption
    DEF VPIInv, VPNext, vpvars, VPNextBlock, VestingStep, UpdateActiveThreshold
<1> QED
    BY <1>1, <1>2, StakesStep DEF VPIInv

(* A step that keeps what is stored of the past keeps the past powers.     *)
LEMMA PowersKept ==
  ASSUME VPIInv, VPIInv', KeepsPast, KeepsStakes, NEW h \in 0 .. height - 1
  PROVE  /\ \A a \in Address : VotingPowerAt(a, h)' = VotingPowerAt(a, h)
         /\ TotalPowerAt(h)' = TotalPowerAt(h)
<1>h. height \in Nat /\ InitHeight \in Nat
    BY VestingAssumption DEF VPIInv, IInv, TypeOK
<1>1. h >= InitHeight => staked'[h] = staked[h]
    BY <1>h DEF KeepsStakes
<1>2. \A a \in Address : StakedAt(a, h)' = StakedAt(a, h)
    BY <1>1, <1>h DEF StakedAt
<1>3. TotalStakedAt(h)' = TotalStakedAt(h)
    BY <1>1, <1>h DEF TotalStakedAt
<1>4. ASSUME NEW a \in Address
      PROVE  VotingPowerAt(a, h)' = VotingPowerAt(a, h)
  <2>1. LoadAt(data'[a], h) = LoadAt(data[a], h)
      BY DEF KeepsPast
  <2> QED
      BY <2>1, <1>2 DEF VotingPowerAt
<1>5. TotalPowerAt(h)' = TotalPowerAt(h)
  <2>1. LoadAt(total', h) = LoadAt(total, h)
      BY DEF KeepsPast
  <2> QED
      BY <2>1, <1>3 DEF TotalPowerAt
<1> QED
    BY <1>4, <1>5

-----------------------------------------------------------------------------
(* The sums at the current block.                                          *)

\* The record that is read of an address, and its figures.
Rec(a) == LoadAt(data[a], height)
CountedAmounts == [a \in Registered |-> Counted(Rec(a))]
ClaimedAmounts == [a \in Registered |-> Rec(a).claimed_amount]
VestedAmounts == [a \in Registered |-> Rec(a).vested_amount]
VestingAmounts == [a \in Address |-> Rec(a).vesting_amount]
VestingPowers == [a \in Registered |-> VestingPower(Rec(a))]

LEMMA PowerOfSafe ==
  ASSUME NEW d \in SafeData
  PROVE  /\ d.vesting_amount \in Nat /\ d.claimed_amount \in Nat
         /\ d.vested_amount \in Nat /\ Counted(d) \in Nat
         /\ d.claimed_amount <= Counted(d) /\ d.vested_amount <= Counted(d)
         /\ Counted(d) <= d.vesting_amount
         /\ VestingPower(d) = Counted(d) - d.claimed_amount
<1>1. /\ d.vesting_amount \in Nat /\ d.claimed_amount \in Nat
      /\ d.vested_amount \in Nat /\ d.prevested_amount \in Nat
      /\ CountedIfClaimed(d) /\ d.vested_amount <= Counted(d)
    BY MaxUintAssumption DEF SafeData, VestingData, Amounts
<1>2. Counted(d) \in Nat /\ Counted(d) <= d.vesting_amount
    BY <1>1 DEF Counted
<1>3. d.claimed_amount <= Counted(d)
    BY <1>1, <1>2 DEF CountedIfClaimed
<1>4. VestingPower(d) = Counted(d) - d.claimed_amount
    BY <1>1, <1>2, <1>3 DEF VestingPower, SubOrZero, Counted, CountedIfClaimed
<1> QED
    BY <1>1, <1>2, <1>3, <1>4

LEMMA RecsSafe ==
  ASSUME IInv
  PROVE  /\ IsFiniteSet(Address) /\ Registered \in SUBSET Address
         /\ IsFiniteSet(Registered)
         /\ \A a \in Address : Rec(a) \in SafeData
<1>1. IsFiniteSet(Address) /\ Registered \in SUBSET Address
    BY VestingAssumption DEF IInv, TypeOK
<1>2. IsFiniteSet(Registered)
    BY <1>1, FS_Subset
<1>3. height \in Nat /\ height - 1 \in Nat
    BY VestingAssumption DEF IInv, TypeOK
<1>4. ASSUME NEW a \in Address
      PROVE  Rec(a) \in SafeData
  <2>1. IsStore(data[a], SafeData) /\ LogUpTo(data[a], height - 1)
      BY DEF IInv, DataBehind
  <2> QED
      BY <1>3, <2>1, LoadType DEF Rec
<1> QED
    BY <1>1, <1>2, <1>4

(* The sums of the figures that are recorded, how they compare, and what   *)
(* the total that is read consists of.                                     *)
LEMMA SumsCompare ==
  ASSUME IInv
  PROVE  /\ SumFunctionOnSet(ClaimedAmounts, Registered) \in Nat
         /\ SumFunctionOnSet(VestedAmounts, Registered)
              <= SumFunctionOnSet(CountedAmounts, Registered)
         /\ SumFunctionOnSet(VestedAmounts, Registered) \in Nat
         /\ SumFunctionOnSet(CountedAmounts, Registered) \in Nat
         /\ SumFunctionOnSet(VestingPowers, Registered) \in Nat
         /\ SumFunctionOnSet(CountedAmounts, Registered)
              = SumFunctionOnSet(VestingPowers, Registered)
                  + SumFunctionOnSet(ClaimedAmounts, Registered)
         /\ SumFunctionOnSet(CountedAmounts, Registered)
              <= SumFunctionOnSet(VestingAmounts, Address)
         /\ SumFunctionOnSet(VestingAmounts, Address) \in Nat
         /\ \A a \in Registered :
              VestingPower(Rec(a)) \in Nat
              /\ VestingPower(Rec(a)) <= SumFunctionOnSet(VestingAmounts, Address)
<1>1. /\ IsFiniteSet(Address) /\ Registered \in SUBSET Address /\ IsFiniteSet(Registered)
      /\ \A a \in Address : Rec(a) \in SafeData
    BY RecsSafe
<1>2. ASSUME NEW a \in Registered
      PROVE  /\ CountedAmounts[a] \in Nat /\ ClaimedAmounts[a] \in Nat
             /\ VestedAmounts[a] \in Nat /\ VestingPowers[a] \in Nat
             /\ VestedAmounts[a] <= CountedAmounts[a]
             /\ CountedAmounts[a] = VestingPowers[a] + ClaimedAmounts[a]
             /\ CountedAmounts[a] <= VestingAmounts[a]
             /\ VestingPowers[a] <= VestingAmounts[a]
             /\ VestingPowers[a] = VestingPower(Rec(a))
  <2>1. Rec(a) \in SafeData /\ a \in Address
      BY <1>1
  <2>2. /\ CountedAmounts[a] = Counted(Rec(a))
        /\ ClaimedAmounts[a] = Rec(a).claimed_amount
        /\ VestedAmounts[a] = Rec(a).vested_amount
        /\ VestingPowers[a] = VestingPower(Rec(a))
        /\ VestingAmounts[a] = Rec(a).vesting_amount
      BY <2>1 DEF CountedAmounts, ClaimedAmounts, VestedAmounts, VestingPowers, VestingAmounts
  <2>3. /\ Rec(a).vesting_amount \in Nat /\ Rec(a).claimed_amount \in Nat
        /\ Rec(a).vested_amount \in Nat /\ Counted(Rec(a)) \in Nat
        /\ Rec(a).claimed_amount <= Counted(Rec(a))
        /\ Rec(a).vested_amount <= Counted(Rec(a))
        /\ Counted(Rec(a)) <= Rec(a).vesting_amount
        /\ VestingPower(Rec(a)) = Counted(Rec(a)) - Rec(a).claimed_amount
      BY <2>1, PowerOfSafe
  <2> QED
      BY <2>2, <2>3
<1>3. \A a \in Address : VestingAmounts[a] \in Nat
    BY <1>1, PowerOfSafe DEF VestingAmounts
<1>4. /\ SumFunctionOnSet(ClaimedAmounts, Registered) \in Nat
      /\ SumFunctionOnSet(VestedAmounts, Registered) \in Nat
      /\ SumFunctionOnSet(CountedAmounts, Registered) \in Nat
      /\ SumFunctionOnSet(VestingPowers, Registered) \in Nat
      /\ SumFunctionOnSet(VestingAmounts, Address) \in Nat
      /\ SumFunctionOnSet(VestingAmounts, Registered) \in Nat
    BY <1>1, <1>2, <1>3, SumIsNat
<1>5. SumFunctionOnSet(VestedAmounts, Registered)
        <= SumFunctionOnSet(CountedAmounts, Registered)
    BY <1>1, <1>2, SumOfMore
<1>6. SumFunctionOnSet(CountedAmounts, Registered)
        = SumFunctionOnSet(VestingPowers, Registered)
            + SumFunctionOnSet(ClaimedAmounts, Registered)
    BY <1>1, <1>2, SumOfBoth
<1>7. SumFunctionOnSet(CountedAmounts, Registered)
        <= SumFunctionOnSet(VestingAmounts, Registered)
    BY <1>1, <1>2, <1>3, SumOfMore
<1>8. SumFunctionOnSet(VestingAmounts, Registered)
        <= SumFunctionOnSet(VestingAmounts, Address)
    BY <1>1, <1>3, SumOfPart
<1>9. ASSUME NEW a \in Registered
      PROVE  /\ VestingPower(Rec(a)) \in Nat
             /\ VestingPower(Rec(a)) <= SumFunctionOnSet(VestingAmounts, Address)
  <2>1. a \in Address
      BY <1>1
  <2>2. VestingAmounts[a] <= SumFunctionOnSet(VestingAmounts, Address)
      BY <1>1, <1>3, <2>1, OneOfSum
  <2> QED
      BY <1>2, <1>3, <1>4, <2>1, <2>2
<1> QED
    BY <1>4, <1>5, <1>6, <1>7, <1>8, <1>9

LEMMA TotalRead ==
  ASSUME IInv, LatestMatch, height > InitHeight
  PROVE  /\ LoadAt(total, height).vesting_amount = SumFunctionOnSet(CountedAmounts, Registered)
         /\ LoadAt(total, height).claimed_amount = SumFunctionOnSet(ClaimedAmounts, Registered)
         /\ LoadAt(total, height).vested_amount = SumFunctionOnSet(VestedAmounts, Registered)
<1> DEFINE read == [a \in Registered |-> LoadAt(data[a], height)]
<1>1. LoadAt(total, height) = TotalOf(read)
    BY MatchNow DEF TotalMatchesAccounts
<1>2. /\ DOMAIN read = Registered
      /\ [a \in Registered |-> Counted(read[a])] = CountedAmounts
      /\ [a \in Registered |-> read[a].claimed_amount] = ClaimedAmounts
      /\ [a \in Registered |-> read[a].vested_amount] = VestedAmounts
    BY DEF CountedAmounts, ClaimedAmounts, VestedAmounts, Rec
<1> HIDE DEF read
<1>3. /\ TotalOf(read).vesting_amount = SumFunction(CountedAmounts)
      /\ TotalOf(read).claimed_amount = SumFunction(ClaimedAmounts)
      /\ TotalOf(read).vested_amount = SumFunction(VestedAmounts)
    BY <1>2 DEF TotalOf
<1>4. /\ DOMAIN CountedAmounts = Registered /\ DOMAIN ClaimedAmounts = Registered
      /\ DOMAIN VestedAmounts = Registered
    BY DEF CountedAmounts, ClaimedAmounts, VestedAmounts
<1> QED
    BY <1>1, <1>3, <1>4 DEF SumFunction

(* What is staked, as far as the sums fit.                                 *)
LEMMA StakesCompare ==
  ASSUME VPIInv
  PROVE  /\ TotalStakedAt(height) = SumFunctionOnSet(staked[height], Address)
         /\ TotalStakedAt(height) \in Nat
         /\ \A a \in Address : /\ StakedAt(a, height) = staked[height][a]
                               /\ StakedAt(a, height) \in Nat
                               /\ StakedAt(a, height) <= TotalStakedAt(height)
<1>1. height \in Nat /\ InitHeight \in Nat /\ height >= InitHeight /\ IsFiniteSet(Address)
    BY VestingAssumption DEF VPIInv, IInv, TypeOK
<1>2. staked[height] \in [Address -> Nat]
    BY <1>1 DEF VPIInv, StakesTyped
<1>3. TotalStakedAt(height) = SumFunctionOnSet(staked[height], Address)
    BY <1>1, <1>2 DEF TotalStakedAt, SumFunction
<1>4. SumFunctionOnSet(staked[height], Address) \in Nat
    BY <1>1, <1>2, SumIsNat
<1>5. ASSUME NEW a \in Address
      PROVE  /\ StakedAt(a, height) = staked[height][a]
             /\ StakedAt(a, height) \in Nat
             /\ StakedAt(a, height) <= TotalStakedAt(height)
  <2>1. StakedAt(a, height) = staked[height][a]
      BY <1>1 DEF StakedAt
  <2>2. staked[height][a] <= SumFunctionOnSet(staked[height], Address)
      BY <1>1, <1>2, OneOfSum
  <2> QED
      BY <1>2, <1>3, <2>1, <2>2
<1> QED
    BY <1>3, <1>4, <1>5

(* The total power that is read is what is staked, and the powers of the   *)
(* registered accounts; nothing over- or underflows.                       *)
LEMMA TotalPowerIs ==
  ASSUME VPIInv, LatestMatch, height > InitHeight, PowersFit
  PROVE  /\ TotalPowerAt(height)
              = TotalStakedAt(height) + SumFunctionOnSet(VestingPowers, Registered)
         /\ TotalPowerAt(height) \in Nat
         /\ ActualPower <= TotalPowerAt(height)
<1>1. IInv
    BY DEF VPIInv
<1> DEFINE T == TotalStakedAt(height)
           C == SumFunctionOnSet(CountedAmounts, Registered)
           D == SumFunctionOnSet(ClaimedAmounts, Registered)
           E == SumFunctionOnSet(VestedAmounts, Registered)
           P == SumFunctionOnSet(VestingPowers, Registered)
           V == SumFunctionOnSet(VestingAmounts, Address)
<1>2. /\ C \in Nat /\ D \in Nat /\ E \in Nat /\ P \in Nat /\ V \in Nat
      /\ E <= C /\ C = P + D /\ C <= V
    BY <1>1, SumsCompare
<1>3. T \in Nat
    BY StakesCompare
<1>4. T + V <= MaxUint /\ MaxUint \in Nat
  <2>1. DOMAIN VestingAmounts = Address
      BY DEF VestingAmounts
  <2>2. VestingAmounts = [a \in Address |-> LoadAt(data[a], height).vesting_amount]
      BY DEF VestingAmounts, Rec
  <2> QED
      BY <2>1, <2>2, MaxUintAssumption DEF PowersFit, SumFunction
<1>5. /\ TotalPowerAt(height) = AddOrZero(T, SubOrZero(C, D))
      /\ ActualPower = AddOrZero(T, SubOrZero(E, D))
    BY <1>1, TotalRead DEF TotalPowerAt, ActualPower
<1> HIDE DEF T, C, D, E, P, V
<1>6. SubOrZero(C, D) = P /\ SubOrZero(E, D) \in Nat /\ SubOrZero(E, D) <= P
    BY <1>2 DEF SubOrZero
<1>7. AddOrZero(T, P) = T + P /\ AddOrZero(T, SubOrZero(E, D)) <= T + P
    BY <1>2, <1>3, <1>4, <1>6 DEF AddOrZero
<1> QED
    BY <1>2, <1>3, <1>5, <1>6, <1>7 DEF T, P

LEMMA PowersAddUp ==
  ASSUME VPIInv, LatestMatch
  PROVE  PowerAddsUp
<1> SUFFICES ASSUME height > InitHeight, PowersFit
             PROVE  TotalPowerAt(height) =
                      SumFunction([a \in Address |-> IF a \in Registered
                                                      THEN VotingPowerAt(a, height)
                                                      ELSE StakedAt(a, height)])
    BY DEF PowerAddsUp
<1> DEFINE mine == [a \in Address |-> IF a \in Registered
                                     THEN VotingPowerAt(a, height)
                                     ELSE StakedAt(a, height)]
           vested == [a \in Address |-> IF a \in Registered THEN VestingPower(Rec(a)) ELSE 0]
<1>1. IInv
    BY DEF VPIInv
<1>2. /\ IsFiniteSet(Address) /\ Registered \in SUBSET Address /\ IsFiniteSet(Registered)
    BY <1>1, RecsSafe
<1>3. TotalStakedAt(height) + SumFunctionOnSet(VestingAmounts, Address) <= MaxUint
  <2>1. /\ DOMAIN VestingAmounts = Address
        /\ VestingAmounts = [a \in Address |-> LoadAt(data[a], height).vesting_amount]
      BY DEF VestingAmounts, Rec
  <2> QED
      BY <2>1 DEF PowersFit, SumFunction
<1>4. ASSUME NEW a \in Address
      PROVE  /\ staked[height][a] \in Int /\ vested[a] \in Int
             /\ mine[a] = staked[height][a] + vested[a]
  <2>1. /\ StakedAt(a, height) = staked[height][a] /\ StakedAt(a, height) \in Nat
        /\ StakedAt(a, height) <= TotalStakedAt(height)
        /\ TotalStakedAt(height) \in Nat
      BY StakesCompare
  <2>2. CASE a \notin Registered
      BY <2>1, <2>2
  <2>3. CASE a \in Registered
    <3>1. /\ VestingPower(Rec(a)) \in Nat
          /\ VestingPower(Rec(a)) <= SumFunctionOnSet(VestingAmounts, Address)
          /\ SumFunctionOnSet(VestingAmounts, Address) \in Nat
        BY <1>1, <2>3, SumsCompare
    <3>2. VotingPowerAt(a, height) = StakedAt(a, height) + VestingPower(Rec(a))
        BY <1>3, <2>1, <3>1, MaxUintAssumption DEF VotingPowerAt, AddOrZero, Rec
    <3> QED
        BY <2>1, <2>3, <3>1, <3>2
  <2> QED
      BY <2>2, <2>3
<1>5. SumFunctionOnSet(vested, Address) = SumFunctionOnSet(VestingPowers, Registered)
  <2>1. \A a \in Address \ Registered : vested[a] = 0
      OBVIOUS
  <2>2. \A a \in Registered : vested[a] = VestingPowers[a]
      BY <1>2 DEF VestingPowers
  <2> HIDE DEF vested
  <2>3. SumFunctionOnSet(vested, Address) = SumFunctionOnSet(vested, Registered)
      BY <1>2, <1>4, <2>1, SumOutside
  <2>4. SumFunctionOnSet(vested, Registered) = SumFunctionOnSet(VestingPowers, Registered)
      BY <1>2, <2>2, SumOfSame
  <2> QED
      BY <2>3, <2>4
<1>6. DOMAIN mine = Address
    OBVIOUS
<1>7. SumFunctionOnSet(mine, Address)
        = SumFunctionOnSet(staked[height], Address) + SumFunctionOnSet(vested, Address)
  <2> HIDE DEF mine, vested
  <2> QED
      BY <1>2, <1>4, SumOfBoth
<1>8. SumFunction(mine) = SumFunctionOnSet(mine, Address)
    BY <1>6 DEF SumFunction
<1>9. TotalPowerAt(height)
        = TotalStakedAt(height) + SumFunctionOnSet(VestingPowers, Registered)
    BY TotalPowerIs
<1>10. TotalStakedAt(height) = SumFunctionOnSet(staked[height], Address)
    BY StakesCompare
<1> HIDE DEF vested
<1>11. TotalPowerAt(height) = SumFunction(mine)
  <2> HIDE DEF mine
  <2> QED
      BY <1>5, <1>7, <1>8, <1>9, <1>10
<1> QED
    BY <1>11

-----------------------------------------------------------------------------
(* The threshold.                                                          *)

\* A product divides without a remainder.
LEMMA MulDiv ==
  ASSUME NEW m \in Nat, NEW d \in Nat, d > 0
  PROVE  (m * d) \div d = m
<1> DEFINE q == (m * d) \div d
<1>1. m * d \in Nat
    BY SMT
<1>2. q \in Nat /\ q * d <= m * d /\ m * d < q * d + d
    BY <1>1, DivFloor
<1> HIDE DEF q
<1>3. m * d < (m + 1) * d /\ q * d + d = (q + 1) * d
    BY <1>2, SMT
<1>4. q * d < (m + 1) * d /\ m * d < (q + 1) * d
    BY <1>1, <1>2, <1>3, SMT
<1>5. q <= m /\ m <= q
    BY <1>2, <1>4, Cancel
<1> QED
    BY <1>2, <1>5 DEF q

\* A share of a supply that is rounded up is at least the share, when the
\* precision f expresses p parts of u.
LEMMA RoundedUp ==
  ASSUME NEW s \in Nat, NEW p \in Nat, NEW u \in Nat, NEW f \in Nat, u > 0, f > 0,
         (f * p) % u = 0
  PROVE  /\ ((s * f * p) \div u + f - 1) \div f \in Nat
         /\ s * p <= (((s * f * p) \div u + f - 1) \div f) * u
<1> DEFINE k == (f * p) \div u
           x == s * k + f - 1
           n == x \div f
<1>1. f * p \in Nat /\ s * p \in Nat
    BY SMT
<1>2. k \in Nat
    BY <1>1, DivFloor
<1>3. f * p = k * u
  <2> DEFINE y == f * p
  <2>1. y \in Nat /\ y % u = 0 /\ k = y \div u
      BY <1>1
  <2> HIDE DEF y, k
  <2>2. y = u * (y \div u) + (y % u)
      BY <2>1, SMT
  <2>3. y = u * k
      BY <2>1, <2>2, <1>2, SMT
  <2>4. y = k * u
      BY <2>3, <1>2, SMT
  <2> QED
      BY <2>4 DEF y
<1> HIDE DEF k
<1>4. s * k \in Nat /\ s * f * p = (s * k) * u
  <2>1. s * f * p = s * (f * p)
      BY SMT
  <2>2. s * (k * u) = (s * k) * u
      BY <1>2, SMT
  <2> QED
      BY <1>2, <1>3, <2>1, <2>2, SMT
<1>5. (s * f * p) \div u = s * k
    BY <1>4, MulDiv
<1>6. x \in Nat
    BY <1>4
<1>7. n \in Nat /\ x < n * f + f
    BY <1>6, DivFloor
<1> DEFINE m == s * k
<1>8. m \in Nat /\ x = m + f - 1
    BY <1>4
<1> HIDE DEF m, x, n
<1>9. n * f \in Nat /\ m <= n * f
    BY <1>7, <1>8, SMT
<1>10. (s * p) * f = m * u
  <2>1. (s * p) * f = s * (f * p)
      BY SMT
  <2> QED
      BY <1>2, <1>3, <2>1, SMT DEF m
<1>11. m * u <= (n * f) * u
    BY <1>8, <1>9, SMT
<1>12. (n * f) * u = (n * u) * f /\ n * u \in Nat
    BY <1>7, SMT
<1>13. (n * u) * f < (n * u + 1) * f
    BY <1>12, SMT
<1>14. (s * p) * f < (n * u + 1) * f
  <2>1. (s * p) * f \in Int /\ (n * u) * f \in Int /\ (n * u + 1) * f \in Int
      BY <1>1, <1>12, SMT
  <2> QED
      BY <1>10, <1>11, <1>12, <1>13, <2>1
<1>15. s * p <= n * u
    BY <1>1, <1>12, <1>14, Cancel
<1>16. ((s * f * p) \div u + f - 1) \div f = n
    BY <1>5, <1>8 DEF n, m
<1> QED
    BY <1>7, <1>15, <1>16

LEMMA ActiveEnough ==
  ASSUME VPIInv, LatestMatch
  PROVE  ActiveHasPower
<1> DEFINE t == active_threshold
           N == NeededPower(t)
           W == TotalPowerAt(height)
<1> SUFFICES ASSUME height > InitHeight, PowersFit, IsActive, t # NoThreshold
             PROVE  IF t.kind = "AbsoluteCount" THEN W >= t.count
                    ELSE (PRECISION_FACTOR * t.percent) % Unit = 0
                           => W * Unit >= Supply * t.percent
    BY DEF ActiveHasPower
<1>1. W \in Nat /\ ActualPower <= W /\ ActualPower >= N
    BY TotalPowerIs DEF IsActive
<1>2. ActualPower \in Int
  <2>1. /\ IInv
        /\ LoadAt(total, height).claimed_amount \in Nat
        /\ LoadAt(total, height).vested_amount \in Nat
      BY SumsCompare, TotalRead DEF VPIInv
  <2>2. TotalStakedAt(height) \in Nat
      BY StakesCompare
  <2> QED
      BY <2>1, <2>2 DEF ActualPower, AddOrZero, SubOrZero
<1>3. CASE t.kind = "AbsoluteCount"
  <2>1. t.count \in Nat /\ N = t.count
      BY <1>3 DEF VPIInv, ActiveThreshold, NoThreshold, NeededPower
  <2> QED
      BY <1>1, <1>2, <1>3, <2>1
<1>4. CASE t.kind # "AbsoluteCount"
  <2> SUFFICES ASSUME (PRECISION_FACTOR * t.percent) % Unit = 0
               PROVE  W * Unit >= Supply * t.percent
      BY <1>4
  <2>1. t.percent \in Nat
      BY <1>4 DEF VPIInv, ActiveThreshold, NoThreshold
  <2>2. Supply \in Nat /\ Unit \in Nat /\ Unit > 0
        /\ PRECISION_FACTOR \in Nat /\ PRECISION_FACTOR > 0
      BY VotingPowerAssumption, MaxUintAssumption DEF Amounts
  <2>3. N \in Nat /\ Supply * t.percent <= N * Unit
    <3>1. N = ((Supply * PRECISION_FACTOR * t.percent) \div Unit + PRECISION_FACTOR - 1)
                \div PRECISION_FACTOR
        BY <1>4 DEF NeededPower
    <3> HIDE DEF N, t
    <3> QED
        BY <2>1, <2>2, <3>1, RoundedUp
  <2> DEFINE S == Supply * t.percent
  <2>4. S \in Nat
      BY <2>1, <2>2, SMT
  <2> HIDE DEF N, W, t, S
  <2>5. N <= W
      BY <1>1, <1>2, <2>3
  <2>6. N * Unit <= W * Unit /\ N * Unit \in Nat /\ W * Unit \in Nat
      BY <1>1, <2>2, <2>3, <2>5, SMT
  <2>7. S <= W * Unit
      BY <2>3, <2>4, <2>6 DEF S
  <2> QED
      BY <2>4, <2>6, <2>7 DEF S
<1> QED
    BY <1>3, <1>4

-----------------------------------------------------------------------------
(* The results.                                                            *)

(* The powers that the proposals of the past are voted with never change:  *)
(* no claim, registration, removal, snapshot, stake or threshold does      *)
(* anything to the answers about a past block (contract.rs:334, 370).      *)
THEOREM PastPowersAreFrozen == VPSpec => PastPowersFrozen
<1>1. VPIInv /\ [VPNext]_vpvars => VPIInv'
    BY StepVPIInv
<1>2. VPIInv /\ VPIInv' /\ [VPNext]_vpvars =>
        [\A h \in 0 .. height - 1 :
           /\ \A a \in Address : VotingPowerAt(a, h)' = VotingPowerAt(a, h)
           /\ TotalPowerAt(h)' = TotalPowerAt(h)]_vpvars
    BY StepVPIInv, PowersKept
<1> QED
    BY <1>1, <1>2, InitVPIInv, PTL DEF VPSpec, PastPowersFrozen

(* Every step of the voting module is a step of the vesting contract or    *)
(* none: it holds everything that is proved of the contract, such as that  *)
(* every grant is paid once (contract.rs:334).                             *)
THEOREM VestingWithin == VPSpec => Spec
<1>1. VPInit => Init
    BY DEF VPInit
<1> QED
    BY <1>1, VestingOnly, PTL DEF VPSpec, Spec

LEMMA AlwaysMatched == VPSpec => [](VPIInv /\ LatestMatch)
<1>1. VPInit => VPIInv /\ LatestMatch
    BY InitVPIInv, InitLatestMatch DEF VPInit
<1>2. VPIInv /\ LatestMatch /\ [VPNext]_vpvars => (VPIInv /\ LatestMatch)'
    BY StepVPIInv, VestingOnly, StepLatestMatch DEF VPIInv
<1> QED
    BY <1>1, <1>2, PTL DEF VPSpec

(* From the block after the one that instantiates the vesting contract,    *)
(* the total power of the current block is what everyone has staked and    *)
(* the vesting powers of the registered accounts, as long as the sums are  *)
(* Uint128s, without which unwrap_or(0) hides an overflow.  A removed      *)
(* account keeps its last power, which the total no longer counts, so that *)
(* the sum over everyone may be more (contract.rs:356, 384).               *)
THEOREM PowersSum == VPSpec => []PowerAddsUp
<1>1. VPIInv /\ LatestMatch => PowerAddsUp
    BY PowersAddUp
<1> QED
    BY <1>1, AlwaysMatched, PTL

(* An active DAO has the power that its threshold asks for, a percentage   *)
(* of the supply being rounded up (contract.rs:405).                       *)
THEOREM ActiveEnoughPower == VPSpec => []ActiveHasPower
<1>1. VPIInv /\ LatestMatch => ActiveHasPower
    BY ActiveEnough
<1> QED
    BY <1>1, AlwaysMatched, PTL

-----------------------------------------------------------------------------
(* The composition.                                                        *)

\* Its steps are those of the voting module, or none of them.
LEMMA DaoMoves == [DaoNext]_daovars => [VPNext]_vpvars
<1> SUFFICES ASSUME ProposalStep
             PROVE  [VPNext]_vpvars
    BY DEF DaoNext, daovars, DaoNextBlock, VotingModuleStep, VPNext
<1>1. HookCalled /\ UNCHANGED <<block, owner, accounts, balance, ledger, staked, active_threshold>>
    BY DEF ProposalStep
<1>2. CASE Told /\ SnapshotDefined(accounts)
  <2>1. Snapshot
      BY <1>1, <1>2 DEF HookCalled, Snapshot
  <2>2. VestingStep
      BY <1>1, <2>1 DEF VestingStep, Next, block
  <2> QED
      BY <2>2 DEF VPNext
<1>3. CASE ~(Told /\ SnapshotDefined(accounts))
    BY <1>1, <1>3 DEF HookCalled, vpvars, vars, block
<1> QED
    BY <1>2, <1>3
-----------------------------------------------------------------------------
(* What is proved of Proposal is proved of it here: its proofs with the    *)
(* answers of this voting module.                                          *)

GP == INSTANCE ProposalProofs WITH
  Dao        <- {VotingDao},
  Receiver   <- {VestingContract},
  Answers    <- [power : [Address -> Amounts], total : Amounts, active : BOOLEAN],
  Watched    <- 1,
  Limits     <- {},
  One        <- Unit,
  answer     <- [power  |-> [a \in Address |-> VotingPowerAt(a, height)],
                 total  |-> TotalPowerAt(height),
                 active |-> IsActive],
  past       <- [h \in InitHeight .. height - 1 |->
                   [a \in Address |-> VotingPowerAt(a, h)]],
  broken     <- IF SnapshotDefined(accounts) THEN {} ELSE {VestingContract}

\* Its definitions are those that Dao takes: the tally,
LEMMA SameTally ==
  /\ \A p, n : G!CurrentStatus(p, n) = GP!CurrentStatus(p, n)
  /\ \A p, n : G!StatusDefined(p, n) <=> GP!StatusDefined(p, n)
  /\ \A p : G!Within(p) <=> GP!Within(p)
BY DEF G!CurrentStatus, GP!CurrentStatus, G!StatusDefined, GP!StatusDefined,
       G!PassedDefined, GP!PassedDefined, G!RejectedDefined, GP!RejectedDefined,
       G!IsPassed, GP!IsPassed, G!IsRejected, GP!IsRejected, G!Unsettled, GP!Unsettled,
       G!Expired, GP!Expired, G!OptionsAt, GP!OptionsAt, G!Options, GP!Options,
       G!QuorumMet, GP!QuorumMet, G!CountPasses, GP!CountPasses, G!Cast, GP!Cast,
       G!TooManyNo, GP!TooManyNo, G!CountFails, GP!CountFails, G!Percent, GP!Percent,
       G!Within, GP!Within

\* the hooks,
LEMMA SameHooks ==
  /\ \A h, msgs : G!Hooked(h, msgs) <=> GP!Hooked(h, msgs)
  /\ \A s, kind : G!SubMsgs(s, kind) = GP!SubMsgs(s, kind)
  /\ \A h, old, new : G!StatusMsgs(h, old, new) = GP!StatusMsgs(h, old, new)
BY DEF G!Hooked, GP!Hooked, G!Dispatch, GP!Dispatch, G!Send, GP!Send, G!Reply, GP!Reply,
       G!ReplyList, GP!ReplyList, G!ReplyIndex, GP!ReplyIndex, G!Panicked, GP!Panicked,
       G!StatusMsgs, GP!StatusMsgs, G!SubMsgs, GP!SubMsgs, G!RemoveAt, GP!RemoveAt

\* the messages of the DAO,
LEMMA SameConfig ==
  /\ \A c : G!ValidConfig(c) <=> GP!ValidConfig(c)
  /\ \A c : G!Configured(c) = GP!Configured(c)
BY DEF G!ValidConfig, GP!ValidConfig, G!Configured, GP!Configured,
       G!IntoChecked, GP!IntoChecked, G!VotingModuleToken, GP!VotingModuleToken,
       G!Threshold, GP!Threshold, G!Required, GP!Required,
       G!PercentageThreshold, GP!PercentageThreshold, G!Percent, GP!Percent,
       G!Majority, GP!Majority

LEMMA SameCalls ==
  /\ \A m : G!Called(G!Admin, m) = GP!Called(GP!Admin, m)
  /\ G!NoMessage = GP!NoMessage
BY SameConfig
   DEF G!Called, GP!Called, G!Admin, GP!Admin, G!When, GP!When,
       G!UpdateConfig, GP!UpdateConfig, G!AddHookTo, GP!AddHookTo,
       G!RemoveHookFrom, GP!RemoveHookFrom, G!RegisterAllowed, GP!RegisterAllowed,
       G!DeregisterAllowed, GP!DeregisterAllowed, G!CanAddHook, GP!CanAddHook,
       G!AddHook, GP!AddHook, G!CanRemoveHook, GP!CanRemoveHook,
       G!RemoveHook, GP!RemoveHook, G!RemoveAt, GP!RemoveAt, G!Contains, GP!Contains,
       G!NoMessage, GP!NoMessage

\* the votes,
LEMMA SameVotes ==
  /\ \A p, a : G!PowerOf(p, a) = GP!PowerOf(p, a)
  /\ \A votes, old, ballot : G!VotesAfter(votes, old, ballot) = GP!VotesAfter(votes, old, ballot)
  /\ \A votes : G!VotesFit(votes) <=> GP!VotesFit(votes)
  /\ \A p : G!Votable(p) <=> GP!Votable(p)
  /\ \A p, id, a, vote : G!CanCast(p, id, a, vote) <=> GP!CanCast(p, id, a, vote)
  /\ \A f, k, v : G!Put(f, k, v) = GP!Put(f, k, v)
BY SameTally
   DEF G!PowerOf, GP!PowerOf, G!PowerAt, GP!PowerAt, G!VotesAfter, GP!VotesAfter,
       G!SumFunction, GP!SumFunction, G!SumFunctionOnSet, GP!SumFunctionOnSet,
       G!FoldFunctionOnSet, GP!FoldFunctionOnSet, G!MapThenFoldSet, GP!MapThenFoldSet,
       G!Votable, GP!Votable, G!CanCast, GP!CanCast, G!VotesFit, GP!VotesFit,
       G!Put, GP!Put, G!Vote, GP!Vote

\* and the transactions.
LEMMA SamePropose == \A sender, m : G!Propose(sender, m) <=> GP!Propose(sender, m)
<1> TAKE sender, m
<1>1. G!NoVotes = GP!NoVotes /\ \A info : G!Deposited(info) <=> GP!Deposited(info)
    BY DEF G!NoVotes, GP!NoVotes, G!Vote, GP!Vote, G!Deposited, GP!Deposited
<1> QED
    BY <1>1, SameTally, SameHooks, Zenon DEF G!Propose, GP!Propose

LEMMA SameCastVote ==
  \A sender, id, vote : G!CastVote(sender, id, vote) <=> GP!CastVote(sender, id, vote)
<1> TAKE sender, id, vote
<1> DEFINE p      == proposals[id]
           ballot == [power |-> G!PowerOf(p, sender), vote |-> vote]
           old    == {ballots[k] : k \in DOMAIN ballots \cap {<<id, sender>>}}
           voted  == [p EXCEPT !.votes = G!VotesAfter(p.votes, old, ballot)]
           status == G!CurrentStatus(voted, height)
           msgs   == G!StatusMsgs(hooks, p.status, status) \o G!SubMsgs(hooks.vote, "vote")
<1>1. /\ ballot = [power |-> GP!PowerOf(p, sender), vote |-> vote]
      /\ voted = [p EXCEPT !.votes = GP!VotesAfter(p.votes, old, ballot)]
      /\ status = GP!CurrentStatus(voted, height)
      /\ msgs = GP!StatusMsgs(hooks, p.status, status) \o GP!SubMsgs(hooks.vote, "vote")
    BY SameVotes, SameTally, SameHooks, Zenon
<1> DEFINE Cast(votable, canCast, fit, defined, put, sent) ==
             /\ votable
             /\ ballot.power > 0
             /\ canCast
             /\ fit
             /\ defined
             /\ ballots' = put
             /\ proposals' = [proposals EXCEPT ![id] = [voted EXCEPT !.status = status]]
             /\ sent
             /\ UNCHANGED <<config, allowed, held>>
<1>2. G!CastVote(sender, id, vote)
        <=> Cast(G!Votable(p), G!CanCast(p, id, sender, vote), G!VotesFit(voted.votes),
                 G!StatusDefined(voted, height), G!Put(ballots, <<id, sender>>, ballot),
                 G!Hooked(hooks, msgs))
    BY Zenon DEF G!CastVote
<1>3. GP!CastVote(sender, id, vote)
        <=> Cast(GP!Votable(p), GP!CanCast(p, id, sender, vote), GP!VotesFit(voted.votes),
                 GP!StatusDefined(voted, height), GP!Put(ballots, <<id, sender>>, ballot),
                 GP!Hooked(hooks, msgs))
    BY <1>1, Zenon DEF GP!CastVote
<1> HIDE DEF p, ballot, voted, msgs
<1> QED
    BY <1>2, <1>3, SameTally, SameHooks, SameVotes

LEMMA SameSettling ==
  /\ \A sender, id : G!Execute(sender, id) <=> GP!Execute(sender, id)
  /\ \A sender, id : G!Close(sender, id) <=> GP!Close(sender, id)
  /\ \A sender, m : G!DaoCall(sender, m) <=> GP!DaoCall(sender, m)
BY SameTally, SameHooks, SameCalls
   DEF G!Execute, GP!Execute, G!Close, GP!Close, G!DaoCall, GP!DaoCall,
       G!Executable, GP!Executable, G!Refund, GP!Refund, G!Refunded, GP!Refunded,
       G!SetAdmin, GP!SetAdmin

LEMMA SameBlocks ==
  /\ G!Transaction <=> GP!Transaction
  /\ G!Elsewhere <=> GP!Elsewhere
  /\ G!NextBlock <=> GP!NextBlock
  /\ G!Ids = GP!Ids /\ G!Vote = GP!Vote
BY DEF G!Transaction, GP!Transaction, G!Elsewhere, GP!Elsewhere, G!NextBlock, GP!NextBlock,
       G!SameBlock, GP!SameBlock, G!Outdating, GP!Outdating, G!admin, GP!admin,
       G!Put, GP!Put, G!Ids, GP!Ids, G!Vote, GP!Vote

LEMMA SameInit == G!Init <=> GP!Init
BY SameConfig DEF G!Init, GP!Init, G!NoHooks, GP!NoHooks

LEMMA SameNext == [G!Next]_(G!vars) <=> [GP!Next]_(GP!vars)
BY SamePropose, SameCastVote, SameSettling, SameBlocks, SameCalls
   DEF G!Next, GP!Next, G!vars, GP!vars, G!admin, GP!admin

LEMMA SameSpec == G!Spec <=> GP!Spec
BY SameInit, SameNext, PTL DEF G!Spec, GP!Spec
-----------------------------------------------------------------------------
(* What the voting module answers.                                         *)

PowersAt(h) == [a \in Address |-> VotingPowerAt(a, h)]

\* A power that is answered is a Uint128.
LEMMA PowersTyped ==
  ASSUME VPIInv, NEW h \in InitHeight .. height
  PROVE  PowersAt(h) \in [Address -> Amounts]
<1>1. /\ InitHeight \in Nat \ {0} /\ height \in Nat /\ height - 1 \in Nat /\ h \in Nat
    BY VestingAssumption DEF VPIInv, IInv, TypeOK
<1>2. ASSUME NEW a \in Address
      PROVE  VotingPowerAt(a, h) \in Amounts
  <2>1. IsStore(data[a], SafeData) /\ LogUpTo(data[a], height - 1)
      BY DEF VPIInv, IInv, DataBehind
  <2>2. LoadAt(data[a], h) \in SafeData
      BY <1>1, <2>1, LoadType
  <2> DEFINE d == LoadAt(data[a], h)
  <2>3. /\ Counted(d) \in Nat /\ d.claimed_amount \in Nat /\ d.claimed_amount <= Counted(d)
        /\ VestingPower(d) = Counted(d) - d.claimed_amount
      BY <2>2, PowerOfSafe
  <2> HIDE DEF d
  <2>4. VestingPower(d) \in Nat
      BY <2>3
  <2>5. StakedAt(a, h) \in Nat
      BY <1>1 DEF VPIInv, StakesTyped, StakedAt
  <2> QED
      BY <2>4, <2>5, MaxUintAssumption DEF VotingPowerAt, AddOrZero, Amounts, d
<1> QED
    BY <1>2 DEF PowersAt

\* And so is the total power.
LEMMA TotalTyped ==
  ASSUME VPIInv, LatestMatch
  PROVE  TotalPowerAt(height) \in Amounts
<1> DEFINE info == LoadAt(total, height)
<1>1. height \in Nat /\ InitHeight \in Nat /\ height >= InitHeight /\ IInv
    BY VestingAssumption DEF VPIInv, IInv, TypeOK
<1>2. info.vesting_amount \in Nat /\ info.claimed_amount \in Nat
  <2>1. CASE height > InitHeight
      BY <1>1, <2>1, TotalRead, SumsCompare
  <2>2. CASE height = InitHeight
    <3> DEFINE L == {k \in DOMAIN total.log : k >= height}
    <3>1. BirthLog(total)
        BY <1>1, <2>2 DEF IInv, TotalBehind
    <3>2. height \in L /\ L \subseteq Nat
        BY <1>1, <2>2, <3>1 DEF BirthLog
    <3>3. Min(L) \in DOMAIN total.log
        BY <3>2, MinExists
    <3>4. info = total.log[Min(L)]
        BY <3>2 DEF LoadAt
    <3> QED
        BY <3>1, <3>3, <3>4 DEF BirthLog, NoVesting
  <2> QED
      BY <1>1, <2>1, <2>2
<1>3. TotalStakedAt(height) \in Nat
    BY StakesCompare
<1> HIDE DEF info
<1>4. SubOrZero(info.vesting_amount, info.claimed_amount) \in Nat
    BY <1>2 DEF SubOrZero
<1> QED
    BY <1>3, <1>4, MaxUintAssumption DEF TotalPowerAt, AddOrZero, Amounts, info

\* So these are answers that Proposal reckons with.
LEMMA AnswerTyped ==
  ASSUME VPIInv, LatestMatch
  PROVE  [power  |-> [a \in Address |-> VotingPowerAt(a, height)],
          total  |-> TotalPowerAt(height),
          active |-> IsActive]
           \in [power : [Address -> Amounts], total : Amounts, active : BOOLEAN]
<1>1. height \in InitHeight .. height
    BY VestingAssumption DEF VPIInv, IInv, TypeOK
<1>2. [a \in Address |-> VotingPowerAt(a, height)] \in [Address -> Amounts]
    BY <1>1, PowersTyped DEF PowersAt
<1>3. IsActive \in BOOLEAN
    BY DEF IsActive
<1> QED
    BY <1>2, <1>3, TotalTyped

\* A step leaves the powers of earlier blocks alone, and in a new block that
\* of the block before is one of them.
LEMMA StepKeepsPowers ==
  ASSUME VPIInv, [DaoNext]_daovars
  PROVE  /\ VPIInv' /\ height' \in Nat /\ height \in Nat /\ InitHeight \in Nat /\ height <= height'
         /\ \A h \in InitHeight .. height :
              h # height \/ DaoNextBlock => PowersAt(h)' = PowersAt(h)
<1>1. VPIInv' /\ KeepsPast /\ KeepsStakes
    BY DaoMoves, StepVPIInv
<1>2. height' \in Nat /\ height \in Nat /\ InitHeight \in Nat
    BY <1>1, VestingAssumption DEF VPIInv, IInv, TypeOK
<1>3. height <= height'
  <2>1. [Next]_vars
      BY DaoMoves, VestingOnly
  <2>2. CASE NextBlock
      BY <1>2, <2>2 DEF NextBlock
  <2>3. CASE UNCHANGED height
      BY <1>2, <2>3
  <2> QED
      BY <2>1, <2>2, <2>3 DEF Next, vars, block, Fund, UpdateOwner, Register, Deregister,
                              Claim, Snapshot
<1>4. ASSUME NEW h \in InitHeight .. height - 1
      PROVE  PowersAt(h)' = PowersAt(h)
  <2>1. h \in 0 .. height - 1
      BY <1>2
  <2>2. \A a \in Address : VotingPowerAt(a, h)' = VotingPowerAt(a, h)
      BY <1>1, <2>1, PowersKept
  <2> QED
      BY <2>2 DEF PowersAt
<1>5. ASSUME DaoNextBlock, NEW h, h = height, h \in InitHeight .. height
      PROVE  PowersAt(h)' = PowersAt(h)
  <2>1. PICK stake \in Stakes : staked' = Put(staked, height', stake)
      BY <1>5 DEF DaoNextBlock, VPNextBlock
  <2>2. data' = data /\ height' = height + 1
      BY <1>5 DEF DaoNextBlock, VPNextBlock, NextBlock
  <2>3. h \in DOMAIN staked /\ h # height'
      BY <1>2, <1>5, <2>2 DEF VPIInv, StakesTyped
  <2>4. staked'[h] = staked[h]
      BY <2>1, <2>3 DEF Put
  <2> QED
      BY <2>2, <2>4 DEF PowersAt, VotingPowerAt, StakedAt
<1>6. \A h \in InitHeight .. height : h # height => h \in InitHeight .. height - 1
    BY <1>2
<1> QED
    BY <1>1, <1>2, <1>3, <1>4, <1>5, <1>6
-----------------------------------------------------------------------------
(* Every step of the composition is one of Proposal.                       *)

\* What is stored of the voting module, and that its total is up to date.
AnswersGood == VPIInv /\ LatestMatch

LEMMA AnswersStayGood == AnswersGood /\ [DaoNext]_daovars => AnswersGood'
BY DaoMoves, StepVPIInv, VestingOnly, StepLatestMatch DEF AnswersGood, VPIInv

AnswerRight ==
  [power  |-> [a \in Address |-> VotingPowerAt(a, height)],
   total  |-> TotalPowerAt(height),
   active |-> IsActive]
    \in [power : [Address -> Amounts], total : Amounts, active : BOOLEAN]

LEMMA AnswerRightNext == AnswersGood' => AnswerRight'
<1>1. AnswersGood => AnswerRight
    BY AnswerTyped DEF AnswersGood, AnswerRight
<1> QED
    BY <1>1, PTL

\* Within a block only the answers about it change.
LEMMA BlockStays ==
  ASSUME AnswersGood, [DaoNext]_daovars, height' = height, Remembered
  PROVE  GP!SameBlock
<1>1. AnswerRight'
    BY AnswersStayGood, AnswerRightNext
<1>2. outdated' = outdated \cup GP!Outdating
    BY DEF Remembered, G!Outdating, GP!Outdating
<1>3. \A h \in InitHeight .. height - 1 : PowersAt(h)' = PowersAt(h)
  <2>1. height \in Nat /\ InitHeight \in Nat
      BY StepKeepsPowers DEF AnswersGood
  <2>2. \A h \in InitHeight .. height - 1 : h \in InitHeight .. height /\ h # height
      BY <2>1
  <2> QED
      BY <2>2, StepKeepsPowers DEF AnswersGood
<1>4. [h \in InitHeight .. height - 1 |-> PowersAt(h)]'
        = [h \in InitHeight .. height - 1 |-> PowersAt(h)]
    BY <1>3
<1>5. UNCHANGED [h \in InitHeight .. height - 1 |-> [a \in Address |-> VotingPowerAt(a, h)]]
    BY <1>4 DEF PowersAt
<1> QED
    BY <1>1, <1>2, <1>5 DEF GP!SameBlock, AnswerRight

\* A transaction of the proposal module, and the hooks in it.
LEMMA ProposalSteps ==
  ASSUME AnswersGood, ProposalStep
  PROVE  GP!Next
<1>1. [DaoNext]_daovars /\ UNCHANGED block /\ UNCHANGED accounts /\ Remembered
    BY DEF DaoNext, ProposalStep
<1>2. GP!SameBlock
    BY <1>1, BlockStays DEF block
<1>3. UNCHANGED (IF SnapshotDefined(accounts) THEN {} ELSE {VestingContract})
    BY <1>1 DEF SnapshotDefined, SumsFit, Recorded, block
<1>4. GP!Transaction
    BY <1>2, <1>3 DEF GP!Transaction
<1> QED
    BY <1>4, SamePropose, SameCastVote, SameSettling, SameBlocks, SameCalls
    DEF ProposalStep, GP!Next

\* A block goes by, and what was answered about it has become past.
LEMMA BlockSteps ==
  ASSUME AnswersGood, DaoNextBlock
  PROVE  GP!NextBlock
<1>1. /\ height < MaxHeight /\ height' = height + 1
      /\ UNCHANGED <<proposal, outdated>>
    BY DEF DaoNextBlock, VPNextBlock, NextBlock
<1>2. AnswerRight' /\ [DaoNext]_daovars
    BY AnswersStayGood, AnswerRightNext DEF DaoNext
<1>3. /\ height \in Nat /\ InitHeight \in Nat /\ InitHeight <= height
      /\ \A h \in InitHeight .. height : PowersAt(h)' = PowersAt(h)
    BY <1>2, StepKeepsPowers, VestingAssumption DEF AnswersGood, VPIInv, IInv, TypeOK
<1> DEFINE past == [h \in InitHeight .. height - 1 |-> PowersAt(h)]
<1>4. past' = GP!Put(past, height, PowersAt(height))
  <2>1. /\ height' - 1 = height
        /\ InitHeight .. height' - 1 = (InitHeight .. height - 1) \cup {height}
        /\ height \notin InitHeight .. height - 1
      BY <1>1, <1>3
  <2>2. past' = [h \in InitHeight .. height' - 1 |-> PowersAt(h)']
      OBVIOUS
  <2>3. past' = [h \in (InitHeight .. height - 1) \cup {height} |-> PowersAt(h)]
      BY <1>3, <2>1, <2>2
  <2>4. GP!Put(past, height, PowersAt(height))
          = [h \in (InitHeight .. height - 1) \cup {height} |-> PowersAt(h)]
      BY <2>1 DEF GP!Put
  <2> QED
      BY <2>3, <2>4
<1>5. (IF SnapshotDefined(accounts) THEN {} ELSE {VestingContract})'
        \in SUBSET {VestingContract}
    OBVIOUS
<1> QED
    BY <1>1, <1>2, <1>4, <1>5 DEF GP!NextBlock, GP!admin, proposal, AnswerRight, PowersAt

\* A step of the others is one elsewhere.
LEMMA OtherSteps ==
  ASSUME AnswersGood, VotingModuleStep
  PROVE  GP!Elsewhere
<1>1. [DaoNext]_daovars /\ Remembered /\ UNCHANGED <<height, proposal>>
    BY DEF DaoNext, VotingModuleStep, VestingStep, UpdateActiveThreshold, vars
<1>2. GP!SameBlock
    BY <1>1, BlockStays
<1>3. (IF SnapshotDefined(accounts) THEN {} ELSE {VestingContract})'
        \in SUBSET {VestingContract}
    OBVIOUS
<1> QED
    BY <1>1, <1>2, <1>3 DEF GP!Elsewhere, GP!admin, proposal

LEMMA StepsOfProposal == AnswersGood /\ [DaoNext]_daovars => [GP!Next]_(GP!vars)
<1> SUFFICES ASSUME AnswersGood, [DaoNext]_daovars
             PROVE  [GP!Next]_(GP!vars)
    OBVIOUS
<1>1. CASE ProposalStep
    BY <1>1, ProposalSteps
<1>2. CASE DaoNextBlock
    BY <1>2, BlockSteps DEF GP!Next
<1>3. CASE VotingModuleStep
    BY <1>3, OtherSteps DEF GP!Next
<1>4. CASE UNCHANGED daovars
  <2>1. UNCHANGED <<proposal, outdated, vpvars>>
      BY <1>4 DEF daovars
  <2>2. UNCHANGED <<height, IF SnapshotDefined(accounts) THEN {} ELSE {VestingContract}>>
      BY <2>1 DEF vpvars, vars, SnapshotDefined, SumsFit, Recorded
  <2>3. UNCHANGED [power  |-> [a \in Address |-> VotingPowerAt(a, height)],
                   total  |-> TotalPowerAt(height),
                   active |-> IsActive]
      BY <2>1 DEF vpvars, vars, VotingPowerAt, TotalPowerAt, IsActive, ActualPower,
                  StakedAt, TotalStakedAt
  <2>4. UNCHANGED [h \in InitHeight .. height - 1 |-> [a \in Address |-> VotingPowerAt(a, h)]]
      BY <2>1 DEF vpvars, vars, VotingPowerAt, StakedAt
  <2> QED
      BY <2>1, <2>2, <2>3, <2>4 DEF proposal, GP!vars, GP!admin
<1> QED
    BY <1>1, <1>2, <1>3, <1>4 DEF DaoNext

LEMMA InitOfProposal == DaoInit => AnswersGood /\ GP!Init
<1> SUFFICES ASSUME DaoInit PROVE AnswersGood /\ GP!Init
    OBVIOUS
<1>1. AnswersGood
    BY InitVPIInv, InitLatestMatch DEF DaoInit, AnswersGood, VPInit
<1>2. AnswerRight
    BY <1>1, AnswerTyped DEF AnswersGood, AnswerRight
<1>3. height = InitHeight /\ InitHeight .. InitHeight - 1 = {}
    BY VestingAssumption DEF DaoInit, VPInit, Init
<1>4. [h \in InitHeight .. height - 1 |-> [a \in Address |-> VotingPowerAt(a, h)]]
        = [h \in {} |-> [a \in Address |-> VotingPowerAt(a, height)]]
    BY <1>3
<1>5. (IF SnapshotDefined(accounts) THEN {} ELSE {VestingContract}) \in SUBSET {VestingContract}
    OBVIOUS
<1>6. /\ config \in {GP!Configured(c) : c \in {d \in Configs : GP!ValidConfig(d)}}
      /\ hooks = GP!NoHooks
    BY SameConfig DEF DaoInit, G!NoHooks, GP!NoHooks
<1> QED
    BY <1>1, <1>2, <1>3, <1>4, <1>5, <1>6 DEF DaoInit, GP!Init, AnswerRight

LEMMA AlwaysProposal == DaoSpec => GP!Spec /\ []AnswersGood
BY InitOfProposal, AnswersStayGood, StepsOfProposal, PTL DEF DaoSpec, GP!Spec
-----------------------------------------------------------------------------
(* So its invariant holds here.                                            *)

\* What Proposal and Tally assume of their constants, of these.
TallyAssumed == Unit \in Nat \ {0} /\ Precision \in Nat \ {0} /\ MaxUint \in Nat

ProposalAssumed ==
  /\ Configs \subseteq GP!ConfigWith(Token \cup Address \cup {GP!VotingModuleToken})
  /\ \A c, d \in Configs : c.dao = d.dao
  /\ VotingToken \in Token /\ GP!VotingModuleToken \notin Token \cup Address
  /\ Messages \subseteq GP!Message
  /\ GP!IsFiniteSet(Address)
  /\ PreAllowed \subseteq SUBSET Address
  /\ [power : [Address -> Amounts], total : Amounts, active : BOOLEAN] \subseteq GP!Answer
  /\ InitHeight \in Nat /\ MaxHeight \in Nat /\ InitHeight <= MaxHeight
  /\ MaxProposals \in Nat /\ 1 \in Nat \ {0}
  /\ Rank \in [Address -> 1 .. GP!Cardinality(Address)]
  /\ \A a, b \in Address : Rank[a] = Rank[b] => a = b
  /\ {} \subseteq Nat \ {0}

LEMMA SameSets ==
  /\ \A S : GP!IsFiniteSet(S) <=> IsFiniteSet(S)
  /\ \A S : GP!Cardinality(S) = Cardinality(S)
BY DEF IsFiniteSet, Cardinality, GP!IsFiniteSet, GP!Cardinality

LEMMA Assumed == TallyAssumed /\ ProposalAssumed
<1>1. TallyAssumed
    BY DaoAssumption, VotingPowerAssumption, MaxUintAssumption DEF TallyAssumed
<1>2. /\ G!VotingModuleToken = GP!VotingModuleToken /\ G!Message = GP!Message
      /\ \A tokens : G!ConfigWith(tokens) = GP!ConfigWith(tokens)
    BY DEF G!VotingModuleToken, GP!VotingModuleToken, G!Message, GP!Message,
           G!NoMessage, GP!NoMessage, G!ConfigWith, GP!ConfigWith,
           G!DepositInfo, GP!DepositInfo, G!Threshold, GP!Threshold,
           G!Required, GP!Required, G!PercentageThreshold, GP!PercentageThreshold,
           G!Majority, GP!Majority, G!Percent, GP!Percent
<1>3. Configs \subseteq GP!ConfigWith(Token \cup Address \cup {GP!VotingModuleToken})
    BY <1>2, DaoAssumption
<1>4. \A c, d \in Configs : c.dao = d.dao
    BY <1>3 DEF GP!ConfigWith
<1>5. [power : [Address -> Amounts], total : Amounts, active : BOOLEAN] \subseteq GP!Answer
    BY DEF GP!Answer, GP!Uint128, Amounts
<1>6. ProposalAssumed
    <2>1. GP!VotingModuleToken \notin Token \cup Address /\ Messages \subseteq GP!Message
        BY <1>2, DaoAssumption
    <2>2. GP!IsFiniteSet(Address) /\ Rank \in [Address -> 1 .. GP!Cardinality(Address)]
        BY SameSets, DaoAssumption, VestingAssumption
    <2>3. VotingToken \in Token /\ PreAllowed \subseteq SUBSET Address
        BY DaoAssumption
    <2>4. InitHeight \in Nat /\ MaxHeight \in Nat /\ InitHeight <= MaxHeight
        BY VestingAssumption
    <2>5. MaxProposals \in Nat /\ 1 \in Nat \ {0} /\ {} \subseteq Nat \ {0}
        BY DaoAssumption
    <2>6. \A a, b \in Address : Rank[a] = Rank[b] => a = b
        BY DaoAssumption
    <2> QED
        BY <1>3, <1>4, <1>5, <2>1, <2>2, <2>3, <2>4, <2>5, <2>6 DEF ProposalAssumed
<1> QED
    BY <1>1, <1>6

LEMMA CoreStarts == GP!Init => GP!CoreInv
BY Assumed, GP!CoreInitially DEF TallyAssumed, ProposalAssumed

LEMMA CoreStays == GP!CoreInv /\ [GP!Next]_(GP!vars) => GP!CoreInv'
BY Assumed, GP!CoreKept DEF TallyAssumed, ProposalAssumed

LEMMA StaysMade == GP!CoreInv /\ [GP!Next]_(GP!vars) => GP!KeepsMaking
BY Assumed, GP!MakingKept DEF TallyAssumed, ProposalAssumed

LEMMA AlwaysCore == DaoSpec => [](AnswersGood /\ GP!CoreInv)
BY AlwaysProposal, CoreStarts, CoreStays, PTL DEF GP!Spec

(* The proposal module in this DAO behaves as Proposal says: all that is   *)
(* proved of it there holds here (contract.rs:334-393 of the voting        *)
(* module, contract.rs:84 of the vesting contract).                        *)
THEOREM ProposalWithin == DaoSpec => ProposalSpec
BY AlwaysProposal, SameSpec DEF ProposalSpec

-----------------------------------------------------------------------------
(* What is voted with is what is answered.                                 *)

LEMMA SumsOfProposal ==
  /\ \A f, S : GP!SumFunctionOnSet(f, S) = SumFunctionOnSet(f, S)
  /\ \A f : GP!SumFunction(f) = SumFunction(f)
BY DEF GP!SumFunctionOnSet, SumFunctionOnSet, GP!FoldFunctionOnSet, FoldFunctionOnSet,
       GP!MapThenFoldSet, MapThenFoldSet, GP!SumFunction, SumFunction

LEMMA PowerAtIs ==
  \A h : GP!PowerAt(h) =
           IF h = height THEN [a \in Address |-> VotingPowerAt(a, height)]
           ELSE [n \in InitHeight .. height - 1 |-> [a \in Address |-> VotingPowerAt(a, n)]][h]
BY DEF GP!PowerAt

LEMMA PowerIsAnswered ==
  ASSUME GP!CoreInv, NEW id \in DOMAIN proposals
  PROVE  /\ proposals[id].start_height \in InitHeight .. height
         /\ GP!PowerAt(proposals[id].start_height) = PowersAt(proposals[id].start_height)
<1>1. proposals[id].start_height \in InitHeight .. height
    BY DEF GP!CoreInv, GP!MadeRight, GP!MadeAt, GP!Ids
<1>2. height \in Nat /\ InitHeight \in Nat
    BY VestingAssumption DEF GP!CoreInv, GP!CoreTyped, GP!AnswersTyped
<1>3. \A h \in InitHeight .. height : h = height \/ h \in InitHeight .. height - 1
    BY <1>2
<1>4. \A h \in InitHeight .. height : GP!PowerAt(h) = PowersAt(h)
    BY <1>3, PowerAtIs DEF PowersAt
<1> QED
    BY <1>1, <1>4

LEMMA AnsweredVotes == GP!CoreInv => VotesAreTheAnswers
<1> SUFFICES ASSUME GP!CoreInv, NEW id \in DOMAIN proposals, id \notin outdated,
                    NEW o \in GP!Vote
             PROVE  proposals[id].votes[o]
                      = SumFunction([a \in Voters(id, o) |->
                                       VotingPowerAt(a, proposals[id].start_height)])
    BY DEF VotesAreTheAnswers, G!Ids, G!Vote, GP!Vote
<1> DEFINE start == proposals[id].start_height
           vs == Voters(id, o)
           mine == [a \in vs |-> VotingPowerAt(a, start)]
<1>1. /\ vs = GP!VotersFor(ballots, id, o)
      /\ vs \in SUBSET GP!HasVoted(ballots, id) /\ vs \in SUBSET Address
    BY DEF Voters, GP!VotersFor, GP!HasVoted
<1>2. proposals[id].votes[o] = GP!SumFunctionOnSet(GP!PowerIn(ballots, id), vs)
    BY <1>1 DEF GP!CoreInv, GP!TallyAddsUp, GP!AddUp, GP!Ids
<1>3. GP!SumFunctionOnSet(GP!PowerIn(ballots, id), vs)
        = GP!SumFunctionOnSet(GP!PowerAt(start), vs)
    BY <1>1, Assumed, GP!SaidIsAnswered DEF TallyAssumed, ProposalAssumed, GP!Ids
<1>4. proposals[id].votes[o] = SumFunctionOnSet(PowersAt(start), vs)
    BY <1>2, <1>3, PowerIsAnswered, SumsOfProposal
<1>5. IsFiniteSet(vs)
    BY <1>1, VestingAssumption, FS_Subset
<1>6. \A a \in vs : PowersAt(start)[a] = mine[a]
    BY <1>1 DEF PowersAt
<1>7. SumFunction(mine) = SumFunctionOnSet(mine, vs)
    BY DEF SumFunction
<1> HIDE DEF vs, mine, start
<1>8. SumFunctionOnSet(PowersAt(start), vs) = SumFunctionOnSet(mine, vs)
    BY <1>5, <1>6, SumOfSame
<1> QED
    BY <1>4, <1>7, <1>8 DEF mine, start, vs

(* Everyone votes with the power that is answered, at any later time, for  *)
(* the height of the proposal, but for those who vote in its own block     *)
(* before a snapshot of that block changes their power (contract.rs:330 of *)
(* the proposal module, contract.rs:84 of the vesting contract).           *)
THEOREM VotesAnswered == DaoSpec => []VotesAreTheAnswers
BY AlwaysCore, AnsweredVotes, PTL

-----------------------------------------------------------------------------
(* A total power that covers the powers keeps covering them.               *)

PowerSum(h) == SumFunction(PowersAt(h))

Covering ==
  \A id \in DOMAIN proposals \ uncovered :
    /\ id \notin outdated
    /\ \A h \in InitHeight .. height :
         h = proposals[id].start_height => PowerSum(h) <= proposals[id].total_power

LEMMA SumKept == \A h : PowersAt(h)' = PowersAt(h) => PowerSum(h)' = PowerSum(h)
BY DEF PowerSum

\* A new proposal records the sum.
LEMMA NewIsCovered ==
  ASSUME AnswersGood, TotalCovers
  PROVE  PowerSum(height) = TotalPowerAt(height)
<1> DEFINE mine == [a \in Address |-> IF a \in Registered
                                     THEN VotingPowerAt(a, height)
                                     ELSE StakedAt(a, height)]
<1>1. mine = PowersAt(height)
    BY DEF TotalCovers, PowersAt
<1>2. TotalPowerAt(height) = SumFunction(mine)
    BY PowersAddUp DEF AnswersGood, TotalCovers, PowerAddsUp
<1> QED
    BY <1>1, <1>2 DEF PowerSum

LEMMA StaysMadeHere ==
  ASSUME AnswersGood, GP!CoreInv, [DaoNext]_daovars
  PROVE  /\ \A id \in DOMAIN proposals :
              /\ id \in DOMAIN proposals'
              /\ proposals'[id].start_height = proposals[id].start_height
              /\ proposals'[id].total_power = proposals[id].total_power
              /\ proposals[id].start_height \in InitHeight .. height
         /\ \A id \in DOMAIN proposals' \ DOMAIN proposals :
              /\ proposals'[id].start_height = height
              /\ proposals'[id].total_power = TotalPowerAt(height)
BY StepsOfProposal, StaysMade, PowerIsAnswered DEF GP!KeepsMaking, GP!Ids

\* In a step within a block.
LEMMA CoveringInBlock ==
  ASSUME AnswersGood, GP!CoreInv, Covering, [DaoNext]_daovars, height' = height, Remembered
  PROVE  Covering'
<1> SUFFICES ASSUME NEW id \in DOMAIN proposals' \ uncovered'
             PROVE  /\ id \notin outdated'
                    /\ \A h \in InitHeight .. height :
                         h = proposals'[id].start_height =>
                           PowerSum(h)' <= proposals'[id].total_power
    BY DEF Covering
<1>1. /\ id \notin uncovered
      /\ proposals'[id].start_height = height =>
           ~PowersMove /\ (id \in DOMAIN proposals \/ TotalCovers)
    BY DEF Remembered, OfThisBlock
<1>2. ~PowersMove => PowersAt(height)' = PowersAt(height)
    BY DEF PowersMove, PowersAt
<1>3. id \notin G!Outdating
  <2>1. CASE proposals'[id].start_height = height
      BY <1>1, <2>1 DEF G!Outdating, PowersMove
  <2>2. CASE proposals'[id].start_height # height
      BY <2>2 DEF G!Outdating
  <2> QED
      BY <2>1, <2>2
<1>4. CASE id \in DOMAIN proposals
  <2>1. /\ proposals'[id].start_height = proposals[id].start_height
        /\ proposals'[id].total_power = proposals[id].total_power
      BY <1>4, StaysMadeHere
  <2>2. \A h \in InitHeight .. height :
          h = proposals'[id].start_height => PowersAt(h)' = PowersAt(h)
      BY <1>1, <1>2, StepKeepsPowers DEF AnswersGood
  <2> QED
      BY <1>1, <1>3, <1>4, <2>1, <2>2, SumKept DEF Covering, Remembered
<1>5. CASE id \notin DOMAIN proposals
  <2>1. /\ proposals'[id].start_height = height
        /\ proposals'[id].total_power = TotalPowerAt(height)
      BY <1>5, StaysMadeHere
  <2>2. TotalCovers /\ PowersAt(height)' = PowersAt(height)
      BY <1>1, <1>2, <1>5, <2>1
  <2>3. PowerSum(height)' = TotalPowerAt(height)
      BY <2>2, SumKept, NewIsCovered
  <2>4. id \notin outdated
      BY <1>5 DEF GP!CoreInv, GP!CoreTyped, GP!AnswersTyped, GP!Ids
  <2>5. TotalPowerAt(height) \in Nat
      BY TotalTyped, MaxUintAssumption DEF AnswersGood, Amounts
  <2> QED
      BY <1>3, <2>1, <2>3, <2>4, <2>5 DEF Remembered
<1> QED
    BY <1>4, <1>5

LEMMA CoveringInNext ==
  ASSUME AnswersGood, GP!CoreInv, Covering, DaoNextBlock
  PROVE  Covering'
<1>1. UNCHANGED <<proposals, outdated, uncovered>>
    BY DEF DaoNextBlock, proposal
<1>2. [DaoNext]_daovars
    BY DEF DaoNext
<1>3. \A h \in InitHeight .. height : PowerSum(h)' = PowerSum(h)
    BY <1>2, StepKeepsPowers, SumKept DEF AnswersGood
<1>4. \A id \in DOMAIN proposals : proposals[id].start_height \in InitHeight .. height
    BY PowerIsAnswered
<1> QED
    BY <1>1, <1>3, <1>4 DEF Covering

LEMMA CoveringKept == AnswersGood /\ GP!CoreInv /\ Covering /\ [DaoNext]_daovars => Covering'
<1> SUFFICES ASSUME AnswersGood, GP!CoreInv, Covering, [DaoNext]_daovars
             PROVE  Covering'
    OBVIOUS
<1>1. CASE ProposalStep
    BY <1>1, CoveringInBlock DEF ProposalStep, block
<1>2. CASE DaoNextBlock
    BY <1>2, CoveringInNext
<1>3. CASE VotingModuleStep
  <2>1. height' = height /\ Remembered
      BY <1>3 DEF VotingModuleStep, VestingStep, UpdateActiveThreshold, vars
  <2> QED
      BY <2>1, CoveringInBlock
<1>4. CASE UNCHANGED daovars
  <2>1. UNCHANGED <<proposals, outdated, uncovered, data, staked, height>>
      BY <1>4 DEF daovars, proposal, vpvars, vars, block
  <2>2. \A h : PowersAt(h)' = PowersAt(h)
      BY <2>1 DEF PowersAt, VotingPowerAt, StakedAt
  <2> QED
      BY <2>1, <2>2, SumKept DEF Covering
<1> QED
    BY <1>1, <1>2, <1>3, <1>4 DEF DaoNext

LEMMA AlwaysCovering == DaoSpec => [](AnswersGood /\ GP!CoreInv /\ Covering)
<1>1. DaoInit => Covering
    BY DEF DaoInit, Covering
<1> QED
    BY <1>1, AlwaysCore, CoveringKept, PTL DEF DaoSpec

LEMMA CoveredFit ==
  ASSUME GP!CoreInv, Covering
  PROVE  CoveredVotesFit
<1> SUFFICES ASSUME NEW id \in DOMAIN proposals \ uncovered
             PROVE  G!Within(proposals[id]) /\ G!StatusDefined(proposals[id], height)
    BY DEF CoveredVotesFit, G!Ids
<1>1. GP!Covered(id)
    BY PowerIsAnswered, SumsOfProposal DEF Covering, GP!Covered, PowerSum
<1>2. GP!Within(proposals[id])
    BY <1>1, Assumed, GP!CoveredCast DEF TallyAssumed, ProposalAssumed, GP!Ids
<1>3. proposals[id] \in GP!ProposalRecord
    BY DEF GP!CoreInv, GP!CoreTyped, GP!StateTyped
<1>4. GP!StatusDefined(proposals[id], height)
    BY <1>2, <1>3, Assumed, GP!StatusIsDefined DEF TallyAssumed, ProposalAssumed
<1> QED
    BY <1>2, <1>4, SameTally

(* A proposal made while the total power covered the powers, and whose     *)
(* block saw no change of them since, is never voted on with more than the *)
(* total it recorded, and its tally never panics (proposal.rs:145-276).    *)
THEOREM CoveredFits == DaoSpec => []CoveredVotesFit
BY AlwaysCovering, CoveredFit, PTL

(* The composition takes the steps of the voting module and of the vesting *)
(* contract, or none of theirs: what is proved of each holds within it,    *)
(* hooks included (contract.rs:58 of the vesting contract).                *)
THEOREM VotingPowerWithin == DaoSpec => VPSpec
<1>1. DaoInit => VPInit
    BY DEF DaoInit
<1> QED
    BY <1>1, DaoMoves, PTL DEF DaoSpec, VPSpec

(* The snapshots follow the proposals: whenever a proposal is made or      *)
(* changes its status, the next block sees what every account has          *)
(* prevested by then (contract.rs:58 of the vesting contract).             *)
THEOREM SnapshotsFollow == DaoSpec => ProposalsAreFollowed
<1>1. ASSUME AnswersGood, [DaoNext]_daovars, Told, SnapshotDefined(accounts), NEW a \in Registered
      PROVE  LoadAt(data'[a], height + 1) = DataOf(accounts[a], now)
  <2>1. \E id \in DOMAIN proposals' :
          id \in DOMAIN proposals => proposals'[id].status # proposals[id].status
      BY <1>1 DEF Told
  <2>2. proposals' # proposals
      BY <2>1
  <2>3. SnapshotOf(accounts)
      BY <1>1, <2>2 DEF DaoNext, DaoNextBlock, daovars, VotingModuleStep, proposal,
                        ProposalStep, HookCalled
  <2>4. /\ a \in Address /\ a \in DOMAIN accounts
        /\ height \in Nat /\ height - 1 \in Nat /\ height + 1 \in Int
        /\ LogUpTo(data[a], height - 1)
      BY <1>1, VestingAssumption DEF AnswersGood, VPIInv, IInv, TypeOK, DataBehind, Registered
  <2>5. data'[a] = Save(data[a], DataOf(accounts[a], now), height - 1)
    <3>1. data' = [x \in Address |->
                     IF x \in DOMAIN accounts
                     THEN Save(data[x], DataOf(accounts[x], now), height - 1)
                     ELSE data[x]]
        BY <2>3, Zenon DEF SnapshotOf, SnapshotAt, SnapshotDefined, Recorded
    <3> QED
        BY <2>4, <3>1
  <2>6. LogUpTo(data'[a], (height + 1) - 1)
    <3>1. DOMAIN data'[a].log \subseteq DOMAIN data[a].log \cup {height - 1}
        BY <2>5 DEF Save, Put
    <3> QED
        BY <2>4, <3>1 DEF LogUpTo
  <2>7. LoadAt(data'[a], height + 1) = data'[a].cur
      BY <2>4, <2>6, LoadLatest
  <2> QED
      BY <2>5, <2>7 DEF Save
<1>2. AnswersGood /\ [DaoNext]_daovars =>
        [\A a \in Registered :
           (Told /\ SnapshotDefined(accounts)) =>
             LoadAt(data'[a], height + 1) = DataOf(accounts[a], now)]_daovars
    BY <1>1
<1> QED
    BY <1>2, AlwaysProposal, PTL DEF DaoSpec, ProposalsAreFollowed
=============================================================================
