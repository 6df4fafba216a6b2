---------------------------- MODULE VotingPower ----------------------------
(***************************************************************************)
(* klmd-dao-vesting-voting-power: the voting module of the DAO.  A member  *)
(* has the power of what it stakes and of its vesting account, as the      *)
(* staking contract (cw20-stake, external) and the vesting contract say of *)
(* a block height; the DAO is active while enough is staked and vested.    *)
(*                                                                         *)
(* The module composes the vesting contract, whose actions are taken as    *)
(* they are, with the staking contract and with the threshold, the only    *)
(* state of its own that changes after instantiation.                      *)
(***************************************************************************)
EXTENDS Vesting, ActivityThreshold

CONSTANTS
  VotingDao,          \* DAO, the only sender of UpdateActiveThreshold
  Supply,             \* external: total_supply of the token
  Stakes,             \* external: what the members may have staked
  ActiveThresholds,   \* the thresholds that are tried
  Unit,               \* Decimal::one().atomics()
  PRECISION_FACTOR

ASSUME VotingPowerAssumption ==
  /\ Supply \in Amounts
  /\ Stakes \subseteq [Address -> Nat]
  /\ \A stake \in Stakes : SumFunction(stake) + MaxFunds <= Supply
  /\ ActiveThresholds \subseteq ActiveThreshold
  /\ Unit \in Nat \ {0} /\ PRECISION_FACTOR \in Nat \ {0}

VARIABLES
  staked,             \* external: for each height so far, what each member
                      \* had staked before that block
  active_threshold    \* ACTIVE_THRESHOLD

vpvars == <<vars, staked, active_threshold>>

VPTypeOK ==
  /\ TypeOK
  /\ staked \in [InitHeight .. height -> [Address -> Nat]]
  /\ active_threshold \in ActiveThreshold

-----------------------------------------------------------------------------
\* External: StakedBalanceAtHeight and TotalStakedAtHeight.
StakedAt(a, h) == IF h < InitHeight THEN 0 ELSE staked[h][a]
TotalStakedAt(h) == IF h < InitHeight THEN 0 ELSE SumFunction(staked[h])

\* UpdateActiveThreshold and instantiate accept the threshold.
ValidThreshold(t) == ValidPercentage(t, Unit) /\ ValidCount(t, Supply)

\* Mutant of VestingPower: what was paid out counts as well.
VestingPowerUnclaimed(d) == Counted(d)

\* checked_sub and checked_add, with unwrap_or(Uint128::zero()).
SubOrZero(m, n) == IF m >= n THEN m - n ELSE 0
AddOrZero(m, n) == IF m + n <= MaxUint THEN m + n ELSE 0

\* The power of a vesting account.
VestingPower(d) ==
  IF d.vesting_amount > d.prevested_amount
  THEN d.prevested_amount
  ELSE SubOrZero(d.vesting_amount, d.claimed_amount)

\* query_voting_power_at_height.
VotingPowerAt(a, h) ==
  AddOrZero(StakedAt(a, h), VestingPower(LoadAt(data[a], h)))

\* query_total_power_at_height.
TotalPowerAt(h) ==
  LET info == LoadAt(total, h)
  IN  AddOrZero(TotalStakedAt(h),
                SubOrZero(info.vesting_amount, info.claimed_amount))

\* What query_is_active compares: vested, where the total power has vesting.
ActualPower ==
  LET info == LoadAt(total, height)
  IN  AddOrZero(TotalStakedAt(height),
                SubOrZero(info.vested_amount, info.claimed_amount))

\* Mutant of NeededPower: rounded down.
NeededPowerDown(t) ==
  IF t.kind = "AbsoluteCount" THEN t.count ELSE (Supply * t.percent) \div Unit

\* The power that makes the DAO active, rounded up.
NeededPower(t) ==
  IF t.kind = "AbsoluteCount" THEN t.count
  ELSE LET applied == (Supply * PRECISION_FACTOR * t.percent) \div Unit
       IN  (applied + PRECISION_FACTOR - 1) \div PRECISION_FACTOR

\* query_is_active.
IsActive ==
  active_threshold # NoThreshold => ActualPower >= NeededPower(active_threshold)

-----------------------------------------------------------------------------
VPInit ==
  /\ Init
  /\ staked \in [{InitHeight} -> Stakes]
  /\ active_threshold \in ActiveThresholds
  /\ ValidThreshold(active_threshold)

\* execute_update_active_threshold.
UpdateActiveThreshold(sender, t) ==
  /\ sender = VotingDao
  /\ ValidThreshold(t)
  /\ active_threshold' = t
  /\ UNCHANGED <<vars, staked>>

\* External: a block is added, and members have staked or unstaked before it.
VPNextBlock ==
  /\ NextBlock
  /\ \E stake \in Stakes : staked' = Put(staked, height', stake)
  /\ UNCHANGED active_threshold

\* Every other step of the vesting contract.
VestingStep ==
  /\ Next
  /\ UNCHANGED <<height, staked, active_threshold>>

VPNext ==
  \/ VPNextBlock
  \/ VestingStep
  \/ \E sender \in Address \cup {VotingDao}, t \in ActiveThresholds :
       UpdateActiveThreshold(sender, t)

VPSpec == VPInit /\ [][VPNext]_vpvars
-----------------------------------------------------------------------------
(* The sums stay within a Uint128, which the supply of a token does, but   *)
(* not the amounts an owner may register accounts with.                    *)
PowersFit ==
  TotalStakedAt(height)
    + SumFunction([a \in Address |-> LoadAt(data[a], height).vesting_amount])
  <= MaxUint

(* The total power of a block is the power of all its members, and         *)
(* unwrap_or(0) hides no underflow: for the vesting part, the sum of the   *)
(* registered accounts, though each of them is capped and reduced by its   *)
(* claims on its own and the total by the sums (contract.rs:356, 384).     *)
(* Not so in the block that instantiates the vesting contract, nor for an  *)
(* account that was removed, which keeps its last power.                   *)
PowerAddsUp ==
  (height > InitHeight /\ PowersFit) =>
    TotalPowerAt(height) =
      SumFunction([a \in Address |-> IF a \in Registered
                                      THEN VotingPowerAt(a, height)
                                      ELSE StakedAt(a, height)])

(* The powers of a past block do not change, neither by what is vested,    *)
(* claimed or removed since nor by what is staked (contract.rs:334, 370).  *)
PastPowersFrozen ==
  [][\A h \in 0 .. height - 1 :
       /\ \A a \in Address : VotingPowerAt(a, h)' = VotingPowerAt(a, h)
       /\ TotalPowerAt(h)' = TotalPowerAt(h)]_vpvars

(* An active DAO has the voting power that its threshold asks for: what    *)
(* vested and was not claimed never exceeds what the total power counts,   *)
(* and a percentage of the supply is rounded up (contract.rs:405).  The    *)
(* percentages are those that the PRECISION_FACTOR can express.            *)
ActiveHasPower ==
  (height > InitHeight /\ PowersFit /\ IsActive /\ active_threshold # NoThreshold) =>
    LET t == active_threshold
    IN  IF t.kind = "AbsoluteCount" THEN TotalPowerAt(height) >= t.count
        ELSE (PRECISION_FACTOR * t.percent) % Unit = 0
               => TotalPowerAt(height) * Unit >= Supply * t.percent
=============================================================================
