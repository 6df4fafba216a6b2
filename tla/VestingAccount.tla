--------------------------- MODULE VestingAccount ---------------------------
(***************************************************************************)
(* The pure part of klmd-custom-vesting (state.rs): what an account holds, *)
(* when a new one is valid, how much of it has prevested and vested at a   *)
(* block time, and the figures that a snapshot records.                    *)
(*                                                                         *)
(* Amounts are Uint128 in the code.  MaxUint is the largest amount; every  *)
(* product and sum of the code is guarded by it, because checked_mul and   *)
(* an overflowing += both end the transaction without effect.              *)
(***************************************************************************)
EXTENDS SnapshotStore, Functions

CONSTANT MaxUint        \* Uint128::MAX

ASSUME MaxUintAssumption == MaxUint \in Nat

Amounts == 0 .. MaxUint

\* state.rs Account, without its address (the key of ACCOUNTS).
Account ==
  [vesting_amount    : Amounts,
   prevesting_amount : Amounts,
   claimed_amount    : Amounts,
   registration_time : Nat,
   start_time        : Nat,
   end_time          : Nat]

\* Account::validate.
Valid(acct, time) ==
  /\ acct.vesting_amount > 0
  /\ acct.registration_time >= time
  /\ acct.start_time >= acct.registration_time
  /\ acct.start_time >= time
  /\ acct.end_time >= acct.start_time

\* checked_mul of the linear formula overflows while elapsed time is counted.
ProductFits(amount, elapsed) == amount * elapsed <= MaxUint

-----------------------------------------------------------------------------
(* Mutants: plausible slips, used only to show that a property notices.    *)

\* the end of the schedule does not end the overflow check
VestedDefinedPastEnd(acct, time) ==
  acct.start_time <= time
    => ProductFits(acct.vesting_amount, time - acct.start_time)

\* no early return at the end of the schedule
VestedWithoutEnd(acct, time) ==
  IF time < acct.start_time THEN 0
  ELSE IF acct.end_time = acct.start_time THEN acct.vesting_amount
  ELSE (acct.vesting_amount * (time - acct.start_time))
         \div (acct.end_time - acct.start_time)

\* the share is rounded up
VestedRoundedUp(acct, time) ==
  IF time < acct.start_time THEN 0
  ELSE IF time >= acct.end_time THEN acct.vesting_amount
  ELSE LET d == acct.end_time - acct.start_time
       IN  (acct.vesting_amount * (time - acct.start_time) + d - 1) \div d

\* prevesting runs until the end of the schedule
PrevestedUntilEnd(acct, time) ==
  IF time >= acct.end_time THEN acct.vesting_amount
  ELSE (acct.vesting_amount * (time - acct.registration_time))
         \div (acct.end_time - acct.registration_time)

-----------------------------------------------------------------------------
\* Account::vested_amount returns Ok.
VestedDefined(acct, time) ==
  (acct.start_time <= time /\ time < acct.end_time)
    => ProductFits(acct.vesting_amount, time - acct.start_time)

\* Account::vested_amount.
VestedAmount(acct, time) ==
  IF time < acct.start_time THEN 0
  ELSE IF time >= acct.end_time THEN acct.vesting_amount
  ELSE (acct.vesting_amount * (time - acct.start_time))
         \div (acct.end_time - acct.start_time)

\* Account::prevested_amount returns Ok.
PrevestedDefined(acct, time) ==
  (acct.registration_time <= time /\ time < acct.start_time)
    => ProductFits(acct.vesting_amount, time - acct.registration_time)

\* Account::prevested_amount.
PrevestedAmount(acct, time) ==
  IF time < acct.registration_time THEN 0
  ELSE IF time >= acct.start_time THEN acct.vesting_amount
  ELSE LET linear == (acct.vesting_amount * (time - acct.registration_time))
                       \div (acct.start_time - acct.registration_time)
       IN  IF acct.prevesting_amount > linear
           THEN acct.prevesting_amount
           ELSE linear

\* VestingData: what a snapshot records of an account.  The fields it copies
\* from the account unchanged and claimable = vested - claimed are left out.
VestingData ==
  [prevested_amount : Amounts, vesting_amount : Amounts,
   vested_amount : Amounts, claimed_amount : Amounts]

\* VestingData::default and TotalVestingInfo::default.
NoVesting ==
  [prevested_amount |-> 0, vesting_amount |-> 0,
   vested_amount |-> 0, claimed_amount |-> 0]

\* get_vesting_data_from_account returns Ok: no product overflows and
\* vested.checked_sub(claimed) does not underflow.
DataDefined(acct, time) ==
  /\ VestedDefined(acct, time)
  /\ PrevestedDefined(acct, time)
  /\ VestedAmount(acct, time) >= acct.claimed_amount

\* get_vesting_data_from_account.
DataOf(acct, time) ==
  [prevested_amount |-> PrevestedAmount(acct, time),
   vesting_amount   |-> acct.vesting_amount,
   vested_amount    |-> VestedAmount(acct, time),
   claimed_amount   |-> acct.claimed_amount]

\* The part of a vesting amount that counts in the total: no more than what
\* has prevested.
Counted(d) ==
  IF d.vesting_amount > d.prevested_amount
  THEN d.prevested_amount ELSE d.vesting_amount

\* compute_total_vesting_info over a map of vesting data.
TotalOf(dataMap) ==
  LET A == DOMAIN dataMap
  IN  [prevested_amount |-> SumFunction([a \in A |-> dataMap[a].prevested_amount]),
       vesting_amount   |-> SumFunction([a \in A |-> Counted(dataMap[a])]),
       vested_amount    |-> SumFunction([a \in A |-> dataMap[a].vested_amount]),
       claimed_amount   |-> SumFunction([a \in A |-> dataMap[a].claimed_amount])]
=============================================================================
