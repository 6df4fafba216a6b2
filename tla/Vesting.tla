------------------------------ MODULE Vesting ------------------------------
(***************************************************************************)
(* klmd-custom-vesting: the contract an owner registers vesting accounts   *)
(* with, that pays out what has vested, and whose snapshots feed the       *)
(* voting power of the DAO.                                                *)
(*                                                                         *)
(* One action is one transaction.  A transaction that fails has no effect  *)
(* at all, so its failure conditions are the guards of the action.  The    *)
(* messages a handler returns run in the same transaction: a payout the    *)
(* token contract rejects (a zero amount, or more than the contract holds) *)
(* also undoes the handler that asked for it.                              *)
(***************************************************************************)
EXTENDS VestingAccount

CONSTANTS
  Address,        \* all addresses that matter
  Terms,          \* the requests of RegisterVestingAccount that are tried
  InitHeight,     \* the block that instantiates the contract
  MaxHeight,      \* bound: the last block
  BlockTimes,     \* how far one block may advance the block time
  FundAmounts,    \* what a transfer to the contract may bring
  MaxFunds        \* bound: what the contract may hold

Term ==
  [vesting_amount : Amounts, prevesting_amount : Amounts,
   start_time : Nat, end_time : Nat]

ASSUME VestingAssumption ==
  /\ IsFiniteSet(Address)
  /\ Terms \subseteq Term
  /\ InitHeight \in Nat \ {0}
  /\ MaxHeight \in Nat /\ MaxHeight >= InitHeight
  /\ BlockTimes \subseteq Nat \ {0}
  /\ FundAmounts \subseteq Nat
  /\ MaxFunds \in Nat

VARIABLES
  now, height,    \* env.block.time and env.block.height
  owner,          \* OWNER_ADDRESS
  accounts,       \* ACCOUNTS, a map of its keys only
  data,           \* VESTING_DATA, one store per address
  total,          \* VESTING_TOTAL
  balance,        \* what the token contract holds for this contract
  ledger          \* history: what the latest grant of an address promised
                  \* and what was paid out on its account so far

vars == <<now, height, owner, accounts, data, total, balance, ledger>>
block == <<now, height>>

Registered == DOMAIN accounts

TypeOK ==
  /\ now \in Nat
  /\ height \in Nat /\ height >= InitHeight
  /\ owner \in Address
  /\ Registered \subseteq Address
  /\ accounts \in [Registered -> Account]
  /\ DOMAIN data = Address
  /\ \A a \in Address : IsStore(data[a], VestingData)
  /\ DOMAIN total.log \subseteq Nat
  /\ balance \in Nat
  /\ ledger \in [Address -> [granted : Nat, paid : Nat]]

Init ==
  /\ now = 0
  /\ height = InitHeight
  /\ owner \in Address
  /\ accounts = [a \in {} |-> 0]
  /\ data = [a \in Address |-> Fresh(NoVesting)]
  /\ total = Save(Fresh(NoVesting), NoVesting, InitHeight)
  /\ balance = 0
  /\ ledger = [a \in Address |-> [granted |-> 0, paid |-> 0]]

-----------------------------------------------------------------------------
\* What vested of an account but was not paid yet.
Claimable(acct, time) == VestedAmount(acct, time) - acct.claimed_amount

\* Mutant of Left: what vested and was not claimed is sent back as well.
LeftPaidTwice(acct, time) == acct.vesting_amount - acct.claimed_amount

\* What has not vested.
Left(acct, time) == acct.vesting_amount - VestedAmount(acct, time)

\* Mutant of CanPay: the token contract lets a balance go below zero.
CanPayAnything(amount) == TRUE

\* External: the token contract can move the amount out of the balance.
CanPay(amount) == balance >= amount

\* No += of compute_total_vesting_info overflows.
SumsFit(sums) == \A f \in DOMAIN sums : sums[f] <= MaxUint

(* snapshot: every account of accts is recorded at the given height.  An   *)
(* account that was removed keeps what the last snapshot said of it.  An   *)
(* overflow in any account, or in a sum, panics.                           *)
Recorded(accts) == [a \in DOMAIN accts |-> DataOf(accts[a], now)]

SnapshotDefined(accts) ==
  /\ \A a \in DOMAIN accts : DataDefined(accts[a], now)
  /\ SumsFit(TotalOf(Recorded(accts)))

SnapshotAt(accts, at) ==
  LET fresh == Recorded(accts)
  IN  /\ SnapshotDefined(accts)
      /\ data' = [a \in Address |->
                    IF a \in DOMAIN accts
                    THEN Save(data[a], fresh[a], at)
                    ELSE data[a]]
      /\ total' = Save(total, TotalOf(fresh), at)

\* Mutants of SnapshotOf: the wrong height.
SnapshotThisBlock(accts) == SnapshotAt(accts, height)
SnapshotTooFarBack(accts) == SnapshotAt(accts, height - 2)

\* The code records one block back, so that a query at this block reads it.
SnapshotOf(accts) == SnapshotAt(accts, height - 1)

\* A block is added to the chain.
NextBlock ==
  /\ height < MaxHeight
  /\ height' = height + 1
  /\ \E dt \in BlockTimes : now' = now + dt
  /\ UNCHANGED <<owner, accounts, data, total, balance, ledger>>

\* External: anyone sends tokens to the contract.
Fund(amount) ==
  /\ balance + amount <= MaxFunds
  /\ balance' = balance + amount
  /\ UNCHANGED <<block, owner, accounts, data, total, ledger>>

\* update_owner_address.
UpdateOwner(sender, address) ==
  /\ sender = owner
  /\ owner' = address
  /\ UNCHANGED <<block, accounts, data, total, balance, ledger>>

\* register_vesting_account.
Register(sender, a, term) ==
  LET acct == [vesting_amount    |-> term.vesting_amount,
               prevesting_amount |-> term.prevesting_amount,
               claimed_amount    |-> 0,
               registration_time |-> now,
               start_time        |-> term.start_time,
               end_time          |-> term.end_time]
  IN  /\ sender = owner
      /\ a \notin Registered
      /\ Valid(acct, now)
      /\ accounts' = Put(accounts, a, acct)
      /\ SnapshotOf(accounts')
      /\ ledger' = [ledger EXCEPT
                      ![a] = [granted |-> acct.vesting_amount, paid |-> 0]]
      /\ UNCHANGED <<block, owner, balance>>

\* deregister_vesting_account: what has vested goes to the beneficiary, the
\* rest back, each left out when it is zero.
Deregister(sender, a) ==
  LET acct      == accounts[a]
      claimable == Claimable(acct, now)
      left      == Left(acct, now)
  IN  /\ sender = owner
      /\ a \in Registered
      /\ accounts' = Drop(accounts, a)
      /\ SnapshotOf(accounts')
      /\ VestedDefined(acct, now)
      /\ claimable >= 0
      /\ left >= 0
      /\ CanPay(claimable + left)
      /\ balance' = balance - (claimable + left)
      /\ ledger' = [ledger EXCEPT ![a].paid = @ + claimable + left]
      /\ UNCHANGED <<block, owner>>

\* claim: anyone may call it for any account, the payout goes to the account.
Claim(a) ==
  LET acct      == accounts[a]
      claimable == Claimable(acct, now)
  IN  /\ a \in Registered
      /\ VestedDefined(acct, now)
      /\ claimable >= 0
      /\ accounts' = [accounts EXCEPT ![a].claimed_amount = VestedAmount(acct, now)]
      /\ SnapshotOf(accounts')
      /\ claimable > 0            \* the token rejects a zero transfer
      /\ CanPay(claimable)
      /\ balance' = balance - claimable
      /\ ledger' = [ledger EXCEPT ![a].paid = @ + claimable]
      /\ UNCHANGED <<block, owner>>

\* Snapshot and ProposalHook: open to everyone.
Snapshot ==
  /\ SnapshotOf(accounts)
  /\ UNCHANGED <<block, owner, accounts, balance, ledger>>

Next ==
  \/ NextBlock
  \/ \E amount \in FundAmounts : Fund(amount)
  \/ \E sender, a \in Address : UpdateOwner(sender, a)
  \/ \E sender, a \in Address, term \in Terms : Register(sender, a, term)
  \/ \E sender, a \in Address : Deregister(sender, a)
  \/ \E a \in Address : Claim(a)
  \/ Snapshot

Spec == Init /\ [][Next]_vars

\* Blocks keep coming, and every beneficiary keeps asking.
Fairness ==
  /\ WF_vars(NextBlock)
  /\ \A a \in Address : WF_vars(Claim(a))

FairSpec == Spec /\ Fairness
-----------------------------------------------------------------------------
(* No subtraction of the contract can underflow: what an account has       *)
(* claimed is covered by what has vested, at this time and in every later  *)
(* block, so neither a claim nor the snapshot of all the others can get    *)
(* stuck on it (state.rs:204, contract.rs:190, 212, 247).                  *)
ClaimedIsVested ==
  \A a \in Registered :
    /\ accounts[a].claimed_amount <= VestedAmount(accounts[a], now)
    /\ VestedAmount(accounts[a], now) <= accounts[a].vesting_amount

(* Over the life of a grant, through any claims and a deregistration, the  *)
(* contract pays out what it records as claimed, and once the account is   *)
(* gone the whole grant, exactly once (contract.rs:167, 232).              *)
GrantPaidExactly ==
  \A a \in Address :
    IF a \in Registered
    THEN /\ ledger[a].paid = accounts[a].claimed_amount
         /\ ledger[a].granted = accounts[a].vesting_amount
    ELSE ledger[a].paid = ledger[a].granted

(* Voting power is vesting_amount - claimed_amount once an account has     *)
(* fully prevested and prevested_amount before; the total subtracts all    *)
(* claims from all counted amounts.  They agree, and never fall to the     *)
(* unwrap_or(0) of an underflow, because no snapshot, at any height, shows *)
(* a claim on an amount that is not counted in full.                       *)
CountedIfClaimed(d) ==
  d.claimed_amount > 0 => /\ Counted(d) = d.vesting_amount
                          /\ d.claimed_amount <= d.vesting_amount

ClaimedIsCounted ==
  \A a \in Address, h \in InitHeight .. height :
    CountedIfClaimed(LoadAt(data[a], h))

(* The total that a query at the current block reads is the total of what  *)
(* the same query reads of the registered accounts, whatever was           *)
(* registered, removed or claimed since.  Not so in the block that         *)
(* instantiates the contract: the total is saved there at the block's own  *)
(* height (contract.rs:34), snapshots one below (contract.rs:84), so every *)
(* query at that height reads the zero total for good.                     *)
TotalMatchesAccounts ==
  height > InitHeight =>
    LoadAt(total, height) = TotalOf([a \in Registered |-> LoadAt(data[a], height)])

(* What a query answers for a past block never changes, so a vote counts   *)
(* the same power whenever it is cast (contract.rs:84-93).                 *)
PastHeightsFrozen ==
  [][\A h \in 0 .. height - 1 :
       /\ \A a \in Address : LoadAt(data'[a], h) = LoadAt(data[a], h)
       /\ LoadAt(total', h) = LoadAt(total, h)]_vars

(* The contract keeps the promise of GrantLedger.                          *)
Grants == INSTANCE GrantLedger WITH
  time     <- now,
  open     <- Registered,
  schedule <- [a \in Registered |-> [start |-> accounts[a].start_time,
                                     end   |-> accounts[a].end_time]],
  granted  <- [a \in Address |-> ledger[a].granted],
  paid     <- [a \in Address |-> ledger[a].paid]

GrantLedgerSpec == Grants!GLSpec

(* A beneficiary who keeps asking gets the whole grant, as long as the     *)
(* contract holds enough for it: an account whose product overflows blocks *)
(* everyone's transactions, but only until its schedule has ended.  Grants *)
(* that add up to more than a Uint128 block them for good (the sums of     *)
(* contract.rs:105), until the owner removes one.                          *)
GrantsFit ==
  SumFunction([a \in Registered |-> accounts[a].vesting_amount]) <= MaxUint

GrantEventuallyPaid ==
  \A a \in Address :
    a \in Registered ~>
      \/ a \notin Registered
      \/ ~GrantsFit
      \/ accounts[a].claimed_amount = accounts[a].vesting_amount
      \/ balance < accounts[a].vesting_amount - accounts[a].claimed_amount
=============================================================================
