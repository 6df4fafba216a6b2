# A TLA+ model of the klmd contracts

Five CosmWasm contracts make up the repository: a cw20 token, an airdrop of it,
a vesting contract, the voting module that turns staked and vesting tokens into
voting power, and the proposal module of a DAO. This directory models them,
checks the models with TLC and proves, with TLAPS, nearly all of what the runs
check of each contract. Paths below are relative to `src/contracts/`.

## 1. Inventory

A contract runs one message at a time. A message, the messages its handler
returns, and the replies to them are one transaction: if any of it fails (other
than a submessage whose reply handles the error) nothing of it happened. So the
concurrency here is the *order* of transactions of many senders across blocks,
and inside a transaction the order of handlers, messages and replies. There are
no crashes to recover from and no messages to lose.

| Component | State | Operations |
|---|---|---|
| `klmd-custom-vesting` | `OWNER_ADDRESS`, `TOKEN_ADDRESS`, `ACCOUNTS`, `VESTING_DATA` (SnapshotMap), `VESTING_TOTAL` (SnapshotItem) | UpdateOwnerAddress, RegisterVestingAccount, DeregisterVestingAccount, Claim, Snapshot, ProposalHook; queries at a height |
| `klmd-dao-vesting-voting-power` | `DAO`, `TOKEN`, `STAKING_CONTRACT`, `VESTING_CONTRACT`, `ACTIVE_THRESHOLD` | instantiate with replies, UpdateActiveThreshold; VotingPowerAtHeight, TotalPowerAtHeight, IsActive |
| `klmd-custom-proposal` | `CONFIG`, `PROPOSAL_COUNT`, `PROPOSALS`, `BALLOTS`, `PROPOSAL_HOOKS`, `VOTE_HOOKS`, `ALLOWED_ADDRESSES` | Propose, Vote, Execute, Close, UpdateConfig, add/remove hooks, (de)register allowed addresses, reply |
| `klmd-cw20` | `TOKEN_INFO`, `BALANCES`, `ALLOWANCES`, `MARKETING_INFO`, `LOGO` | Transfer, Send, Increase/DecreaseAllowance, TransferFrom, SendFrom, UpdateMarketing, UploadLogo; minting and burning are rejected |
| `klmd-airdrop` | `CONFIG`, `LATEST_STAGE`, `STAGE_START`, `STAGE_EXPIRATION`, `MERKLE_ROOT`, `CLAIM`, `ALREADY_CLAIMED` | UpdateConfig, RegisterMerkleRoot, Claim |
| airdrop helpers (`klmd-airdrop/helpers`) | none | TypeScript that builds the Merkle tree of a list off chain, its root and its proofs |
| schemas, `examples/` | none | generated JSON and its generators; not modelled |

External to the repository, and modelled only as this code uses it: the chain's
blocks, cw20-stake, DAO core, cw20-base as the token of vesting and airdrop,
`cw_storage_plus` (maps and snapshot stores), the `voting`, `indexable-hooks`,
`proposal-hooks` and `vote-hooks` crates.

How they interact:

    proposal --IsActive, VotingPowerAtHeight, TotalPowerAtHeight--> voting power
    voting power --StakedBalanceAtHeight--> cw20-stake
    voting power --VestingAccount, VestingTotal (at a height)--> vesting
    proposal --ProposalHook (submessage, reply on error)--> vesting: a snapshot
    proposal --ExecuteProposalHook--> DAO core --> proposal: configuration, hooks
    vesting, airdrop --Transfer--> cw20

What is hard here, and what makes each part correct:

* **vesting** - amounts follow from the time by truncating divisions of checked
  products; snapshots are saved one block *back*; totals are stored apart from
  accounts. Correct when every grant is paid exactly once and never ahead of its
  schedule, no subtraction underflows, totals agree with accounts, and the
  answers about past blocks do not change.
* **voting power** - caps and subtractions with `unwrap_or(0)`, a percentage
  rounded up; an instantiation spread over three submessages and their replies.
  Correct when powers add up to the total, past powers stay, an active DAO has the
  power its threshold asks for, and the module comes to be in one piece or not at all.
* **proposal** - decisions before the end, revoting, a stored status that lags
  behind, deposits of changing configurations, hook replies that speak of
  indices. Correct when a decision is what the threshold says of the final vote
  and is never revised, votes are the powers of the start height, deposits come
  back once, failing receivers cannot do harm, lists read in pages add up, and
  everything gets settled.
* **cw20** - two updates of one map, allowances that are raised, lowered, spent
  and expire, a logo kept in two places. Correct when the supply is what all hold,
  nobody spends more than was granted, and the two places agree.
* **airdrop** - claims by proof, in stages. Correct when everybody gets a listed
  amount at most once per stage, can get it with the proof the helpers make, and the
  books balance.

The hazards are listed line by line in `PROJECT.json`, with the properties
that would notice, or the reason why none does.

## 2. Modules

    StorageMap          what Map::save and Map::remove do
    SnapshotStore       SnapshotMap and SnapshotItem: save, load at a height
    Paging              range queries with a bound and a limit, page after page
    VestingAccount      one account: validity, vested and prevested amounts, records
    Vesting             the vesting contract               (abstract: GrantLedger)
    ActivityThreshold   the active threshold and its checks
    Setup               how the voting module is instantiated  (abstract: AtomicSetup)
    VotingPower         EXTENDS Vesting: powers, staking, activity
    Tally               proposal.rs: status from votes, threshold, time
    ProposalLifecycle   the abstract life of one proposal, on top of Tally
    Hooks               hook lists, submessages, replies
    Proposal            the proposal contract              (implements ProposalLifecycle)
    Dao                 EXTENDS VotingPower, INSTANCEs Proposal: the three together
                        (implements Proposal)
    Cw20                the token
    MerkleTree          the tree the helpers build, its root and proofs
    Airdrop             the airdrop, on top of MerkleTree's hashes
    <Module>Proofs      theorems about Vesting, Setup, ProposalLifecycle, Proposal, Cw20,
                        Airdrop (with MerkleTree), and Dao (with VotingPower; it
                        INSTANCEs ProposalProofs)
    SumProofs           lemmas about least elements and the sums of the community modules
    MC*                 instances for TLC

**Vesting.** One action per message; the names are those of `contract.rs`.
`SnapshotOf` is `snapshot`, called by `Register`, `Deregister`, `Claim` and by
itself, and records at `height - 1` like the code. `DataDefined` and `SumsFit` say
when a checked product or a sum goes through: the code unwraps the error, so the
whole transaction is undone and the operator is a guard. A payout the token
rejects (zero, or more than there is) is a guard for the same reason. `ledger` is
a history variable: what each grant promised and what was paid on it. It is where
`paid` comes from, independently of `claimed_amount`. To whom a payout goes is not
tracked. `GrantLedger` says the promise without accounts, snapshots or balances:
payments never run ahead of the pro rata share, and a closed grant is paid out to
the last token.

**VotingPower** takes the actions of `Vesting` as they are, adds the external
staking contract (for each block, what each member had staked before it) and the
active threshold, and defines the three queries, including the silent zeros of
`unwrap_or`. The supply is constant: the token neither mints nor burns. `VPInit` is a
module that is already there; how it comes to be is `Setup`.

**Setup** is the transaction that instantiates the voting module, one action per
handler call: `Instantiate` checks the message, stores what it knows and lists the
submessages; `RunSubmessage` makes a contract at a fresh address; `ReplyToken`,
`ReplyStaking` and `ReplyVesting` store that address, and the first of them checks the
count of the threshold and asks for the other two. `RollBack` undoes everything, on
an error of a handler (`refused`) or of anything outside it (`Fail`), and the DAO
may try again. `AtomicSetup` says the same without submessages, in one step.

**Tally** keeps every case of `is_passed` and `is_rejected`, with
`compare_vote_count` of the voting crate (scaled by a precision and truncated, so
that a percentage with more decimals than the precision is rounded), and says for
which values a subtraction panics (`PassedDefined`, `RejectedDefined`).
`Accepted`, `SureToPass` and `SureToFail` are the reference: fractions of the
final vote, and all votes that may still come; `NearlyAccepted` is what is left of
the first once the wanted amount is rounded down: less than one precision-th of a
vote is forgiven.

**Proposal.** One action per message. Votes, configuration and deposits are as
in the code; times are block heights (a duration in seconds behaves alike); no
minimum voting period is 0, no deposit is a deposit of 0. A proposal carries no
message or one that matters here: a call that only the DAO may make, executed
inside `Execute` *before* the hooks are dispatched with the list from before it,
as the response orders them.

Whom the contract asks for powers is a voting module, of which `Proposal` supposes little:
`answer` is what it answers about the present block (a power for each member, a
total, whether the DAO is active), `past` the powers of each block before. The answer may
change with every transaction, the proposal's own with its hooks included; the
total need not be the sum of the powers, and may be less; only the powers of a
block that is over stay. This is what the module of this repository does, and `Dao`
shows that it does no more than that (`ProposalSpec`). Where a property needs more of the answers
it says so: `VotesAreThePowers` leaves out the proposals in `outdated`, on which somebody voted in
their own block with a power that was answered otherwise in that block afterwards, and
`VotesWithinPower` is about proposals whose total covers the powers (`Covered`).

A deposit token must answer as
one (`ValidConfig`), or be that of the voting module. `Hooked` dispatches the
submessages one by one; the reply of a failing one removes by index
(`Hooks!Reply`), or panics, which undoes the transaction. `Paging` reads the votes of a
proposal in pages, of any size, while they change between two of them. Not modelled: the size
limit of proposals, a token that refuses the deposit, tokens sent to the contract
for no reason, and a configuration that names another DAO (`ProposalAssumption`
says that all name the same). DAO core is taken to run the messages
of a proposal as they are.

**Dao** is the composition that the integration test deploys
(`klmd-dao-vesting-voting-power/src/tests.rs:1776`): `answer` and `past` of `Proposal` are the
queries of `VotingPower` (substitutions in the INSTANCE), the vesting contract is
a receiver of proposal hooks and takes its snapshot inside the proposal's transaction,
after the handler has asked for the total; it errors exactly when its snapshot does.
`uncovered` remembers which proposals were made while the total did not cover the powers, or
saw a power of their block change afterwards; `CoveredVotesFit` is about the others.

**ProposalLifecycle** is one proposal of any total power. Nothing in it keeps the votes within
that total: a vote above it is a step like any other, after which the tally may be
undefined and no further step but the passing of time possible. What it says of decisions
(`PassedIsSure` and the others) it says of votes within the total (`Sound`).

**Cw20.** `granted` and `spent` are histories. Project and description are one
flag. A logo is a link or a picture of which the code looks at the first bytes and the
size. The code of a receiver called by Send is left to further steps of that
receiver: within the transaction they come after the tokens moved.

**Airdrop.** A hash is a term that shows what was hashed, so SHA-256 is taken to
be free of collisions, and the hash of an entry never to be that of a pair; the sorted
pair is a set. The code hashes address and amount joined without a separator; the model takes
the pair to be determined by that, which it is for addresses of one length. `MerkleTree` builds the tree of a list as `merkletreejs` does for the helpers:
sorted pairs, a last node without neighbour taken up as it is. `stages` also remembers the list
a root was made of, which is what the claims are compared with. `MayClaim` is every check
of `execute_claim` and of the token it pays with, and so what `ListedMayClaim` promises.

## 3. What TLC checks

Passing runs:

| Run | Instance | Shows |
|---|---|---|
| `vesting` | 2 addresses, a linear grant whose product overflows one step before its end and one that vests at once, 5 blocks, uneven block times | type, `ClaimedIsVested`, `GrantPaidExactly`, `ClaimedIsCounted`, `TotalMatchesAccounts`, `PastHeightsFrozen`, refinement of `GrantLedger`, `GrantEventuallyPaid` |
| `voting_power` | the same two kinds of grant, changing stakes, thresholds of a quarter and of more than all | `PowerAddsUp`, `ActiveHasPower`, `PastPowersFrozen` |
| `setup` | 2 tokens with a staking and a vesting contract each, 3 addresses to make contracts at; every mix of existing, new and wrong contracts, thresholds of nothing, all and too much, a failure at any point | `ContractsAgree`, `ThresholdReachable`, `RefusedForReason`, refinement of `AtomicSetup` |
| `lifecycle` | every kind of threshold with 1/4, 1/2, all or a majority, and with 1/8 and 3/8, which a precision of 4 rounds, total power 0 to 3, votes up to and above it, revoting or not, all voting periods up to 2 | `PassedIsSure`, `RejectedIsSure`, `SettledRightly`, `DecisionIsFinal` |
| `votes` | 2 members whose powers change from block to block and within a block, a total that may be less than the powers or belong to an inactive DAO, 3 configurations and two invalid ones, proposals that change the configuration | type, `VotesAreThePowers`, `VotesWithinPower`, `DepositsBacked`, `ListedVotesAddUp`, refinement of `ProposalLifecycle`, `EverySettled` |
| `hooks` | 2 receivers on both lists, breaking and recovering, added and removed by the DAO and by the messages of proposals | `OneFailureIsRemoved`, `EverySettled` |
| `dao` | 2 members, one staking and both possibly vesting, snapshots by hooks, blocks 2 to 4, so that there are votes in the proposal's own block and in later ones | `VotesAreTheAnswers`, `CoveredVotesFit`, refinement of `Proposal` (`ProposalSpec`), `ProposalsAreFollowed` |
| `cw20` | 3 addresses, one a contract, 3 tokens, 2 granted in all, one expiration, 4 logos of which two are refused; every way to read up to 4 keys in pages | `SupplyIsHeld`, `SpentWithinGranted`, `LogoIsAnnounced` |
| `airdrop` | 2 addresses, lists of one, three and five rows, with an address named twice and a row repeated, their proofs and every proof of up to two of their hashes, a `u8` that ends at 2 | `ClaimedAsListed`, `ClaimsAddUp`, `ListedMayClaim`, `StagesStay` |

Why these bounds. Two accounts or members are the least for which totals differ
from parts and one transaction can stand in another's way. `MaxUint` is small so
that the products and sums of the code really overflow. In `vesting` the last
block lies past the end of both grants, so that every phase of a schedule is
reached; `MaxHeight` of the proposal runs lies past the end of the voting period of
a proposal of the first blocks. One proposal at a time: proposals share only the
configuration, the hooks and the balance, all of which change on their own in the
runs. Percentages that the precision expresses and ones that it rounds are both
tried in `lifecycle`: `PassedIsSure` and `DecisionIsFinal` are about the former, where the
code claims exactness, `RejectedIsSure` and `SettledRightly` about all. In `setup` each
kind of contract is there twice, so that the wrong one of two can be named, and three
addresses are as many as one message makes. Five rows are the least whose tree has a
node without neighbour on two layers.

`PagesListEachOnce` is an assumption of the module `MCCw20`, which TLC evaluates: the
accounts and allowances are read in pages there, in both orders, and it is about
every small map, not about the states of a run.

Deadlock is checked where blocks run out but something can still be called. It
is off in the proposal and lifecycle runs, where everything is settled at the last
block, and in `airdrop`, which stops when its owner was given up and all is claimed.

Every property has a mutant: a definition next to the original with a plausible
slip (a dropped guard, the wrong height, a swapped order) for which TLC finds the
property violated.

Runs that find a violation, each against a sentence of the repository or a total
that its tests rely on:

* `hook_lock` - two receivers of one list that error: the replies remove by stale
  indices, the last of them panics past the end, and neither proposing nor
  settling goes through. The README of the contract (lines 41 to 43) says that
  removing receivers keeps them from locking the module. Where the index is not past
  the end it means another receiver, and a healthy one is removed: that is why
  `OneFailureIsRemoved` speaks of one failing receiver and of steps in which the DAO
  itself leaves the list alone. A message that takes a receiver off the list in the very
  step is not covered by it: there the replies go by the list from before the message, and with one
  failing receiver may remove another, or panic. Such a proposal cannot be
  executed while the receiver errors, which `EverySettled` names among what may stand in the way.
* `dao_total` - `execute_propose` reads the total power *before* its own hook
  makes vesting take the snapshot that changes the powers at that very height.
  Members can then vote with more than the total that was recorded, which
  `proposal.rs:31` calls the total power at the time of creation.
* `cw20_repeated` - two initial rows of one address: the second balance replaces
  the first, the supply counts both.

More observations, which no sentence of the repository contradicts:

* An account that was removed keeps its last voting power (its `VESTING_DATA.remove`
  is commented out) while the total drops it.
* By either of the two, votes may exceed the total power that a proposal recorded, and then
  the subtractions of the tally panic: it can be neither voted on nor settled.
  `CoveredVotesFit` says which proposals are safe from that.
* In the block that instantiates the vesting contract the total reads zero for good.
* `query_is_active` measures `vested - claimed`, the total power
  `min(vesting, prevested) - claimed`, so that a DAO may be inactive with enough power
  (never the other way, `ActiveHasPower`).
* A percentage below the precision is rounded down to nothing, and a proposal may then
  pass without a yes vote; with any percentage that is rounded an early decision may be
  revised later (both excluded by `Exactly`).
* A new configuration that names another DAO makes the votes on old proposals ask
  that one for powers, while their total came from the first one.
* The helper `Airdrop.verify` (`airdrop.ts:25`) compares buffers that it makes of hexadecimal
  text without saying so, and is never true; the contract does not use it.

## 4. Fairness

Liveness is checked of two specifications.

* `Vesting!FairSpec`: weak fairness of `NextBlock` (a chain that goes on) and of
  each `Claim(a)` (a beneficiary who keeps asking). The contract schedules
  nothing itself; without someone asking nothing is ever paid.
  `GrantEventuallyPaid` excuses grants that the contract has no tokens for and
  grants that add up to more than a Uint128.
* `Proposal!FairSpec`: weak fairness of `NextBlock` and, for each proposal, of
  someone executing or closing it, which anyone may do. The receivers of hooks need not be
  fair: they may error and recover as they like. `EverySettled` is asked of a proposal
  which from some time on nothing obstructs. What may obstruct it is named in `Obstructed`:
  the bounded chain ends before it expires; more was voted on it than its total power; two
  receivers of the proposal hooks error, or one does while the message of the proposal takes a
  receiver off that list (both make the replies remove by a stale index, and possibly
  panic); its message is one that the DAO refuses; nobody with power is left to execute it. It is
  checked without receivers, for all kinds of decisions (`votes`), and with receivers that break and
  messages that change their lists (`hooks`).

## 5. What TLAPS proves

Each theorem holds for every value of the constants, under the named assumptions
on constants of its module: `MaxUintAssumption` and `VestingAssumption` (vesting,
voting power; the latter also `VotingPowerAssumption`), `TallyAssumption` and
`LifecycleAssumption` (one proposal), `ProposalAssumption` (the contract), `SetupAssumption`,
`Cw20Assumption` and `AirdropAssumption`; the composition has `DaoAssumption` and those of
vesting and voting power, from which it proves what `Proposal` assumes. Sums
need that there are finitely many members: `IsFiniteSet(Address)` is part of these
assumptions. `AirdropAssumption` asks of lists and proofs only that they are finite
sequences, of a list that it is not empty.

| Theorem | | says |
|---|---|---|
| `VestingProofs!TypeCorrect` | `Spec => []TypeOK` | every variable of the vesting contract keeps its type |
| `NoUnderflow` | `Spec => []ClaimedIsVested` | no unwrapped subtraction fails |
| `PaidExactly` | `Spec => []GrantPaidExactly` | every grant is paid once |
| `TotalIsOfAccounts` | `Spec => []TotalMatchesAccounts` | the total is that of the accounts |
| `PowerWellDefined` | `Spec => []ClaimedIsCounted` | records count claims in full |
| `PastIsFrozen` | `Spec => PastHeightsFrozen` | answers about past blocks stay |
| `Refinement` | `Spec => GrantLedgerSpec` | the contract keeps the abstract promise |
| `DaoProofs!PastPowersAreFrozen` | `VPSpec => PastPowersFrozen` | past powers and totals stay |
| `PowersSum` | `VPSpec => []PowerAddsUp` | stakes and the registered accounts' powers add up to the total of the current block, if the sums fit |
| `ActiveEnoughPower` | `VPSpec => []ActiveHasPower` | an active DAO has the power asked for |
| `VestingWithin` | `VPSpec => Spec` | the voting module inherits what holds of vesting |
| `VotingPowerWithin` | `DaoSpec => VPSpec` | the composition inherits what holds of both |
| `ProposalWithin` | `DaoSpec => ProposalSpec` | the composition inherits what holds of `Proposal` |
| `VotesAnswered` | `DaoSpec => []VotesAreTheAnswers` | the votes are what queries answer later |
| `CoveredFit` | `DaoSpec => []CoveredVotesFit` | a total that covers the powers is never exceeded |
| `SnapshotsFollow` | `DaoSpec => ProposalsAreFollowed` | proposals take the snapshots of vesting along |
| `SetupProofs!Atomic` | `SUSpec => SetupIsAtomic` | the instantiation is one step or none |
| `LinksAgree` | `SUSpec => []ContractsAgree` | token, staking and vesting contract agree |
| `CountReachable` | `SUSpec => []ThresholdReachable` | the supply reaches the threshold |
| `RefusedWithReason` | `SUSpec => []RefusedForReason` | no reply refuses what the checks allow |
| `ProposalLifecycleProofs!SettledAsAccepted` | `LCSpec => []SettledRightly` | executed was accepted, closed was not (votes within the total, as in the next three) |
| `DecisionsAreFinal` | `LCSpec => DecisionIsFinal` | nothing revises a decision |
| `PassedWhenSure` | `LCSpec => []PassedIsSure` | passed early: exactly when sure to pass |
| `RejectedWhenSure` | `LCSpec => []RejectedIsSure` | rejected early: exactly when sure to fail |
| `ProposalProofs!TypesRight` | `Spec => []TypeOK` | every variable of the proposal contract keeps its type |
| `VotesCounted` | `Spec => []VotesAreThePowers` | votes are powers of the start height, unless answered otherwise in its block |
| `NoTallyUnderflows` | `Spec => []VotesWithinPower` | no tally underflows if the total covers the powers |
| `DepositsHeld` | `Spec => []DepositsBacked` | outstanding deposits are held |
| `LivesAsLifecycle` | `Spec => LifecycleSpec` | the contract implements `ProposalLifecycle` |
| `FailingReceiverLeaves` | `Spec => OneFailureIsRemoved` | one failing receiver, and nobody else, is removed |
| `ListingsAddUp` | `Spec => ListedVotesAddUp` | a list read by pages adds up while votes are cast |
| `EachListedOnce` | every reading, `EachOnce` | keys that stay are on one page each, in either order, whatever else changes |
| `AirdropProofs!ListedOnce` | `Spec => []ClaimedAsListed` | one listed amount per stage |
| `PaidOutOfFunds` | `Spec => []ClaimsAddUp` | the books balance |
| `StagesAreKept` | `Spec => StagesStay` | stages stay as registered |
| `ListedAreServed` | `Spec => []ListedMayClaim` | who is listed can claim with the proof it was given |
| `OnlyListedLead` | every list, entry and proof | only entries of a list lead to its root |
| `ListedLead` | every list and entry | the proof of an entry leads to the root |
| `Cw20Proofs!SpentAsGranted` | `Spec => []SpentWithinGranted` | nobody spends more than granted |
| `SupplyHeld` | `OneRowEach => (Spec => []SupplyIsHeld)` | the supply is what all hold |
| `LogoAsAnnounced` | `Spec => []LogoIsAnnounced` | the two logos agree |

**Vesting.** The inductive invariant `IInv` strengthens type correctness by four parts, each
needed by the next step of the argument:

* `GoodAccounts`: dates in order, and claimed at most vested. Claims keep it
  because a claim sets claimed to vested, and blocks keep it because the vested
  share is a truncated division that grows with time (`DivMono`, `DivFloor`) and
  stays below the amount (`DivShare`).
* `GrantPaidExactly` itself is inductive given `GoodAccounts`.
* `DataBehind`: every record in a store, current or logged, counts a claimed
  amount in full, and nothing is logged at or after the current block. From
  the second half a save one block back leaves every earlier answer alone
  (`SaveFrozen`), which is `PastIsFrozen`.
* `TotalBehind`: the same for the total, except in the block of the
  instantiation, where one entry lies *ahead* of the snapshots; all it can hold is
  the zero total (`BirthLog`).

`Refinement` maps accounts to open grants: a registration is a `Grant`, a claim a
`Pay` that is due (`VestedIsDue`), a deregistration a `Settle`.

**Voting power.** A power at a past height is a function of three answers:
staked, vesting and the total of vesting. `VPIInv` adds to `IInv` that stakes of
past blocks are recorded; `PowersKept` then follows from `SaveFrozen`.

`TotalIsOfAccounts` and `PowersSum` add that what is stored now of the total is the sum
of what is stored now of the accounts (`LatestMatch`); by `SafeData` each stored record
counts what was claimed, so that no `unwrap_or(0)` hides a term and the capped powers
add up to the capped total (`TotalPowerIs`).

**The three together.** `VotingPowerWithin` carries the theorems about vesting and voting
power over to `Dao`, since a hook is a snapshot and nothing else. `ProposalWithin` does
so for the proposal contract: what the voting module answers are Uint128s (`PowersTyped`,
`TotalTyped`, by what `PowersSum` rests on), within a block a step leaves the answers about past
blocks alone (`BlockStays`, from `PowersKept`), and in the next block the last answers
are those about a past one (`BlockSteps`). So every step is one of `Proposal`
(`StepsOfProposal`), and with `DaoAssumption` its assumptions hold (`Assumed`), by
which all lemmas of `ProposalProofs` can be cited with these answers (`GP`); an INSTANCE
makes definitions of its own, and the lemmas `Same...` say that they are those of `Dao`.
`VotesAnswered` is `CoreInv` read that way. `CoveredFit` needs an invariant on top of it:
where neither exception applies, the sum of the powers at the start height is at most
the total recorded (`Covering`). It holds of a new proposal by `PowersSum`, and stays because
a proposal keeps its total (`MakingKept`) and the powers of its block stay.

**Sums.** The community modules add up a function by recursion over a set, and a
recursion cannot be instantiated by the provers' induction theorems. `SumProofs` goes
round them: that the recursion has one solution, and each law of sums (a value
changes, an argument is added, larger values make a larger sum), is shown by looking
at a least counterexample, whose existence is a theorem about sets.

**Setup.** The invariant `SInv` says how far a transaction is: which submessages are
left (`Waiting`), which addresses are stored (`Linked`), by which new contracts the chain
differs from the one before (`OnChain`), and that their addresses were free (`Fresh`).
`Commit` then is `Install` of the abstract specification (`CommitInstalls`) and every other
step a stutter or an `Ask`; `before`, which the refinement shows instead of the chain
while the transaction runs, is what `RollBack` gives back.

**Decisions.** For percentages that need no rounding, the scaled and truncated
comparisons of the code are comparisons of fractions (`PassesIsShare`, `FailsIsShare`);
with rounding they are so up to less than one precision-th of a vote (`PassIsNear`).
From it: what passes is accepted, or nearly so (`PassedAccepted`, `PassedNearly`), what is
accepted at the end passes (`AcceptedPassed`), what is rejected early is not accepted
(`RejectedNotAccepted`). So the status at the end agrees with every earlier one
(`StatusLater`), and `Inv`, which says that stored decisions agree with the threshold,
is inductive. That an early decision is taken *exactly* when no future vote can change
it needs, for one direction, that abstentions and missing votes only leave fewer
options (`ShareOfFewer`, `ShareOfMore`), and for the other the worst votes that can still
come: everybody who has not voted votes no, or yes (`LastVotes`).

**The proposal contract.** The invariant `CoreInv` joins what an action needs of the
rest: a proposal was made in this block or one before, a ballot has the power
that is answered for its voter at that height, and the tally of an option is the sum of the
powers of those whose ballot says so. A ballot is compared with `past` once its
block is over, and before with the present answer, unless that has changed (`outdated`). The votes
for the options are of different voters, so together they are at most the sum of the powers,
which is what `VotesWithinPower` needs where the total covers it. Without any such
bound each step of the contract is a step of the watched proposal's life or a stutter
(`LifecycleSteps`). Deposits are one sum over
the proposals, of which an action changes one term. For the hooks, `OneReply` says what
the dispatch makes of a list when at most one reply concerns it, by looking at the first
submessage after which it would not be so; `Tells` connects the ids of the
submessages with the places of the list. It rests on `ReceiversGood`: no receiver is
listed twice.

**Lists in pages.** A page has the first keys after its bound, and some if there are any
(`OnePage`), so that reading on from any bound lists the keys after it, once and in
ascending order (`ReadUpLists`). A reading that a change interrupts is the beginning of
one such list and the rest of another from a common bound on (`ListsJoined`): what was there
all the time is on one page (`EachListedOnce`). Lists in descending order are such lists
of the keys as they are counted from the top: the page before a bound, turned, is the page
of the turned keys after the turned bound (`TurnedPage`, `ReadDownLists`). Pages without a common key add up to one
sum over the voters they show (`PagesAdd`), among whom are all who had voted at the
beginning, and only such as have voted by the end; by `CoreInv` these sums are what is
cast (`CastIsSum`).

**Airdrop.** The trees are proved about for lists of any length. A layer has half the nodes
of the one below, rounded up, so that there is a top with a root alone (`TreeExists`). Hashes
are free terms, so that an entry which some of a proof leads to a node of a layer is led to
one of the layer below by no more of it; all the way down, the entry is a leaf of the list
(`LedToTree`, `OnlyListedLead`). Going up, each neighbour that `getMerkleProof` lists
takes the hash to the node above, and a node without one is its own node above
(`OneWayOn`, `ProofLeads`, `ListedLead`). The invariant `AInv` adds to what is claimed as listed
and to the types that nothing is claimed of a stage still to come, since the stage a
root is registered as must be one that nobody got anything of, and that whoever
claimed got something (`ClaimsPay`), so that `ListedMayClaim` can go by what was received.
`ClaimsAddUp` follows each claim into the sum of its stage and the sum of all stages (`ClaimAddsUp`).

**Cw20.** What was spent and what is still allowed is at most what was granted: raising
adds the same to both sides, spending moves an amount from allowed to spent, lowering
takes from what is allowed, and an expiration changes no amount (`ExpiringKeeps`). `SpentWithinGranted` is
inductive with the types of the allowances (`GrantInv`). `SupplyHeld` has a premise,
`OneRowEach`, that no address has two initial rows; the run `cw20_repeated` shows that it
is needed.

Only model-checked: liveness (`GrantEventuallyPaid`, `EverySettled`; fairness and
ENABLED are out of the prover's reach). Every other property of a passing run is stated by
a theorem, and `EachListedOnce` proves for every map and limit what `PagesListEachOnce`
evaluates on small ones.

## 6. Plan

Done: every contract is modelled, with all its messages, queries by height and
replies, checked and, but for liveness, proved, alone and composed. What could follow:

1. A configuration that names another DAO: powers of two voting modules.
2. Two proposals at a time in the runs (the proofs are about any number).
3. Several changes between the pages of one reading: `ListedVotesAddUp` considers one, and
   `EachListedOnce` allows for one.
4. What the hook replies do when the executed message has changed the list, as a statement of its
   own; `OneFailureIsRemoved` leaves it out, `EverySettled` only excuses it.

Not modelled, on purpose: address validation, event attributes, version records and
`migrate` (which changes nothing else), gas, the checks of names and symbols, the size
limit of a proposal, the command line of the helpers and their `verify`, schemas and
the programs that generate them.
