-------------------------------- MODULE Dao --------------------------------
(***************************************************************************)
(* The DAO as it is set up by the integration test of the voting module    *)
(* (tests.rs:1776): the proposal module asks the voting module for the     *)
(* power of its members, which asks the staking and the vesting contract;  *)
(* and the vesting contract is a receiver of the proposal hooks, so that   *)
(* it takes a snapshot whenever a proposal is made or changes its status.  *)
(*                                                                         *)
(* The transactions of the proposal module are those of Proposal, and what *)
(* Proposal leaves open is given here: the answers of the voting module,   *)
(* and when the vesting contract errors as a receiver.                     *)
(***************************************************************************)
EXTENDS VotingPower

CONSTANTS
  VestingContract,    \* its address, among the hook receivers
  Token,              \* the tokens of deposits
  VotingToken,        \* the token of the voting module
  Configs,            \* the configurations that are tried
  PreAllowed,         \* the pre_allowed_addresses that are tried
  Messages,           \* the messages that a proposal may carry
  MaxProposals,       \* bound: how many proposals are made
  Rank,               \* the order of addresses
  Precision           \* PRECISION_FACTOR of the voting crate

VARIABLES
  config, allowed, hooks, proposals, ballots, held,
  outdated,           \* history: the proposals with a ballot whose power was
                      \* answered otherwise afterwards
  uncovered           \* history: the proposals whose total power need not
                      \* cover the powers that they are voted on with

proposal == <<config, allowed, hooks, proposals, ballots, held>>
daovars == <<vpvars, proposal, outdated, uncovered>>

\* The heights that a query can ask for.
Heights == InitHeight .. height

G == INSTANCE Proposal WITH
  Dao        <- {VotingDao},
  Receiver   <- {VestingContract},
  Answers    <- [power : [Address -> Amounts], total : Amounts, active : BOOLEAN],
  Watched    <- 1,
  Limits     <- {},
  One        <- Unit,
  answer     <- [power  |-> [a \in Address |-> VotingPowerAt(a, height)],
                 total  |-> TotalPowerAt(height),
                 active |-> IsActive],
  past       <- [h \in InitHeight .. height - 1 |->
                   [a \in Address |-> VotingPowerAt(a, h)]],
  broken     <- IF SnapshotDefined(accounts) THEN {} ELSE {VestingContract}

ASSUME DaoAssumption ==
  /\ Configs \subseteq G!ConfigWith(Token \cup Address \cup {G!VotingModuleToken})
  /\ VotingToken \in Token /\ G!VotingModuleToken \notin Token \cup Address
  /\ Messages \subseteq G!Message
  /\ PreAllowed \subseteq SUBSET Address
  /\ MaxProposals \in Nat /\ Precision \in Nat \ {0}
  /\ Rank \in [Address -> 1 .. Cardinality(Address)]
  /\ \A a, b \in Address : Rank[a] = Rank[b] => a = b

DaoInit ==
  /\ VPInit
  /\ config \in {G!Configured(c) : c \in {d \in Configs : G!ValidConfig(d)}}
  /\ allowed \in PreAllowed
  /\ hooks = G!NoHooks
  /\ proposals = <<>>
  /\ ballots = [k \in {} |-> 0]
  /\ held = [t \in Token |-> 0]
  /\ outdated = {}
  /\ uncovered = {}

\* The vesting contract is told of the step: it is a receiver, and a
\* proposal is new or its status changes.
Told ==
  /\ \E i \in DOMAIN hooks.proposal : hooks.proposal[i] = VestingContract
  /\ \E id \in DOMAIN proposals' :
       id \in DOMAIN proposals => proposals'[id].status # proposals[id].status

\* Mutant of HookCalled: the hook is never delivered.
HookLost == UNCHANGED <<data, total>>

\* The hook runs in the transaction, after its handler: ProposalHook takes a
\* snapshot, or fails and changes nothing.
HookCalled ==
  IF Told /\ SnapshotDefined(accounts)
  THEN SnapshotOf(accounts)
  ELSE UNCHANGED <<data, total>>

\* The total power that the voting module answers covers the powers it
\* answers: not in the block that instantiates the vesting contract, not when
\* a sum is no Uint128, and not when a removed account keeps its power.
TotalCovers ==
  /\ height > InitHeight
  /\ PowersFit
  /\ \A a \in Address \ Registered : VotingPowerAt(a, height) = StakedAt(a, height)

\* The voting module answers otherwise about the powers of this block.
PowersMove ==
  \E a \in Address : VotingPowerAt(a, height)' # VotingPowerAt(a, height)

\* The proposals of this block.
OfThisBlock == {id \in DOMAIN proposals' : proposals'[id].start_height = height}

\* What is remembered of a step within a block.
Remembered ==
  /\ outdated' = outdated \cup G!Outdating
  /\ uncovered' = uncovered \cup
       {id \in OfThisBlock : PowersMove \/ (id \notin DOMAIN proposals /\ ~TotalCovers)}

ProposalStep ==
  /\ \/ \E sender \in Address, id \in G!Ids, vote \in G!Vote :
          G!CastVote(sender, id, vote)
     \/ \E sender \in Address, m \in Messages : G!Propose(sender, m)
     \/ \E sender \in Address, id \in G!Ids :
          G!Execute(sender, id) \/ G!Close(sender, id)
     \/ \E m \in Messages \ {G!NoMessage} : G!DaoCall(VotingDao, m)
  /\ HookCalled
  /\ UNCHANGED <<block, owner, accounts, balance, ledger, staked, active_threshold>>
  /\ Remembered

DaoNextBlock == VPNextBlock /\ UNCHANGED <<proposal, outdated, uncovered>>

\* A step of the voting power or of the vesting contract.
VotingModuleStep ==
  /\ \/ VestingStep
     \/ \E sender \in Address \cup {VotingDao}, t \in ActiveThresholds :
          UpdateActiveThreshold(sender, t)
  /\ UNCHANGED proposal
  /\ Remembered

DaoNext == ProposalStep \/ DaoNextBlock \/ VotingModuleStep

DaoSpec == DaoInit /\ [][DaoNext]_daovars
-----------------------------------------------------------------------------
Voters(id, o) ==
  {a \in Address : <<id, a>> \in DOMAIN ballots /\ ballots[<<id, a>>].vote = o}

(* Everyone votes on a proposal with the power that a query for its start  *)
(* height answers at any later time, whatever was vested, claimed,         *)
(* registered or removed between one vote and the next, by hooks or        *)
(* otherwise (contract.rs:330 of the proposal module, contract.rs:84 of    *)
(* the vesting contract).  The one exception: a vote in the block of the   *)
(* proposal itself, followed in that block by a snapshot that changes the  *)
(* power of that very height.                                              *)
VotesAreTheAnswers ==
  \A id \in G!Ids \ outdated, o \in G!Vote :
    LET p == proposals[id]
    IN  p.votes[o] = SumFunction([a \in Voters(id, o) |-> VotingPowerAt(a, p.start_height)])

(* A proposal made while the total power covers the powers of the members, *)
(* and whose block sees no change of them afterwards, is never voted on    *)
(* with more than the total it recorded, whatever is claimed, registered   *)
(* or removed later: its tally does not panic (proposal.rs:145-276).  The  *)
(* run dao_total shows that this is not so of every proposal.              *)
CoveredVotesFit ==
  \A id \in G!Ids \ uncovered :
    G!Within(proposals[id]) /\ G!StatusDefined(proposals[id], height)

(* The proposal module in this DAO is the one of Proposal: the voting      *)
(* module never changes what it answers about a past block, and answers    *)
(* with numbers that are Uint128s, by which what is shown of Proposal      *)
(* holds of the deployed contracts (contract.rs:334-393 of the voting      *)
(* module, contract.rs:84 of the vesting contract).                        *)
ProposalSpec == G!Spec

(* The snapshots follow the proposals: when a member makes a proposal, the *)
(* next block sees what every account has prevested by then, though nobody *)
(* called Snapshot (contract.rs:58 of the vesting contract).               *)
ProposalsAreFollowed ==
  [][\A a \in Registered :
       (Told /\ SnapshotDefined(accounts)) =>
         LoadAt(data'[a], height + 1) = DataOf(accounts[a], now)]_daovars

(* proposal.rs:31: total_power is "The total amount of voting power at the *)
(* time of this proposal's creation", and start_height is the height that  *)
(* "Voting power queries should query for voting power at" (line 18): the  *)
(* total is the sum of the powers that members vote with.                  *)
TotalPowerIsPower ==
  \A id \in G!Ids :
    LET p == proposals[id]
    IN  p.start_height > InitHeight =>
          p.total_power =
            SumFunction([a \in Address |-> VotingPowerAt(a, p.start_height)])
=============================================================================
