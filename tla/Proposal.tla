------------------------------ MODULE Proposal ------------------------------
(***************************************************************************)
(* klmd-custom-proposal: members of a DAO make proposals against a         *)
(* deposit, vote on them with the power they had when the proposal was     *)
(* made, and execute or close them.  What a passed proposal executes are   *)
(* messages of the DAO, among them those that only the DAO may send to     *)
(* this contract.                                                          *)
(*                                                                         *)
(* One action is one transaction: its handler, the messages it returns and *)
(* the replies to them.  A transaction that fails or panics has no effect  *)
(* at all, so what makes it fail are the guards of the action.             *)
(*                                                                         *)
(* The voting module of the DAO is asked for the power of a member and for *)
(* the total power at a height.  What it answers about the present block   *)
(* may change at any time, the hooks of a transaction included, and the    *)
(* total is not the sum of the powers; what it answers about past blocks   *)
(* stays.  Dao shows that the module of this repository answers so.        *)
(*                                                                         *)
(* A configuration may name another DAO, with powers of its own, and the   *)
(* code then asks that one about old proposals too; here all name the same *)
(* one.                                                                    *)
(*                                                                         *)
(* Durations are numbers of blocks; no minimum voting period is written 0, *)
(* and no deposit is a deposit of 0, which the code treats alike.          *)
(***************************************************************************)
EXTENDS Tally, Hooks, StorageMap, Paging

CONSTANTS
  Address,        \* members and other accounts
  Dao,            \* addresses of DAOs
  Receiver,       \* contracts that can be hook receivers
  Token,          \* the tokens that deposits are made in
  VotingToken,    \* external: the token of the DAO's voting module
  Configs,        \* the configurations that are asked for
  Messages,       \* the messages that a proposal may carry
  PreAllowed,     \* the pre_allowed_addresses that are asked for
  Answers,        \* what the voting module may answer about a block
  InitHeight,     \* the block that instantiates the contract
  MaxHeight,      \* bound: the last block
  MaxProposals,   \* bound: how many proposals are made
  Rank,           \* the order of addresses, for lists of votes
  Limits,         \* the limits that lists are asked for with
  Watched         \* the proposal that is compared with ProposalLifecycle

\* DepositInfo, or once it is checked CheckedDepositInfo: the token is asked
\* for by an address, which may be no token, or as that of the voting module.
VotingModuleToken == "voting_module_token"
DepositInfo(tokens) ==
  [token : tokens, deposit : Nat, refund_failed_proposals : BOOLEAN]

ConfigWith(tokens) ==
  [threshold : Threshold, max_voting_period : Nat, min_voting_period : Nat,
   only_members_execute : BOOLEAN, allow_revoting : BOOLEAN, dao : Dao,
   deposit_info : DepositInfo(tokens)]
Config == ConfigWith(Token)

\* The messages of a proposal: none, or one that the DAO sends back to this
\* contract.  Messages to other contracts change nothing here.
NoMessage == [call |-> "none"]
Message ==
  {NoMessage}
    \cup [call : {"update_config"}, config : Configs]
    \cup [call : {"add_proposal_hook", "remove_proposal_hook",
                  "add_vote_hook", "remove_vote_hook"}, receiver : Receiver]
    \cup [call : {"allow", "disallow"}, address : Address]

\* VotingPowerAtHeight of each member, TotalPowerAtHeight and IsActive.
Answer == [power : [Address -> Uint128], total : Uint128, active : BOOLEAN]

ASSUME ProposalAssumption ==
  /\ Configs \subseteq ConfigWith(Token \cup Address \cup {VotingModuleToken})
  /\ \A c, d \in Configs : c.dao = d.dao
  /\ VotingToken \in Token /\ VotingModuleToken \notin Token \cup Address
  /\ Messages \subseteq Message
  /\ IsFiniteSet(Address)
  /\ PreAllowed \subseteq SUBSET Address
  /\ Answers \subseteq Answer
  /\ InitHeight \in Nat /\ MaxHeight \in Nat /\ InitHeight <= MaxHeight
  /\ MaxProposals \in Nat /\ Watched \in Nat \ {0}
  /\ Rank \in [Address -> 1 .. Cardinality(Address)]
  /\ \A a, b \in Address : Rank[a] = Rank[b] => a = b
  /\ Limits \subseteq Nat \ {0}

VARIABLES
  height,       \* env.block.height
  answer,       \* what the voting module answers about this block
  past,         \* and, for each block before it, the power of each member
  broken,       \* external: the receivers that error when they are called
  outdated,     \* history: the proposals with a ballot whose power was
                \* answered otherwise afterwards
  config,       \* CONFIG
  allowed,      \* ALLOWED_ADDRESSES
  hooks,        \* PROPOSAL_HOOKS and VOTE_HOOKS
  proposals,    \* PROPOSALS, whose length is PROPOSAL_COUNT
  ballots,      \* BALLOTS
  held          \* external: what the contract holds of each token

admin == <<config, allowed, hooks>>
vars == <<height, answer, past, broken, outdated, admin, proposals, ballots, held>>

Ids == DOMAIN proposals

ProposalRecord ==
  [threshold : Threshold, votes : Votes, total_power : Uint128,
   status : Status, allow_revoting : BOOLEAN,
   min_voting_period : Nat, expiration : Nat,
   proposer : Address, start_height : Nat, msgs : Message,
   deposit_info : DepositInfo(Token)]

TypeOK ==
  /\ height \in InitHeight .. MaxHeight
  /\ answer \in Answer
  /\ past \in [InitHeight .. height - 1 -> [Address -> Uint128]]
  /\ broken \subseteq Receiver
  /\ outdated \subseteq Ids
  /\ config \in Config
  /\ allowed \subseteq Address
  /\ hooks.proposal \in Seq(Receiver) /\ hooks.vote \in Seq(Receiver)
  /\ proposals \in Seq(ProposalRecord)
  /\ DOMAIN ballots \subseteq Ids \X Address
  /\ ballots \in [DOMAIN ballots -> [power : Uint128, vote : Vote]]
  /\ held \in [Token -> Nat]

-----------------------------------------------------------------------------
\* DepositInfo::into_checked; it fails unless the address answers as a token.
IntoChecked(info) ==
  [info EXCEPT !.token = IF @ = VotingModuleToken THEN VotingToken ELSE @]

\* threshold.validate, validate_voting_period and the deposit's token.
ValidConfig(c) ==
  /\ c.threshold \in Threshold
  /\ c.min_voting_period <= c.max_voting_period
  /\ IntoChecked(c.deposit_info).token \in Token

\* The configuration that is stored.
Configured(c) == [c EXCEPT !.deposit_info = IntoChecked(@)]

Init ==
  /\ height = InitHeight
  /\ answer \in Answers
  /\ past = [h \in {} |-> answer.power]
  /\ broken \in SUBSET Receiver
  /\ outdated = {}
  /\ config \in {Configured(c) : c \in {d \in Configs : ValidConfig(d)}}
  /\ allowed \in PreAllowed
  /\ hooks = NoHooks
  /\ proposals = <<>>
  /\ ballots = [k \in {} |-> 0]
  /\ held = [t \in Token |-> 0]

-----------------------------------------------------------------------------
(* The messages that only the DAO may send.  A passed proposal runs them   *)
(* inside its execution, so each handler is an operator on what it may     *)
(* change: it returns the outcome, or nothing when it fails.               *)

Admin == [config |-> config, allowed |-> allowed, hooks |-> hooks]

SetAdmin(adm) ==
  /\ config' = adm.config
  /\ allowed' = adm.allowed
  /\ hooks' = adm.hooks

When(accepted, outcome) == IF accepted THEN {outcome} ELSE {}

\* execute_update_config.
UpdateConfig(adm, c) ==
  When(ValidConfig(c), [adm EXCEPT !.config = Configured(c)])

\* execute_add_proposal_hook, execute_add_vote_hook.
AddHookTo(adm, list, r) ==
  When(CanAddHook(adm.hooks[list], r), [adm EXCEPT !.hooks[list] = AddHook(@, r)])

\* execute_remove_proposal_hook, execute_remove_vote_hook.
RemoveHookFrom(adm, list, r) ==
  When(CanRemoveHook(adm.hooks[list], r),
       [adm EXCEPT !.hooks[list] = RemoveHook(@, r)])

\* execute_register_allowed_address.
RegisterAllowed(adm, a) ==
  When(a \notin adm.allowed, [adm EXCEPT !.allowed = @ \cup {a}])

\* execute_deregister_allowed_address.
DeregisterAllowed(adm, a) ==
  When(a \in adm.allowed, [adm EXCEPT !.allowed = @ \ {a}])

\* The outcome of m sent by the DAO.
Called(adm, m) ==
  CASE m.call = "update_config"        -> UpdateConfig(adm, m.config)
    [] m.call = "add_proposal_hook"    -> AddHookTo(adm, "proposal", m.receiver)
    [] m.call = "add_vote_hook"        -> AddHookTo(adm, "vote", m.receiver)
    [] m.call = "remove_proposal_hook" -> RemoveHookFrom(adm, "proposal", m.receiver)
    [] m.call = "remove_vote_hook"     -> RemoveHookFrom(adm, "vote", m.receiver)
    [] m.call = "allow"                -> RegisterAllowed(adm, m.address)
    [] m.call = "disallow"             -> DeregisterAllowed(adm, m.address)
    [] m.call = "none"                 -> {adm}

\* get_deposit_msg: the deposit is taken from the proposer.
Deposited(info) == held' = [held EXCEPT ![info.token] = @ + info.deposit]

\* get_return_deposit_msg: the deposit goes back to the proposer; a deposit of zero sends nothing.
Refund(info) ==
  /\ info.deposit <= held[info.token]
  /\ held' = [held EXCEPT ![info.token] = @ - info.deposit]

\* Every message was sent, and every reply to one that failed came through.
Hooked(start, msgs) ==
  LET end == Dispatch(start, msgs, broken)
  IN  end # Panicked /\ hooks' = end

-----------------------------------------------------------------------------
(* Mutants: plausible slips, used only to show that a property notices.    *)

\* the stored status is looked at, not the current one
VotableAsStored(p) == p.status = "open"

\* a vote that replaces another one is only added
VotesKeepingOld(votes, old, new) == [votes EXCEPT ![new.vote] = @ + new.power]

\* the replaced vote is taken from the new option
VotesSwapped(votes, old, new) ==
  [votes EXCEPT ![new.vote] =
     @ + new.power - 2 * SumFunction([b \in old |-> b.power])]

\* the deposit of the present configuration is sent back
RefundedAsConfigured(p) == config.deposit_info

\* the power at the time of the vote counts
PowerWhenVoting(p, sender) == answer.power[sender]

-----------------------------------------------------------------------------
\* execute_propose.
Propose(sender, m) ==
  LET made == [threshold         |-> config.threshold,
               votes             |-> NoVotes,
               total_power       |-> answer.total,
               status            |-> "open",
               allow_revoting    |-> config.allow_revoting,
               min_voting_period |-> IF config.min_voting_period = 0 THEN 0
                                     ELSE height + config.min_voting_period,
               expiration        |-> height + config.max_voting_period,
               proposer          |-> sender,
               start_height      |-> height,
               msgs              |-> m,
               deposit_info      |-> config.deposit_info]
  IN  /\ Len(proposals) < MaxProposals
      /\ answer.active
      /\ answer.power[sender] > 0
      /\ sender \in allowed
      /\ StatusDefined(made, height)
      /\ proposals' = Append(proposals,
                             [made EXCEPT !.status = CurrentStatus(made, height)])
      /\ Deposited(made.deposit_info)
      /\ Hooked(hooks, SubMsgs(hooks.proposal, "proposal"))
      /\ UNCHANGED <<config, allowed, ballots>>

\* The proposal can be voted on.
Votable(p) == StatusDefined(p, height) /\ CurrentStatus(p, height) = "open"

\* VotingPowerAtHeight.
PowerAt(h) == IF h = height THEN answer.power ELSE past[h]

\* get_voting_power at the height the proposal was made.
PowerOf(p, sender) == PowerAt(p.start_height)[sender]

\* A ballot can be cast, and again only when it says something else.
CanCast(p, id, sender, vote) ==
  <<id, sender>> \in DOMAIN ballots =>
    p.allow_revoting /\ ballots[<<id, sender>>].vote # vote

\* remove_vote and add_vote: old is the set of the ballots replaced.
VotesAfter(votes, old, new) ==
  [o \in Vote |-> votes[o]
                    - SumFunction([b \in old |-> IF b.vote = o THEN b.power ELSE 0])
                    + IF new.vote = o THEN new.power ELSE 0]

\* No += of add_vote overflows.
VotesFit(votes) == \A o \in Vote : votes[o] <= MaxUint

\* execute_vote.
CastVote(sender, id, vote) ==
  LET p      == proposals[id]
      ballot == [power |-> PowerOf(p, sender), vote |-> vote]
      old    == {ballots[k] : k \in DOMAIN ballots \cap {<<id, sender>>}}
      voted  == [p EXCEPT !.votes = VotesAfter(@, old, ballot)]
      status == CurrentStatus(voted, height)
  IN  /\ Votable(p)
      /\ ballot.power > 0
      /\ CanCast(p, id, sender, vote)
      /\ VotesFit(voted.votes)
      /\ StatusDefined(voted, height)
      /\ ballots' = Put(ballots, <<id, sender>>, ballot)
      /\ proposals' = [proposals EXCEPT ![id] = [voted EXCEPT !.status = status]]
      /\ Hooked(hooks, StatusMsgs(hooks, p.status, status)
                         \o SubMsgs(hooks.vote, "vote"))
      /\ UNCHANGED <<config, allowed, held>>

\* The proposal can be executed.
Executable(p) == StatusDefined(p, height) /\ CurrentStatus(p, height) = "passed"

\* The deposit that a proposal gives back.
Refunded(p) == p.deposit_info

\* execute_execute: the DAO runs the message before the hooks are called,
\* with the list of hooks from before the message.
Execute(sender, id) ==
  LET p == proposals[id]
  IN  /\ config.only_members_execute => answer.power[sender] > 0
      /\ Executable(p)
      /\ proposals' = [proposals EXCEPT ![id].status = "executed"]
      /\ \E after \in Called(Admin, p.msgs) :
           /\ config' = after.config
           /\ allowed' = after.allowed
           /\ Hooked(after.hooks, StatusMsgs(hooks, p.status, "executed"))
      /\ Refund(Refunded(p))
      /\ UNCHANGED ballots

\* execute_close: the hooks are told of a change from rejected, also when
\* the proposal was still stored as open.
Close(sender, id) ==
  LET p == proposals[id]
  IN  /\ StatusDefined(p, height)
      /\ CurrentStatus(p, height) = "rejected"
      /\ proposals' = [proposals EXCEPT ![id].status = "closed"]
      /\ IF p.deposit_info.refund_failed_proposals
         THEN Refund(Refunded(p))
         ELSE UNCHANGED held
      /\ Hooked(hooks, StatusMsgs(hooks, "rejected", "closed"))
      /\ UNCHANGED <<config, allowed, ballots>>

\* A message that the DAO sends of its own accord; nobody else may.
DaoCall(sender, m) ==
  /\ sender = config.dao
  /\ \E outcome \in Called(Admin, m) : SetAdmin(outcome)
  /\ UNCHANGED <<proposals, ballots, held>>

\* The voters that query_list_votes lists, by their place in its order.
VotersOf(id) == {Rank[a] : a \in {b \in Address : <<id, b>> \in DOMAIN ballots}}

\* The proposals of this block that were voted on with a power which the
\* voting module answers otherwise now.
Outdating ==
  {id \in DOMAIN proposals' :
     /\ proposals'[id].start_height = height
     /\ \E a \in Address : /\ <<id, a>> \in DOMAIN ballots'
                           /\ answer'.power[a] # answer.power[a]}

\* Within a block the answers may change, those about past blocks do not.
SameBlock ==
  /\ answer' \in Answers
  /\ outdated' = outdated \cup Outdating
  /\ UNCHANGED <<height, past>>

\* A step of other contracts: the voting module may answer otherwise, and a
\* receiver may start to error, or stop.
Elsewhere ==
  /\ UNCHANGED <<admin, proposals, ballots, held>>
  /\ SameBlock
  /\ broken' \in SUBSET Receiver

\* A block goes by.
NextBlock ==
  /\ height < MaxHeight
  /\ height' = height + 1
  /\ past' = Put(past, height, answer.power)
  /\ answer' \in Answers
  /\ broken' \in SUBSET Receiver
  /\ UNCHANGED <<outdated, admin, proposals, ballots, held>>

\* A transaction of this contract, and what its messages to others do.
Transaction == SameBlock /\ UNCHANGED broken

Next ==
  \/ NextBlock
  \/ Elsewhere
  \/ \E sender \in Address, m \in Messages :
       Propose(sender, m) /\ Transaction
  \/ \E sender \in Address, id \in Ids, vote \in Vote :
       CastVote(sender, id, vote) /\ Transaction
  \/ \E sender \in Address, id \in Ids :
       Execute(sender, id) /\ Transaction
  \/ \E sender \in Address, id \in Ids :
       Close(sender, id) /\ Transaction
  \/ \E sender \in Dao, m \in Messages \ {NoMessage} :
       DaoCall(sender, m) /\ Transaction

Spec == Init /\ [][Next]_vars

\* Someone settles the proposal.
SettleIt(id) ==
  /\ id \in Ids
  /\ \E sender \in Address : Execute(sender, id) \/ Close(sender, id)
  /\ Transaction

\* Blocks keep coming, and someone keeps asking for what can be settled.
Fairness ==
  /\ WF_vars(NextBlock)
  /\ \A id \in 1 .. MaxProposals : WF_vars(SettleIt(id))

FairSpec == Spec /\ Fairness
-----------------------------------------------------------------------------
(* The votes of a proposal are, for each option, the power that those      *)
(* whose last ballot says so had when the proposal was made, however often *)
(* they changed their mind and whatever became of their power since        *)
(* (contract.rs:316-364).  Not so when they voted in the block of the      *)
(* proposal and their power in that block was answered otherwise later.    *)
VotesAreThePowers ==
  \A id \in Ids \ outdated, o \in Vote :
    LET p      == proposals[id]
        voters == {a \in Address : <<id, a>> \in DOMAIN ballots
                                     /\ ballots[<<id, a>>].vote = o}
    IN  p.votes[o] = SumFunctionOnSet(PowerAt(p.start_height), voters)

(* As long as the total power that a proposal was made with covers the     *)
(* powers of its members in that block, no more is voted than that, nor    *)
(* does anything the tally computes overflow or underflow, and the         *)
(* proposal does not get stuck on it (proposal.rs:145-276).  The voting    *)
(* module does not see to it: whether it does is up to CoveredVotesFit of  *)
(* Dao.                                                                    *)
Covered(id) ==
  /\ id \notin outdated
  /\ SumFunction(PowerAt(proposals[id].start_height)) <= proposals[id].total_power

VotesWithinPower ==
  \A id \in Ids :
    Covered(id) => Within(proposals[id]) /\ StatusDefined(proposals[id], height)

(* A list of the votes adds up, also when it is read in pages and someone  *)
(* votes between two of them: to no less than was cast when the reading    *)
(* began, and to no more than is cast by its end, whoever changed his mind *)
(* meanwhile (contract.rs:326, 754).  Only one such change is considered.  *)
ListedPower(id, pages) ==
  SumFunction([i \in DOMAIN pages |->
    SumFunction([a \in Address |->
      IF Rank[a] \in pages[i] THEN ballots[<<id, a>>].power ELSE 0])])

ListedVotesAddUp ==
  [][\A id \in Ids \ outdated, limit \in Limits :
       \A pages \in ReadingsUp(VotersOf(id), VotersOf(id)', limit, Cardinality(Address)) :
         /\ Cast(proposals[id].votes) <= ListedPower(id, pages)'
         /\ ListedPower(id, pages)' <= Cast(proposals'[id].votes)]_vars

(* Every deposit is held until its proposal is settled, and comes back     *)
(* exactly once or, for a closed proposal that gives no refund, never: the *)
(* contract holds what is outstanding, in the token each was made in,      *)
(* whatever the configuration says by now (contract.rs:228, 269, 410).     *)
Outstanding(p) ==
  IF \/ p.status = "executed"
     \/ p.status = "closed" /\ p.deposit_info.refund_failed_proposals
  THEN 0 ELSE p.deposit_info.deposit

DepositsBacked ==
  \A t \in Token :
    held[t] = SumFunction([id \in {i \in Ids : proposals[i].deposit_info.token = t} |->
                             Outstanding(proposals[id])])

(* Each proposal lives as ProposalLifecycle says.                          *)
Decided(p) ==
  [threshold |-> p.threshold, votes |-> p.votes, total_power |-> p.total_power,
   status |-> p.status, allow_revoting |-> p.allow_revoting,
   min_voting_period |-> p.min_voting_period, expiration |-> p.expiration]

Lifecycle == INSTANCE ProposalLifecycle WITH
  now       <- height,
  prop      <- IF Watched \in Ids THEN Decided(proposals[Watched])
               ELSE [status |-> "absent"],
  Openings  <- Tallied,
  FirstTime <- InitHeight,
  MaxTime   <- MaxHeight

LifecycleSpec == Lifecycle!LCSpec

\* The step tells the receivers of the list something.
Notified(list) ==
  IF list = "vote" THEN ballots' # ballots
  ELSE \E id \in DOMAIN proposals' :
         id \in Ids => proposals'[id].status # proposals[id].status

\* The receivers of the list that error.
Failing(list) == ToSet(hooks[list]) \cap broken

\* The DAO itself changes the receivers in this step.
DaoChangesHooks ==
  \E id \in Ids : /\ proposals'[id].status = "executed"
                  /\ proposals[id].status # "executed"
                  /\ proposals[id].msgs.call \notin {"none", "update_config",
                                                     "allow", "disallow"}

\* The receivers of the list without one that errors, in their order.
WithoutFailing(list) ==
  LET places == {i \in DOMAIN hooks[list] : hooks[list][i] \in broken}
  IN  IF places = {} THEN hooks[list]
      ELSE RemoveAt(hooks[list], CHOOSE i \in places : TRUE)

(* A handler that tells a list of receivers something leaves the ones that *)
(* did not error in it, in their order, as long as no more than one of the *)
(* list errors (contract.rs:795).                                          *)
OneFailureIsRemoved ==
  [][\A list \in {"proposal", "vote"} :
       Notified(list) /\ ~DaoChangesHooks /\ Cardinality(Failing(list)) <= 1
         => hooks'[list] = WithoutFailing(list)]_vars

(* README of the contract, lines 41 to 43: "To stop an invalid hook        *)
(* receiver from locking the proposal module receivers will be removed     *)
(* from the hook list if they error when handling a hook."  So receivers   *)
(* that error never keep a handler from coming through.                    *)
InvalidReceiversDoNotLock ==
  \A list \in {"proposal", "vote"} :
    Dispatch(hooks, SubMsgs(hooks[list], list), broken) # Panicked

(* Every proposal is settled, by execution or by closing, if from some     *)
(* time on nothing of this stands in the way: the blocks end before it     *)
(* expires; more was voted than its total power, so that the tally may     *)
(* panic; two receivers that are told of it error, or one does while the   *)
(* message of the proposal takes a receiver off their list, so that the    *)
(* replies may remove what is not there (contract.rs:795); the DAO does    *)
(* not accept the message; or nobody may execute it.                       *)
HooksMayLock(p) ==
  \/ Cardinality(Failing("proposal")) >= 2
  \/ Failing("proposal") # {} /\ p.msgs.call = "remove_proposal_hook"

Refused(p) ==
  \/ Called(Admin, p.msgs) = {}
  \/ config.only_members_execute /\ \A a \in Address : answer.power[a] = 0

Obstructed(id) ==
  /\ id \in Ids
  /\ LET p == proposals[id]
     IN  \/ height = MaxHeight /\ ~Expired(p.expiration, height)
         \/ ~Within(p)
         \/ HooksMayLock(p)
         \/ CurrentStatus(p, height) = "passed" /\ Refused(p)

EverySettled ==
  \A id \in 1 .. MaxProposals :
    <>[]~Obstructed(id) =>
      (id \in Ids ~> (id \in Ids /\ proposals[id].status \in {"executed", "closed"}))
=============================================================================
