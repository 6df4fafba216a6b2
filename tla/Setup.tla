------------------------------- MODULE Setup -------------------------------
(***************************************************************************)
(* How klmd-dao-vesting-voting-power is instantiated: one transaction in   *)
(* which the module stores what it is told, has the contracts it lacks     *)
(* instantiated by submessages and stores their addresses when it gets the *)
(* replies.  An error anywhere rolls everything back, and the DAO may try  *)
(* again.  The module runs a submessage, what it caused and its reply      *)
(* before the next submessage, as the chain does.                          *)
(***************************************************************************)
EXTENDS ActivityThreshold, StorageMap, Sequences

CONSTANTS
  Contract,   \* the addresses of contracts
  Senders,    \* who instantiates the module: the DAO
  Messages,   \* the messages that are tried
  Unit,       \* Decimal::one().atomics()
  Tokens, Stakings, Vestings,   \* external: the chain before the first try
  Nobody      \* no address: None

\* StakingInfo, VestingInfo and TokenInfo; the names, code ids and balances
\* of a new token are left out but for the sum of the balances, and an
\* initial_dao_balance of None is one of 0, which the code treats alike.
Duration == Nat \cup {Nobody}
StakingInfo ==
  [kind : {"Existing"}, address : Contract]
    \cup [kind : {"New"}, duration : Duration]
VestingInfo ==
  [kind : {"Existing"}, address : Contract]
    \cup [kind : {"New"}, owner : Senders \cup {Nobody}]
TokenInfo ==
  [kind : {"Existing"}, address : Contract,
   staking : StakingInfo, vesting : VestingInfo]
    \cup [kind : {"New"}, initial_balances : Nat, initial_dao_balance : Nat,
          duration : Duration, owner : Senders \cup {Nobody}]
InstantiateMsg == [token_info : TokenInfo, active_threshold : ActiveThreshold]

ASSUME SetupAssumption ==
  /\ Nobody \notin Contract \cup Senders
  /\ Messages \subseteq InstantiateMsg
  /\ Unit \in Nat \ {0}
  /\ DOMAIN Tokens \cup DOMAIN Stakings \cup DOMAIN Vestings \subseteq Contract
  /\ Tokens \in [DOMAIN Tokens -> Nat]

VARIABLES
  phase,      \* of the transaction
  asked,      \* its sender and message
  before,     \* the chain when it began
  tokens, stakings, vestings,   \* external: the contracts of the chain
  store,      \* the storage of the module
  pending,    \* the submessages that are still to run, the next one first
  reply       \* the address in the reply that is due, or Nobody

chain == <<tokens, stakings, vestings>>
suvars == <<phase, asked, before, chain, store, pending, reply>>

EmptyStore ==
  [dao |-> Nobody, active_threshold |-> NoThreshold, token |-> Nobody,
   staking |-> Nobody, vesting |-> Nobody, duration |-> Nobody, owner |-> Nobody]

Taken == DOMAIN tokens \cup DOMAIN stakings \cup DOMAIN vestings

-----------------------------------------------------------------------------
\* The messages that instantiate the contracts the module lacks.
INSTANTIATE_TOKEN_REPLY_ID == 0
INSTANTIATE_STAKING_REPLY_ID == 1
INSTANTIATE_VESTING_REPLY_ID == 2

TokenMsg(supply) == [id |-> INSTANTIATE_TOKEN_REPLY_ID, supply |-> supply]
StakingMsg(token, owner, duration) ==
  [id |-> INSTANTIATE_STAKING_REPLY_ID,
   token |-> token, owner |-> owner, duration |-> duration]
VestingMsg(token, owner) ==
  [id |-> INSTANTIATE_VESTING_REPLY_ID, token |-> token, owner |-> owner]

OwnerOr(owner, dao) == IF owner = Nobody THEN dao ELSE owner

\* Mutant of AcceptsExisting: the vesting contract may be of any token.
AcceptsAnyVesting(info, t) ==
  /\ t.kind = "AbsoluteCount" =>
       info.address \in DOMAIN tokens /\ ValidCount(t, tokens[info.address])
  /\ info.staking.kind = "Existing" =>
       /\ info.staking.address \in DOMAIN stakings
       /\ stakings[info.staking.address].token = info.address

\* The checks on TokenInfo::Existing: the count against the supply, and the
\* token that the existing staking and vesting contracts say they are of.
AcceptsExisting(info, t) ==
  /\ t.kind = "AbsoluteCount" =>
       info.address \in DOMAIN tokens /\ ValidCount(t, tokens[info.address])
  /\ info.staking.kind = "Existing" =>
       /\ info.staking.address \in DOMAIN stakings
       /\ stakings[info.staking.address].token = info.address
  /\ info.vesting.kind = "Existing" =>
       /\ info.vesting.address \in DOMAIN vestings
       /\ vestings[info.vesting.address].token = info.address

\* TokenInfo::Existing: the addresses that are known are stored, and the
\* staking contract comes before the vesting contract.
StoreExisting(dao, info, t) ==
  [EmptyStore EXCEPT
    !.dao = dao, !.active_threshold = t, !.token = info.address,
    !.staking = IF info.staking.kind = "Existing" THEN info.staking.address ELSE Nobody,
    !.vesting = IF info.vesting.kind = "Existing" THEN info.vesting.address ELSE Nobody]

\* Mutant of SubmessagesExisting: a staking contract is always made.
SubmessagesBoth(dao, info) ==
  <<StakingMsg(info.address, dao, Nobody)>>
    \o
  (IF info.vesting.kind = "New"
   THEN <<VestingMsg(info.address, OwnerOr(info.vesting.owner, dao))>> ELSE <<>>)

\* And the contracts that are not there are instantiated.
SubmessagesExisting(dao, info) ==
  (IF info.staking.kind = "New"
   THEN <<StakingMsg(info.address, dao, info.staking.duration)>> ELSE <<>>)
    \o
  (IF info.vesting.kind = "New"
   THEN <<VestingMsg(info.address, OwnerOr(info.vesting.owner, dao))>> ELSE <<>>)

\* Mutant of StoreNew: the DAO owns the vesting contract whoever was named.
StoreNewDaoOwns(dao, info, t) ==
  [EmptyStore EXCEPT
    !.dao = dao, !.active_threshold = t, !.duration = info.duration,
    !.owner = dao]

\* TokenInfo::New: what the reply about the token needs is stored.
StoreNew(dao, info, t) ==
  [EmptyStore EXCEPT
    !.dao = dao, !.active_threshold = t, !.duration = info.duration,
    !.owner = OwnerOr(info.owner, dao)]

\* The balances of the new token, with the one of the DAO.
InitialSupply(info) == info.initial_balances + info.initial_dao_balance

-----------------------------------------------------------------------------
SUInit ==
  /\ phase = "none"
  /\ asked = Nobody
  /\ before = Nobody
  /\ tokens = Tokens /\ stakings = Stakings /\ vestings = Vestings
  /\ store = EmptyStore
  /\ pending = <<>>
  /\ reply = Nobody

\* External: an error undoes every write since the transaction began.
RollBack(outcome) ==
  /\ phase' = outcome
  /\ tokens' = before.tokens
  /\ stakings' = before.stakings
  /\ vestings' = before.vestings
  /\ store' = EmptyStore
  /\ pending' = <<>>
  /\ reply' = Nobody
  /\ UNCHANGED <<asked, before>>

\* instantiate, with all its checks.
Accepts(m) ==
  /\ ValidPercentage(m.active_threshold, Unit)
  /\ m.token_info.kind = "New" => m.token_info.initial_balances # 0
  /\ m.token_info.kind = "Existing" =>
       AcceptsExisting(m.token_info, m.active_threshold)

Instantiate(dao, m) ==
  /\ phase = "none"
  /\ asked' = [dao |-> dao, msg |-> m]
  /\ before' = [tokens |-> tokens, stakings |-> stakings, vestings |-> vestings]
  /\ IF Accepts(m)
     THEN LET info == m.token_info
          IN  /\ phase' = "running"
              /\ store' = IF info.kind = "Existing"
                          THEN StoreExisting(dao, info, m.active_threshold)
                          ELSE StoreNew(dao, info, m.active_threshold)
              /\ pending' = IF info.kind = "Existing"
                            THEN SubmessagesExisting(dao, info)
                            ELSE <<TokenMsg(InitialSupply(info))>>
     ELSE /\ phase' = "refused"
          /\ UNCHANGED <<store, pending>>
  /\ UNCHANGED <<chain, reply>>

\* External: the next submessage makes a contract at a fresh address.
RunSubmessage(c) ==
  /\ phase = "running" /\ pending # <<>> /\ reply = Nobody
  /\ c \notin Taken
  /\ LET sub == Head(pending)
     IN  \/ /\ sub.id = INSTANTIATE_TOKEN_REPLY_ID
            /\ tokens' = Put(tokens, c, sub.supply)
            /\ UNCHANGED <<stakings, vestings>>
         \/ /\ sub.id = INSTANTIATE_STAKING_REPLY_ID
            /\ stakings' = Put(stakings, c,
                 [token |-> sub.token, owner |-> sub.owner, duration |-> sub.duration])
            /\ UNCHANGED <<tokens, vestings>>
         \/ /\ sub.id = INSTANTIATE_VESTING_REPLY_ID
            /\ vestings' = Put(vestings, c, [token |-> sub.token, owner |-> sub.owner])
            /\ UNCHANGED <<tokens, stakings>>
  /\ reply' = c
  /\ UNCHANGED <<phase, asked, before, store, pending>>

\* The reply to the next submessage is due and is the one with this id.
ReplyDue(id) == phase = "running" /\ reply # Nobody /\ Head(pending).id = id

\* The replied submessage is done, and those of the reply run next.
Answered(submessages) ==
  /\ pending' = submessages \o Tail(pending)
  /\ reply' = Nobody
  /\ UNCHANGED <<phase, asked, before, chain>>

\* Mutant of ReplyToken: the count is not checked once the token is known.
ReplyTokenUnchecked ==
  /\ ReplyDue(INSTANTIATE_TOKEN_REPLY_ID)
  /\ store' = [store EXCEPT !.token = reply]
  /\ Answered(<<StakingMsg(reply, store.dao, store.duration),
                VestingMsg(reply, OwnerOr(store.owner, store.dao))>>)

\* reply, INSTANTIATE_TOKEN_REPLY_ID.
ReplyToken ==
  /\ ReplyDue(INSTANTIATE_TOKEN_REPLY_ID)
  /\ IF store.token = Nobody /\ ValidCount(store.active_threshold, tokens[reply])
     THEN /\ store' = [store EXCEPT !.token = reply]
          /\ Answered(<<StakingMsg(reply, store.dao, store.duration),
                        VestingMsg(reply, OwnerOr(store.owner, store.dao))>>)
     ELSE RollBack("refused")

\* reply, INSTANTIATE_STAKING_REPLY_ID.
ReplyStaking ==
  /\ ReplyDue(INSTANTIATE_STAKING_REPLY_ID)
  /\ IF store.staking = Nobody
     THEN store' = [store EXCEPT !.staking = reply] /\ Answered(<<>>)
     ELSE RollBack("refused")

\* reply, INSTANTIATE_VESTING_REPLY_ID.
ReplyVesting ==
  /\ ReplyDue(INSTANTIATE_VESTING_REPLY_ID)
  /\ IF store.vesting = Nobody
     THEN store' = [store EXCEPT !.vesting = reply] /\ Answered(<<>>)
     ELSE RollBack("refused")

\* External: a submessage fails, or the gas runs out.
Fail == phase = "running" /\ RollBack("failed")

\* External: the DAO learns of the error, and may try again.
ReportError ==
  /\ phase \in {"refused", "failed"}
  /\ phase' = "none"
  /\ asked' = Nobody
  /\ before' = Nobody
  /\ UNCHANGED <<chain, store, pending, reply>>

\* External: nothing is left to run, and the writes are kept.
Commit ==
  /\ phase = "running" /\ pending = <<>>
  /\ phase' = "installed"
  /\ UNCHANGED <<asked, before, chain, store, pending, reply>>

SUNext ==
  \/ \E dao \in Senders, m \in Messages : Instantiate(dao, m)
  \/ \E c \in Contract : RunSubmessage(c)
  \/ ReplyToken \/ ReplyStaking \/ ReplyVesting
  \/ Fail \/ ReportError \/ Commit

SUSpec == SUInit /\ [][SUNext]_suvars
-----------------------------------------------------------------------------
SUTypeOK ==
  /\ phase \in {"none", "running", "refused", "failed", "installed"}
  /\ tokens \in [DOMAIN tokens -> Nat]
  /\ Taken \subseteq Contract
  /\ store.active_threshold \in ActiveThreshold
  /\ {store.token, store.staking, store.vesting, reply} \subseteq Contract \cup {Nobody}

(* A module that came to be has its three contracts, and the staking and   *)
(* the vesting contract, whose amounts the powers add up, are of its token *)
(* whichever of them existed (contract.rs:72, 109, 476, 543, 564).         *)
ContractsAgree ==
  phase = "installed" =>
    /\ store.token # Nobody
    /\ store.staking \in DOMAIN stakings /\ store.vesting \in DOMAIN vestings
    /\ stakings[store.staking].token = store.token
    /\ vestings[store.vesting].token = store.token

(* The count that makes the DAO active can be reached: it is checked       *)
(* against the supply of the token, before it is linked or, if it is new,  *)
(* in the reply that tells its address (contract.rs:54, 478).              *)
ThresholdReachable ==
  (phase = "installed" /\ store.active_threshold.kind = "AbsoluteCount") =>
    /\ store.token \in DOMAIN tokens
    /\ store.active_threshold.count <= tokens[store.token]

\* What the module links, as the abstract set-up says it.
Links ==
  [dao |-> store.dao, active_threshold |-> store.active_threshold,
   token |-> store.token, staking |-> store.staking, vesting |-> store.vesting]

AS == INSTANCE AtomicSetup WITH
  installed <- IF phase = "installed" THEN Links ELSE Nobody,
  tokens    <- IF phase = "running" THEN before.tokens ELSE tokens,
  stakings  <- IF phase = "running" THEN before.stakings ELSE stakings,
  vestings  <- IF phase = "running" THEN before.vestings ELSE vestings

(* The whole transaction, with its submessages and replies, does in one    *)
(* step what the message asks for, with its owners, unstaking duration and *)
(* initial supply, or leaves nothing behind (contract.rs:29, 465).         *)
SetupIsAtomic == AS!ASSpec

(* The module refuses only what a single check of the message could have   *)
(* refused: no reply meets an address that is already stored, whichever    *)
(* contracts exist and however often the DAO tried (contract.rs:472, 538). *)
RefusedForReason == phase = "refused" => ~AS!Acceptable(asked.msg)
=============================================================================
