---------------------------- MODULE AtomicSetup ----------------------------
(***************************************************************************)
(* What the instantiation of the voting module promises, said without      *)
(* submessages and replies: nothing is left of an attempt that fails, and  *)
(* one that succeeds makes, at once, the contracts that were asked for and *)
(* links a token to a staking and a vesting contract of that same token.   *)
(***************************************************************************)
EXTENDS ActivityThreshold, StorageMap

CONSTANTS
  Contract,   \* the addresses of contracts
  Senders,    \* who instantiates the module: the DAO
  Messages,   \* the messages that are tried
  Unit,       \* Decimal::one().atomics()
  Nobody

VARIABLES
  asked,      \* the sender and the message of the attempt, or Nobody
  installed,  \* what the module links once it is there, or Nobody
  tokens,     \* the supply of each token of the chain
  stakings,   \* token, owner and unstaking duration of each staking contract
  vestings    \* token and owner of each vesting contract

asvars == <<asked, installed, tokens, stakings, vestings>>

\* The addresses that are taken.
Taken == DOMAIN tokens \cup DOMAIN stakings \cup DOMAIN vestings

\* Existing contracts may be linked if they are about the token.
OfToken(links, at, token) == at \in DOMAIN links /\ links[at].token = token

Acceptable(m) ==
  LET info == m.token_info
      t == m.active_threshold
  IN  /\ ValidPercentage(t, Unit)
      /\ info.kind = "New" =>
           /\ info.initial_balances > 0
           /\ ValidCount(t, info.initial_balances + info.initial_dao_balance)
      /\ info.kind = "Existing" =>
           /\ t.kind = "AbsoluteCount" =>
                /\ info.address \in DOMAIN tokens
                /\ ValidCount(t, tokens[info.address])
           /\ info.staking.kind = "Existing" =>
                OfToken(stakings, info.staking.address, info.address)
           /\ info.vesting.kind = "Existing" =>
                OfToken(vestings, info.vesting.address, info.address)

\* Someone asks for the module.
Request == [dao : Senders, msg : Messages]

\* The DAO tries a message, or is told that the last one failed.
Ask ==
  /\ installed = Nobody
  /\ asked' \in Request \cup {Nobody}
  /\ UNCHANGED <<installed, tokens, stakings, vestings>>

\* The message makes what it asks for and links a token, a staking and a
\* vesting contract.
Install ==
  LET info == asked.msg.token_info
      dao == asked.dao
      new == installed'
      newToken == info.kind = "New"
      newStaking == newToken \/ info.staking.kind = "New"
      newVesting == newToken \/ info.vesting.kind = "New"
      duration == IF newToken THEN info.duration ELSE info.staking.duration
      owner == IF newToken THEN info.owner ELSE info.vesting.owner
  IN  /\ installed = Nobody
      /\ asked \in Request
      /\ Acceptable(asked.msg)
      /\ installed' \in [dao : {dao}, active_threshold : {asked.msg.active_threshold},
                         token : Contract, staking : Contract, vesting : Contract]
      /\ IF newToken THEN new.token \notin Taken ELSE new.token = info.address
      /\ IF newStaking THEN new.staking \notin Taken ELSE new.staking = info.staking.address
      /\ IF newVesting THEN new.vesting \notin Taken ELSE new.vesting = info.vesting.address
      /\ newToken => new.token \notin {new.staking, new.vesting}
      /\ newStaking /\ newVesting => new.staking # new.vesting
      /\ tokens' =
           IF newToken
           THEN Put(tokens, new.token, info.initial_balances + info.initial_dao_balance)
           ELSE tokens
      /\ stakings' =
           IF newStaking
           THEN Put(stakings, new.staking,
                    [token |-> new.token, owner |-> dao, duration |-> duration])
           ELSE stakings
      /\ vestings' =
           IF newVesting
           THEN Put(vestings, new.vesting,
                    [token |-> new.token,
                     owner |-> IF owner = Nobody THEN dao ELSE owner])
           ELSE vestings
      /\ UNCHANGED asked

ASSpec == asked = Nobody /\ installed = Nobody /\ [][Ask \/ Install]_asvars
=============================================================================
