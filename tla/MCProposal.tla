----------------------------- MODULE MCProposal -----------------------------
(* Small instances of Proposal for TLC.                                    *)
EXTENDS Proposal

CONSTANTS alice, bob, dao, gov, staking, vesting

MCAddress == {alice, bob}

MCDao == {dao}
MCRank == (alice :> 1) @@ (bob :> 2)
MCToken == {gov}

Deposit(token, amount, refund) ==
  [token |-> token, deposit |-> amount, refund_failed_proposals |-> refund]

\* A quorum that one voter meets alone, a minimum voting period, no revoting.
Quorum ==
  [threshold |-> [kind |-> "ThresholdQuorum", threshold |-> Majority,
                  quorum |-> Percent(1)],
   max_voting_period |-> 2, min_voting_period |-> 1,
   only_members_execute |-> TRUE, allow_revoting |-> FALSE, dao |-> dao,
   deposit_info |-> Deposit(gov, 2, FALSE)]

\* Revoting, half of all that do not abstain, a deposit that comes back.
Revote ==
  [threshold |-> [kind |-> "AbsolutePercentage", percentage |-> Percent(2)],
   max_voting_period |-> 1, min_voting_period |-> 0,
   only_members_execute |-> FALSE, allow_revoting |-> TRUE, dao |-> dao,
   deposit_info |-> Deposit(VotingModuleToken, 1, TRUE)]

\* A fixed count; the proposal expires in the block after its own.
Count ==
  [threshold |-> [kind |-> "AbsoluteCount", threshold |-> 2],
   max_voting_period |-> 1, min_voting_period |-> 0,
   only_members_execute |-> FALSE, allow_revoting |-> FALSE, dao |-> dao,
   deposit_info |-> Deposit(gov, 0, TRUE)]

\* The minimum voting period is longer than the maximum: never accepted.
Invalid == [Count EXCEPT !.min_voting_period = 2]

\* The deposit is asked for in what is no token: never accepted either.
NoTokenAsked == [Count EXCEPT !.deposit_info.token = alice]

\* Bob may propose; in the hooks run Alice.
MCPreAllowed == {{bob}}
HookPreAllowed == {{alice}}

MCConfigs == {Quorum, Revote, Count, Invalid, NoTokenAsked}

\* What the voting module answers: Bob may hold all the power, the total may
\* be less than that, and the DAO may be inactive.
Says(of_alice, of_bob, total, active) ==
  [power |-> (alice :> of_alice) @@ (bob :> of_bob), total |-> total, active |-> active]
MCAnswers == {Says(1, 2, 3, TRUE), Says(0, 3, 2, TRUE), Says(0, 3, 3, FALSE)}

\* Votes: a change of configuration may be asked of the DAO and refused.
VoteMessages == {NoMessage, [call |-> "update_config", config |-> Invalid],
                 [call |-> "update_config", config |-> Revote]}

\* Hooks: bob alone decides, also on who hears of it and who may propose.
HookAnswers == {Says(1, 2, 3, TRUE)}
HookConfigs == {Count}
HookReceiver == {staking, vesting}
HookMessages ==
  {NoMessage,
   [call |-> "add_proposal_hook", receiver |-> staking],
   [call |-> "remove_proposal_hook", receiver |-> staking],
   [call |-> "add_proposal_hook", receiver |-> vesting],
   [call |-> "add_vote_hook", receiver |-> vesting],
   [call |-> "remove_vote_hook", receiver |-> vesting],
   [call |-> "disallow", address |-> alice],
   [call |-> "allow", address |-> bob]}
=============================================================================
