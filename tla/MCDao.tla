------------------------------- MODULE MCDao -------------------------------
(* A small instance of Dao for TLC.                                        *)
EXTENDS Dao, TLC

CONSTANTS alice, bob, dao, gov, vesting

MCAddress == {alice, bob}
MCPreAllowed == {{bob}}
MCRank == (alice :> 1) @@ (bob :> 2)
MCToken == {gov}
MCStakes == {(alice :> 0) @@ (bob :> 1)}
MCActiveThresholds == {NoThreshold}

\* A grant that has prevested by the third block, and whose product overflows
\* in the block between.
MCTerms ==
  {[vesting_amount |-> 3, prevesting_amount |-> 0,
    start_time |-> 3, end_time |-> 3]}

\* More than half of those who do not abstain, in this block or the next.
Majority == [majority |-> TRUE, atomics |-> 0]
MCConfigs ==
  {[threshold |-> [kind |-> "AbsolutePercentage", percentage |-> Majority],
    max_voting_period |-> 2, min_voting_period |-> 0,
    only_members_execute |-> TRUE, allow_revoting |-> FALSE, dao |-> dao,
    deposit_info |-> [token |-> gov, deposit |-> 0, refund_failed_proposals |-> TRUE]]}

\* Proposals, and the DAO itself, make the vesting contract a receiver.
MCMessages == {[call |-> "add_proposal_hook", receiver |-> vesting]}
=============================================================================
