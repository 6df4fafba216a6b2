--------------------------- MODULE MCVotingPower ---------------------------
(* A small instance of VotingPower for TLC.                                *)
EXTENDS VotingPower, TLC

CONSTANTS alice, bob, dao

MCAddress == {alice, bob}

MCStakes == {(alice :> 0) @@ (bob :> 0), (alice :> 1) @@ (bob :> 0)}

\* A grant that vests over two blocks after it has prevested for one, and
\* one that is vested at once.
MCTerms ==
  {[vesting_amount |-> 3, prevesting_amount |-> 1,
    start_time |-> 1, end_time |-> 3],
   [vesting_amount |-> 2, prevesting_amount |-> 0,
    start_time |-> 1, end_time |-> 1]}

\* A quarter of the supply is no whole number of tokens.
MCActiveThresholds ==
  {NoThreshold,
   [kind |-> "Percentage", percent |-> 1],
   [kind |-> "Percentage", percent |-> 5]}
=============================================================================
