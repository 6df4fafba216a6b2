----------------------------- MODULE MCVesting -----------------------------
(* A small instance of Vesting for TLC.                                    *)
EXTENDS Vesting

CONSTANTS alice, bob

MCAddress == {alice, bob}

\* A linear grant, whose product overflows one step before it ends, and one
\* that vests at once and prevests more than it will ever vest.
MCTerms ==
  {[vesting_amount |-> 4, prevesting_amount |-> 1,
    start_time |-> 0, end_time |-> 3],
   [vesting_amount |-> 3, prevesting_amount |-> 5,
    start_time |-> 2, end_time |-> 2]}
=============================================================================
