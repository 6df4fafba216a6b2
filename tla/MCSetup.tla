------------------------------ MODULE MCSetup ------------------------------
(* A small instance of Setup for TLC: two tokens, each with a staking and  *)
(* a vesting contract, and three addresses for what is made.               *)
EXTENDS Setup, TLC

CONSTANTS t1, t2, s1, s2, v1, v2, c1, c2, c3, daoAddr, alice

MCContract == {t1, t2, s1, s2, v1, v2, c1, c2, c3}

MCTokens == (t1 :> 2) @@ (t2 :> 3)
MCStakings ==
  (s1 :> [token |-> t1, owner |-> alice, duration |-> Nobody])
    @@ (s2 :> [token |-> t2, owner |-> daoAddr, duration |-> 1])
MCVestings ==
  (v1 :> [token |-> t1, owner |-> alice])
    @@ (v2 :> [token |-> t2, owner |-> daoAddr])

MCDuration == {Nobody, 1}
MCOwner == {Nobody, alice}

MCTokenInfo ==
  [kind : {"Existing"}, address : {t1, c1},
   staking : [kind : {"Existing"}, address : {s1, s2, t1}]
               \cup [kind : {"New"}, duration : MCDuration],
   vesting : [kind : {"Existing"}, address : {v1, v2, t1}]
               \cup [kind : {"New"}, owner : MCOwner]]
    \cup [kind : {"New"}, initial_balances : {0, 2}, initial_dao_balance : {0, 1},
          duration : MCDuration, owner : MCOwner]

\* A percentage of nothing, one, the whole and more; a count that either
\* token has, one that takes the balance of the DAO, and one beyond both.
MCActiveThreshold ==
  {NoThreshold}
    \cup [kind : {"Percentage"}, percent : {0, 1, 4, 5}]
    \cup [kind : {"AbsoluteCount"}, count : {2, 3, 4}]

MCMessages == [token_info : MCTokenInfo, active_threshold : MCActiveThreshold]
=============================================================================
