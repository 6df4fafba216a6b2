------------------------------- MODULE MCCw20 -------------------------------
(* Small instances of Cw20 for TLC.                                        *)
EXTENDS Cw20, Paging

CONSTANTS alice, bob, staking, nobody

MCAddress == {alice, bob, staking}
MCContract == {staking}

Row(a, n) == [address |-> a, amount |-> n]

\* One row per address; the second adds up to more than a Uint128.
MCInitialBalances ==
  {<<Row(alice, 2), Row(bob, 1)>>, <<Row(alice, 2), Row(bob, 2)>>}

\* Two rows for the same address.
RepeatedBalances == {<<Row(alice, 2), Row(alice, 1)>>}

\* All accounts and all allowances are listed by pages: every key that was
\* there all the time is shown exactly once, wherever the pages are cut and
\* whatever the map becomes between two of them, in either order.
ASSUME PagesListEachOnce ==
  \A keys, later \in SUBSET (1 .. 4), limit \in 1 .. 3 :
    \A pages \in ReadingsUp(keys, later, limit, 4)
                   \cup ReadingsDown(keys, later, limit, 5) :
      EachOnce(keys \cap later, pages)

\* A link, a good picture, one that is too big and one of another type.
MCLogos ==
  {[format |-> "url", data |-> "other", size |-> 9],
   [format |-> "png", data |-> "png", size |-> 5],
   [format |-> "svg", data |-> "xml", size |-> 6],
   [format |-> "svg", data |-> "png", size |-> 5]}

MCExpirations == {1, Never}
=============================================================================
