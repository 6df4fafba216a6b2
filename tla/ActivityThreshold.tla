------------------------- MODULE ActivityThreshold -------------------------
(* ActiveThreshold of klmd-dao-vesting-voting-power and the checks that    *)
(* instantiate, UpdateActiveThreshold and the reply about the token make.  *)
EXTENDS Integers

NoThreshold == [kind |-> "none"]
ActiveThreshold ==
  {NoThreshold}
    \cup [kind : {"AbsoluteCount"}, count : Nat]
    \cup [kind : {"Percentage"}, percent : Nat]

\* A percentage is above zero and at most one, in atomics of unit.
ValidPercentage(t, unit) ==
  t.kind = "Percentage" => 0 < t.percent /\ t.percent <= unit

\* assert_valid_absolute_count_threshold: a count is at most the supply.
ValidCount(t, supply) == t.kind = "AbsoluteCount" => t.count <= supply
=============================================================================
