------------------------ MODULE MCProposalLifecycle ------------------------
(* Every threshold over a few total powers and voting periods, for TLC.    *)
EXTENDS ProposalLifecycle

CONSTANT MaxPower   \* bound: the total power

\* Two percentages that the precision cannot express, and three that it can.
MCPercentages ==
  {Majority, Percent(1), Percent(One \div 4 + 1),
   Percent(One \div 4), Percent(One \div 2), Percent(One)}

MCThresholds ==
  [kind : {"AbsolutePercentage"}, percentage : MCPercentages]
    \cup [kind : {"ThresholdQuorum"}, threshold : MCPercentages,
          quorum : {Majority, Percent(0), Percent(One)}]
    \cup [kind : {"AbsoluteCount"}, threshold : 1 .. MaxPower + 1]

MCOpenings ==
  [threshold : MCThresholds, votes : {NoVotes}, total_power : 0 .. MaxPower,
   status : Status, allow_revoting : BOOLEAN,
   min_voting_period : 0 .. 1, expiration : 0 .. MaxTime]
=============================================================================
