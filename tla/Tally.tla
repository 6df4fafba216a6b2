------------------------------- MODULE Tally -------------------------------
(***************************************************************************)
(* The pure part of klmd-custom-proposal (proposal.rs): how the status of  *)
(* a proposal follows from its threshold, its votes and the time.          *)
(*                                                                         *)
(* Times are block heights.  A proposal without a minimum voting period    *)
(* has 0 there, a time that has always passed.  Votes are Uint128s whose   *)
(* sums and differences panic when they are none: the operators named      *)
(* ...Defined say when the code gets through them.  Nothing here bounds    *)
(* the votes by the total power, which another contract answers.           *)
(***************************************************************************)
EXTENDS Integers

CONSTANTS
  One,          \* Decimal::one().atomics(): what 100% is written as
  Precision,    \* PRECISION_FACTOR of the voting crate
  MaxUint       \* the largest Uint128

ASSUME TallyAssumption ==
  One \in Nat \ {0} /\ Precision \in Nat \ {0} /\ MaxUint \in Nat

Uint128 == 0 .. MaxUint

\* PercentageThreshold of the voting crate.
Majority == [majority |-> TRUE, atomics |-> 0]
Percent(n) == [majority |-> FALSE, atomics |-> n]
PercentageThreshold == {Majority} \cup {Percent(n) : n \in 0 .. One}

\* Threshold of the voting crate, as Threshold::validate leaves it: only the
\* quorum may be zero.
Required == PercentageThreshold \ {Percent(0)}
Threshold ==
  [kind : {"AbsolutePercentage"}, percentage : Required]
    \cup [kind : {"ThresholdQuorum"},
          threshold : Required, quorum : PercentageThreshold]
    \cup [kind : {"AbsoluteCount"}, threshold : Nat \ {0}]

Vote == {"yes", "no", "abstain"}
Votes == [Vote -> Uint128]
NoVotes == [v \in Vote |-> 0]
Cast(votes) == votes["yes"] + votes["no"] + votes["abstain"]

Status == {"open", "passed", "rejected", "executed", "closed"}

\* What the tally reads of a Proposal.
Tallied ==
  [threshold : Threshold, votes : Votes, total_power : Uint128,
   status : Status, allow_revoting : BOOLEAN,
   min_voting_period : Nat, expiration : Nat]

\* Expiration::is_expired.
Expired(time, now) == time <= now

-----------------------------------------------------------------------------
(* Mutants: plausible slips, used only to show that a property notices.    *)

\* an exact half is a majority
CountPassesAtHalf(yes, options, pct) ==
  /\ options > 0
  /\ IF pct.majority THEN 2 * yes >= options
     ELSE yes * Precision >= (options * Precision * pct.atomics) \div One

\* exactly the inverse share of no votes rejects
CountFailsAtShare(no, options, pct) ==
  \/ options = 0
  \/ IF pct.majority THEN 2 * no >= options
     ELSE no * Precision >= (options * Precision * (One - pct.atomics)) \div One

-----------------------------------------------------------------------------
\* does_vote_count_pass, with compare_vote_count(Geq) of the voting crate.
CountPasses(yes, options, pct) ==
  /\ options > 0
  /\ IF pct.majority THEN 2 * yes > options
     ELSE yes * Precision >= (options * Precision * pct.atomics) \div One

\* does_vote_count_fail, with compare_vote_count(Greater).
CountFails(no, options, pct) ==
  \/ options = 0
  \/ IF pct.majority THEN 2 * no >= options
     ELSE no * Precision > (options * Precision * (One - pct.atomics)) \div One

\* The voting power that has not abstained.
Options(p) == p.total_power - p.votes["abstain"]

\* The options as of now: once a quorum vote is over, the votes cast.
OptionsAt(p, now) ==
  IF p.threshold.kind = "ThresholdQuorum" /\ Expired(p.expiration, now)
  THEN p.votes["yes"] + p.votes["no"]
  ELSE Options(p)

QuorumMet(p) == CountPasses(Cast(p.votes), p.total_power, p.threshold.quorum)

\* Nothing is known of a vote that can still be changed.
Unsettled(p, now) == p.allow_revoting /\ ~Expired(p.expiration, now)

\* Proposal::is_passed.
IsPassed(p, now) ==
  /\ ~Unsettled(p, now)
  /\ Expired(p.min_voting_period, now)
  /\ LET yes == p.votes["yes"]
         th  == p.threshold
     IN  CASE th.kind = "AbsolutePercentage" ->
                CountPasses(yes, OptionsAt(p, now), th.percentage)
           [] th.kind = "ThresholdQuorum" ->
                /\ QuorumMet(p)
                /\ CountPasses(yes, OptionsAt(p, now), th.threshold)
           [] th.kind = "AbsoluteCount" -> yes >= th.threshold

\* The share of no votes that makes the threshold unreachable; under a 100%
\* threshold a single one does.
TooManyNo(no, options, pct) ==
  IF pct = Percent(One)
  THEN options = 0 \/ no >= 1
  ELSE CountFails(no, options, pct)

\* Proposal::is_rejected.
IsRejected(p, now) ==
  /\ ~Unsettled(p, now)
  /\ LET no == p.votes["no"]
         th == p.threshold
     IN  CASE th.kind = "AbsolutePercentage" ->
                TooManyNo(no, OptionsAt(p, now), th.percentage)
           [] th.kind = "ThresholdQuorum" ->
                \/ ~QuorumMet(p) /\ Expired(p.expiration, now)
                \/ TooManyNo(no, OptionsAt(p, now), th.threshold)
           [] th.kind = "AbsoluteCount" ->
                p.votes["yes"] + (p.total_power - Cast(p.votes)) < th.threshold

\* Mutant of CurrentStatus: the rejections are looked at first
CurrentStatusRejectedFirst(p, now) ==
  IF p.status = "open" /\ (Expired(p.expiration, now) \/ IsRejected(p, now))
  THEN "rejected"
  ELSE IF p.status = "open" /\ IsPassed(p, now) THEN "passed"
  ELSE p.status

\* Mutant of CurrentStatus: the end of the voting period decides nothing.
CurrentStatusWithoutEnd(p, now) ==
  IF p.status = "open" /\ IsPassed(p, now) THEN "passed"
  ELSE IF p.status = "open" /\ IsRejected(p, now) THEN "rejected"
  ELSE p.status

\* Proposal::current_status.
CurrentStatus(p, now) ==
  IF p.status = "open" /\ IsPassed(p, now) THEN "passed"
  ELSE IF p.status = "open" /\ (Expired(p.expiration, now) \/ IsRejected(p, now))
  THEN "rejected"
  ELSE p.status

\* Nothing that is_passed computes overflows or underflows.
PassedDefined(p, now) ==
  \/ Unsettled(p, now)
  \/ ~Expired(p.min_voting_period, now)
  \/ CASE p.threshold.kind = "AbsolutePercentage" -> OptionsAt(p, now) >= 0
       [] p.threshold.kind = "ThresholdQuorum" ->
            Cast(p.votes) <= MaxUint /\ (QuorumMet(p) => OptionsAt(p, now) >= 0)
       [] p.threshold.kind = "AbsoluteCount" -> TRUE

\* Nothing that is_rejected computes before the end overflows or underflows.
RejectedDefined(p, now) ==
  \/ Unsettled(p, now)
  \/ CASE p.threshold.kind = "AbsolutePercentage" -> Options(p) >= 0
       [] p.threshold.kind = "ThresholdQuorum" ->
            Cast(p.votes) <= MaxUint /\ Options(p) >= 0
       [] p.threshold.kind = "AbsoluteCount" -> Cast(p.votes) <= p.total_power

\* current_status and update_status return at all: is_rejected is looked at
\* only when the proposal is open, has not passed and has not expired.
StatusDefined(p, now) ==
  p.status = "open" =>
    /\ PassedDefined(p, now)
    /\ IsPassed(p, now) \/ Expired(p.expiration, now) \/ RejectedDefined(p, now)

-----------------------------------------------------------------------------
(* The reference: what the threshold of a proposal asks of the final vote, *)
(* and what can still come of the votes cast so far.                       *)

\* The share is reached, in fractions.
Share(yes, options, pct) ==
  /\ options > 0
  /\ IF pct.majority THEN 2 * yes > options
     ELSE yes * One >= options * pct.atomics

\* The proposal is accepted when v is the final vote.
Accepted(p, v) ==
  LET th == p.threshold
  IN  CASE th.kind = "AbsolutePercentage" ->
             Share(v["yes"], p.total_power - v["abstain"], th.percentage)
        [] th.kind = "ThresholdQuorum" ->
             /\ Share(Cast(v), p.total_power, th.quorum)
             /\ Share(v["yes"], v["yes"] + v["no"], th.threshold)
        [] th.kind = "AbsoluteCount" -> v["yes"] >= th.threshold

\* The rounding makes up for less than one Precision-th of a vote.
NearShare(yes, options, pct) ==
  IF pct.majority THEN 2 * yes > options
  ELSE (yes * Precision + 1) * One > options * Precision * pct.atomics

\* Accepted, but for the rounding.
NearlyAccepted(p, v) ==
  LET th == p.threshold
  IN  CASE th.kind = "AbsolutePercentage" ->
             NearShare(v["yes"], p.total_power - v["abstain"], th.percentage)
        [] th.kind = "ThresholdQuorum" ->
             /\ NearShare(Cast(v), p.total_power, th.quorum)
             /\ NearShare(v["yes"], v["yes"] + v["no"], th.threshold)
        [] th.kind = "AbsoluteCount" -> v["yes"] >= th.threshold

\* No more is voted than there is.
Within(p) == Cast(p.votes) <= p.total_power

\* What the votes may still become when voters only add to them.
Grown(v, w) == \A o \in Vote : v[o] <= w[o]
Futures(p) ==
  {v \in [Vote -> 0 .. p.total_power] :
     Grown(p.votes, v) /\ Cast(v) <= p.total_power}

SureToPass(p) == \A v \in Futures(p) : Accepted(p, v)
SureToFail(p) == \A v \in Futures(p) : ~Accepted(p, v)

\* The percentages that compare_vote_count compares without rounding: those
\* with no more decimals than Precision has digits.
Exact(pct) == (Precision * pct.atomics) % One = 0
ExactThreshold(th) ==
  CASE th.kind = "AbsolutePercentage" -> Exact(th.percentage)
    [] th.kind = "ThresholdQuorum" -> Exact(th.threshold) /\ Exact(th.quorum)
    [] th.kind = "AbsoluteCount" -> TRUE
=============================================================================
