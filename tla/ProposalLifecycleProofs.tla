---------------------- MODULE ProposalLifecycleProofs ----------------------
(***************************************************************************)
(* For every set of openings, any total power and any voting period: as    *)
(* long as no more is voted than the total power, a decision is the one    *)
(* that the threshold takes of the votes, up to what rounding forgives the *)
(* yes votes; and where nothing is rounded, it is taken as soon as no      *)
(* further votes can change it, and it is final.                           *)
(*                                                                         *)
(* The argument compares the status that the code computes with Accepted,  *)
(* the reference of Tally.  A proposal that passes is accepted, at any     *)
(* time, if its percentages are exact, and nearly so if not; one that is   *)
(* accepted when it expires passes; one that is rejected before it expires *)
(* is not accepted.  So the status at expiry agrees with every earlier     *)
(* decision.  That decisions are not taken too late is shown by the worst  *)
(* that can still come: everybody who has not voted votes no, or yes.      *)
(*                                                                         *)
(* The lemmas about Tally that this rests on come first: the comparisons   *)
(* of proposal.rs, which scale and truncate, against the fractions that a  *)
(* threshold asks for.  Rounding only helps the yes votes, and by less     *)
(* than one Precision-th of a vote; percentages that are Exact, those that *)
(* the precision can express, are not rounded.                             *)
(***************************************************************************)
EXTENDS ProposalLifecycle, TLAPS

-----------------------------------------------------------------------------
(* Arithmetic.                                                             *)

LEMMA MulNat ==
  ASSUME NEW a \in Nat, NEW b \in Nat
  PROVE  a * b \in Nat
BY SMT

LEMMA MulOrder ==
  ASSUME NEW a \in Int, NEW b \in Int, NEW d \in Nat \ {0}
  PROVE  a * d >= b * d <=> a >= b
BY SMT

LEMMA MulMono ==
  ASSUME NEW a \in Nat, NEW b \in Nat, NEW c \in Nat, a <= b
  PROVE  a * c <= b * c
BY SMT

(* What the quotient of a truncating division is.                          *)
LEMMA DivBounds ==
  ASSUME NEW x \in Nat, NEW d \in Nat \ {0}
  PROVE  x \div d \in Nat /\ (x \div d) * d <= x /\ x < (x \div d + 1) * d
<1> DEFINE q == x \div d
<1>1. q \in Nat /\ q * d <= x /\ x < q * d + d
    BY SMT
<1> HIDE DEF q
<1>2. q * d + d = (q + 1) * d
    BY <1>1, SMT
<1>3. q \in Nat /\ q * d <= x /\ x < (q + 1) * d
    BY <1>1, <1>2
<1> QED
    BY <1>3 DEF q

-----------------------------------------------------------------------------
(* Percentages.                                                            *)

(* No rounding stands between the code and the no votes: the amount wanted *)
(* is rounded down and has to be exceeded.                                 *)
LEMMA FailsIsShare ==
  ASSUME NEW no \in Nat, NEW o \in Nat, NEW n \in 0 .. One, o > 0
  PROVE  CountFails(no, o, Percent(n)) <=> no * One > o * (One - n)
<1> DEFINE x == o * Precision * (One - n)
           q == x \div One
<1>a. /\ One \in Nat \ {0} /\ Precision \in Nat \ {0}
      /\ n \in Nat /\ One - n \in Nat
    BY TallyAssumption
<1>1. o * Precision \in Nat /\ x \in Nat
    BY <1>a, MulNat
<1>2. q \in Nat /\ q * One <= x /\ x < (q + 1) * One
    BY <1>1, <1>a, DivBounds
<1>3. CountFails(no, o, Percent(n)) <=> no * Precision > q
    BY DEF CountFails, Percent
<1>4. x = (o * (One - n)) * Precision
    BY <1>a, SMT
<1>5. no * Precision \in Nat /\ no * One \in Nat /\ o * (One - n) \in Nat
    BY <1>a, MulNat
<1> HIDE DEF q, x
<1>6. (no * Precision) * One = (no * One) * Precision
    BY <1>a, SMT
<1>7. (no * Precision) * One \in Nat /\ q * One \in Nat /\ (q + 1) * One \in Nat
    BY <1>2, <1>5, <1>a, MulNat
<1>8. no * Precision > q <=> (no * Precision) * One > x
  <2>1. ASSUME no * Precision > q
        PROVE  (no * Precision) * One > x
    <3>1. no * Precision >= q + 1 /\ q + 1 \in Int
        BY <2>1, <1>2, <1>5
    <3>2. (no * Precision) * One >= (q + 1) * One
        BY <3>1, <1>5, <1>a, MulOrder
    <3> QED
        BY <3>2, <1>1, <1>2, <1>7
  <2>2. ASSUME ~(no * Precision > q)
        PROVE  ~((no * Precision) * One > x)
    <3>1. q >= no * Precision
        BY <2>2, <1>2, <1>5
    <3>2. q * One >= (no * Precision) * One
        BY <3>1, <1>2, <1>5, <1>a, MulOrder
    <3> QED
        BY <3>2, <1>1, <1>2, <1>7
  <2> QED
      BY <2>1, <2>2
<1>9. o * (One - n) >= no * One <=> (o * (One - n)) * Precision >= (no * One) * Precision
    BY <1>5, <1>a, MulOrder
<1> QED
    BY <1>1, <1>3, <1>4, <1>5, <1>6, <1>7, <1>8, <1>9

(* Whoever has reached the share passes does_vote_count_pass.              *)
LEMMA ShareIsPass ==
  ASSUME NEW yes \in Nat, NEW o \in Nat, NEW pct \in PercentageThreshold,
         Share(yes, o, pct)
  PROVE  CountPasses(yes, o, pct)
<1>1. CASE pct = Majority
    BY <1>1 DEF CountPasses, Share, Majority
<1>2. ASSUME NEW n \in 0 .. One, pct = Percent(n)
      PROVE  CountPasses(yes, o, pct)
  <2> DEFINE x == o * Precision * n
             q == x \div One
  <2>a. One \in Nat \ {0} /\ Precision \in Nat \ {0} /\ n \in Nat
      BY TallyAssumption
  <2>1. o * Precision \in Nat /\ x \in Nat
      BY <2>a, MulNat
  <2>2. q \in Nat /\ q * One <= x
      BY <2>1, <2>a, DivBounds
  <2>3. x = (o * n) * Precision
      BY <2>a, SMT
  <2>4. o > 0 /\ yes * One >= o * n
      BY <1>2 DEF Share, Percent
  <2>5. o * n \in Nat /\ yes * One \in Nat /\ yes * Precision \in Nat
      BY <2>a, MulNat
  <2> HIDE DEF q, x
  <2>6. (yes * One) * Precision >= (o * n) * Precision
      BY <2>4, <2>5, <2>a, MulOrder
  <2>7. (yes * Precision) * One = (yes * One) * Precision
      BY <2>a, SMT
  <2>8. /\ (yes * Precision) * One \in Nat /\ (yes * One) * Precision \in Nat
        /\ q * One \in Nat
      BY <2>2, <2>5, <2>a, MulNat
  <2>9. (yes * Precision) * One >= q * One
      BY <2>1, <2>2, <2>3, <2>6, <2>7, <2>8
  <2>10. yes * Precision >= q
      BY <2>2, <2>5, <2>9, <2>a, MulOrder
  <2> QED
      BY <1>2, <2>4, <2>10 DEF CountPasses, Percent, q, x
<1> QED
    BY <1>1, <1>2 DEF PercentageThreshold

(* What passes has reached the share, but for the rounding.                *)
LEMMA PassIsNear ==
  ASSUME NEW yes \in Nat, NEW o \in Nat, NEW pct \in PercentageThreshold,
         CountPasses(yes, o, pct)
  PROVE  NearShare(yes, o, pct)
<1>1. CASE pct = Majority
    BY <1>1 DEF CountPasses, NearShare, Majority
<1>2. ASSUME NEW n \in 0 .. One, pct = Percent(n)
      PROVE  NearShare(yes, o, pct)
  <2> DEFINE x == o * Precision * n
             q == x \div One
  <2>a. One \in Nat \ {0} /\ Precision \in Nat \ {0} /\ n \in Nat
      BY TallyAssumption
  <2>1. o * Precision \in Nat /\ x \in Nat
      BY <2>a, MulNat
  <2>2. q \in Nat /\ x < (q + 1) * One
      BY <2>1, <2>a, DivBounds
  <2>3. yes * Precision >= q
      BY <1>2 DEF CountPasses, Percent
  <2> HIDE DEF q, x
  <2>4. yes * Precision + 1 >= q + 1 /\ yes * Precision + 1 \in Nat /\ q + 1 \in Nat
    <3>1. yes * Precision \in Nat
        BY <2>a, MulNat
    <3> QED
        BY <3>1, <2>2, <2>3
  <2>5. (yes * Precision + 1) * One >= (q + 1) * One
      BY <2>4, <2>a, MulOrder
  <2>6. (yes * Precision + 1) * One \in Nat /\ (q + 1) * One \in Nat
      BY <2>4, <2>a, MulNat
  <2>7. (yes * Precision + 1) * One > x
      BY <2>1, <2>2, <2>5, <2>6
  <2> QED
      BY <1>2, <2>7 DEF NearShare, Percent, x
<1> QED
    BY <1>1, <1>2 DEF PercentageThreshold

(* With an exact percentage nothing is rounded.                            *)
LEMMA NearIsShare ==
  ASSUME NEW yes \in Nat, NEW o \in Nat, NEW pct \in PercentageThreshold,
         o > 0, Exact(pct), NearShare(yes, o, pct)
  PROVE  Share(yes, o, pct)
<1>1. CASE pct = Majority
    BY <1>1 DEF NearShare, Share, Majority
<1>2. ASSUME NEW n \in 0 .. One, pct = Percent(n)
      PROVE  Share(yes, o, pct)
  <2> DEFINE k == (Precision * n) \div One
  <2>a. One \in Nat \ {0} /\ Precision \in Nat \ {0} /\ n \in Nat
      BY TallyAssumption
  <2>1. Precision * n \in Nat
      BY <2>a, MulNat
  <2>2. k \in Nat /\ Precision * n = k * One
      BY <1>2, <2>1, <2>a, SMT DEF Exact, Percent
  <2> HIDE DEF k
  <2>3. (yes * Precision + 1) * One > o * Precision * n
      BY <1>2 DEF NearShare, Percent
  <2>4. o * Precision * n = o * (Precision * n)
      BY <2>a, SMT
  <2>5. o * (k * One) = (o * k) * One
      BY <2>2, <2>a, SMT
  <2>6. o * k \in Nat /\ yes * Precision \in Nat /\ yes * One \in Nat /\ o * n \in Nat
      BY <2>2, <2>a, MulNat
  <2>7. ~((o * k) * One >= (yes * Precision + 1) * One)
    <3>1. (o * k) * One \in Nat /\ (yes * Precision + 1) * One \in Nat
        BY <2>6, <2>a, MulNat
    <3> QED
        BY <3>1, <2>2, <2>3, <2>4, <2>5
  <2>8. ~(o * k >= yes * Precision + 1)
    <3>1. yes * Precision + 1 \in Int
        BY <2>6
    <3> QED
        BY <3>1, <2>6, <2>7, <2>a, MulOrder
  <2>9. yes * Precision >= o * k
      BY <2>6, <2>8
  <2>10. (yes * Precision) * One >= (o * k) * One
      BY <2>6, <2>9, <2>a, MulOrder
  <2>11. (yes * Precision) * One = (yes * One) * Precision
      BY <2>a, SMT
  <2>12. o * (Precision * n) = (o * n) * Precision
      BY <2>a, SMT
  <2>13. (yes * One) * Precision >= (o * n) * Precision
      BY <2>2, <2>5, <2>10, <2>11, <2>12
  <2>14. yes * One >= o * n
      BY <2>6, <2>13, <2>a, MulOrder
  <2> QED
      BY <1>2, <2>14 DEF Share, Percent
<1> QED
    BY <1>1, <1>2 DEF PercentageThreshold

(* So what passes does_vote_count_pass has reached its share.              *)
LEMMA PassesIsShare ==
  ASSUME NEW yes \in Nat, NEW o \in Nat, NEW pct \in PercentageThreshold, Exact(pct)
  PROVE  CountPasses(yes, o, pct) <=> Share(yes, o, pct)
<1>1. CountPasses(yes, o, pct) => o > 0
    BY DEF CountPasses
<1> QED
    BY <1>1, ShareIsPass, PassIsNear, NearIsShare

(* A share that is nearly reached of some options is of fewer.             *)
LEMMA NearOfFewer ==
  ASSUME NEW yes \in Nat, NEW o \in Nat, NEW fewer \in Nat,
         NEW pct \in PercentageThreshold, fewer <= o, NearShare(yes, o, pct)
  PROVE  NearShare(yes, fewer, pct)
<1>1. CASE pct = Majority
    BY <1>1 DEF NearShare, Majority
<1>2. ASSUME NEW n \in 0 .. One, pct = Percent(n)
      PROVE  NearShare(yes, fewer, pct)
  <2>a. One \in Nat \ {0} /\ Precision \in Nat \ {0} /\ n \in Nat
      BY TallyAssumption
  <2>1. (yes * Precision + 1) * One > o * Precision * n
      BY <1>2 DEF NearShare, Percent
  <2>2. /\ fewer * Precision \in Nat /\ o * Precision \in Nat
        /\ yes * Precision + 1 \in Nat
      BY <2>a, MulNat
  <2>3. fewer * Precision <= o * Precision
      BY <2>a, MulMono
  <2>4. fewer * Precision * n <= o * Precision * n
      BY <2>2, <2>3, <2>a, MulMono
  <2>5. /\ fewer * Precision * n \in Nat /\ o * Precision * n \in Nat
        /\ (yes * Precision + 1) * One \in Nat
      BY <2>2, <2>a, MulNat
  <2>6. (yes * Precision + 1) * One > fewer * Precision * n
      BY <2>1, <2>4, <2>5
  <2> QED
      BY <1>2, <2>6 DEF NearShare, Percent
<1> QED
    BY <1>1, <1>2 DEF PercentageThreshold

(* More yes votes of the same options keep a share.                        *)
LEMMA ShareOfMore ==
  ASSUME NEW yes \in Nat, NEW more \in Nat, NEW o \in Nat,
         NEW pct \in PercentageThreshold, yes <= more, Share(yes, o, pct)
  PROVE  Share(more, o, pct)
<1>1. CASE pct = Majority
    BY <1>1 DEF Share, Majority
<1>2. ASSUME NEW n \in 0 .. One, pct = Percent(n)
      PROVE  Share(more, o, pct)
  <2>a. One \in Nat \ {0} /\ n \in Nat
      BY TallyAssumption
  <2>1. o > 0 /\ yes * One >= o * n
      BY <1>2 DEF Share, Percent
  <2>2. yes * One <= more * One
      BY <2>a, MulMono
  <2>3. yes * One \in Nat /\ more * One \in Nat /\ o * n \in Nat
      BY <2>a, MulNat
  <2>4. more * One >= o * n
      BY <2>1, <2>2, <2>3
  <2> QED
      BY <1>2, <2>1, <2>4 DEF Share, Percent
<1> QED
    BY <1>1, <1>2 DEF PercentageThreshold

(* All of the options are any share of them.                               *)
LEMMA AllIsShare ==
  ASSUME NEW o \in Nat \ {0}, NEW pct \in PercentageThreshold
  PROVE  Share(o, o, pct)
<1>1. CASE pct = Majority
    BY <1>1 DEF Share, Majority
<1>2. ASSUME NEW n \in 0 .. One, pct = Percent(n)
      PROVE  Share(o, o, pct)
  <2>a. One \in Nat \ {0} /\ n \in Nat /\ n <= One
      BY TallyAssumption
  <2>1. n * o <= One * o
      BY <2>a, MulMono
  <2>2. n * o = o * n /\ One * o = o * One
      BY <2>a, SMT
  <2>3. o * One \in Nat /\ o * n \in Nat
      BY <2>a, MulNat
  <2>4. o * One >= o * n
      BY <2>1, <2>2, <2>3
  <2> QED
      BY <1>2, <2>4 DEF Share, Percent
<1> QED
    BY <1>1, <1>2 DEF PercentageThreshold

(* A share that is reached of some options is reached of fewer, as long as *)
(* the yes votes are among them.                                           *)
LEMMA ShareOfFewer ==
  ASSUME NEW yes \in Nat, NEW o \in Nat, NEW fewer \in Nat, NEW pct \in Required,
         yes <= fewer, fewer <= o, Share(yes, o, pct)
  PROVE  Share(yes, fewer, pct)
<1>1. CASE pct = Majority
    BY <1>1 DEF Share, Majority
<1>2. ASSUME NEW n \in 0 .. One, pct = Percent(n)
      PROVE  Share(yes, fewer, pct)
  <2>a. One \in Nat \ {0} /\ n \in Nat \ {0}
      BY <1>2, TallyAssumption DEF Required
  <2>1. o > 0 /\ yes * One >= o * n
      BY <1>2 DEF Share, Percent
  <2>2. fewer * n <= o * n
      BY <2>a, MulMono
  <2>3. yes > 0
    <3>1. o * n >= 1
        BY <2>1, <2>a, SMT
    <3> QED
        BY <2>1, <3>1, <2>a, SMT
  <2>4. yes * One \in Int /\ o * n \in Int /\ fewer * n \in Int
      BY <2>a, SMT
  <2>5. yes * One >= fewer * n
      BY <2>1, <2>2, <2>4
  <2> QED
      BY <1>2, <2>3, <2>5 DEF Share, Percent
<1> QED
    BY <1>1, <1>2 DEF Required, PercentageThreshold

(* After too many no votes no share is reached, of no options that the     *)
(* votes may end with.                                                     *)
LEMMA NoShareLeft ==
  ASSUME NEW yes \in Nat, NEW no \in Nat, NEW o \in Nat, NEW fewer \in Nat,
         NEW pct \in Required,
         yes + no <= fewer, fewer <= o, TooManyNo(no, o, pct)
  PROVE  ~Share(yes, fewer, pct)
<1> SUFFICES ASSUME fewer > 0
             PROVE  ~Share(yes, fewer, pct)
    BY DEF Share
<1>1. CASE pct = Majority
  <2>1. CountFails(no, o, pct)
      BY <1>1, TallyAssumption DEF TooManyNo, Majority, Percent
  <2> QED
      BY <1>1, <2>1 DEF CountFails, Share, Majority
<1>2. ASSUME NEW n \in 0 .. One, pct = Percent(n)
      PROVE  ~Share(yes, fewer, pct)
  <2>a. One \in Nat \ {0} /\ n \in Nat /\ One - n \in Nat
      BY TallyAssumption
  <2>0. yes * One \in Int /\ no * One \in Int /\ fewer * n \in Int
      BY <2>a, SMT
  <2>1. CASE n = One
    <3>1. no >= 1
        BY <1>2, <2>1 DEF TooManyNo
    <3>2. ~(yes >= fewer)
        BY <3>1
    <3>3. ~(yes * One >= fewer * One)
        BY <3>2, <2>a, MulOrder
    <3> QED
        BY <1>2, <2>1, <3>3 DEF Share, Percent
  <2>2. CASE n # One
    <3>1. CountFails(no, o, Percent(n))
        BY <1>2, <2>2 DEF TooManyNo, Percent
    <3>2. no * One > o * (One - n)
        BY <1>2, <3>1, FailsIsShare
    <3>3. o * (One - n) >= fewer * (One - n)
        BY <2>a, MulMono
    <3>4. fewer * (One - n) = fewer * One - fewer * n
        BY <2>a, SMT
    <3>5. (yes + no) * One <= fewer * One
        BY <2>a, MulMono
    <3>6. (yes + no) * One = yes * One + no * One
        BY <2>a, SMT
    <3>7. fewer * One \in Int /\ o * (One - n) \in Int /\ fewer * (One - n) \in Int
        BY <2>a, SMT
    <3>8. ~(yes * One >= fewer * n)
        BY <3>2, <3>3, <3>4, <3>5, <3>6, <3>7, <2>0
    <3> QED
        BY <1>2, <3>8 DEF Share, Percent
  <2> QED
      BY <2>1, <2>2
<1> QED
    BY <1>1, <1>2 DEF Required, PercentageThreshold

(* When not even all the others together reach the share, there are too    *)
(* many no votes.                                                          *)
LEMMA TooManyLeft ==
  ASSUME NEW no \in Nat, NEW o \in Nat, NEW pct \in Required,
         no <= o, ~Share(o - no, o, pct)
  PROVE  TooManyNo(no, o, pct)
<1>0. CASE o = 0
    BY <1>0 DEF TooManyNo, CountFails
<1>1. CASE o > 0 /\ pct = Majority
  <2>1. 2 * no >= o
      BY <1>1 DEF Share, Majority
  <2> QED
      BY <1>1, <2>1, TallyAssumption DEF TooManyNo, CountFails, Majority, Percent
<1>2. ASSUME o > 0, NEW n \in 0 .. One, pct = Percent(n)
      PROVE  TooManyNo(no, o, pct)
  <2>a. One \in Nat \ {0} /\ n \in Nat /\ One - n \in Nat
      BY TallyAssumption
  <2>0. o - no \in Nat
      OBVIOUS
  <2>1. ~((o - no) * One >= o * n)
      BY <1>2 DEF Share, Percent
  <2>2. CASE n = One
    <3>1. ~(o - no >= o)
        BY <2>0, <2>1, <2>2, <2>a, MulOrder
    <3>2. no >= 1
        BY <3>1
    <3> QED
        BY <1>2, <2>2, <3>2 DEF TooManyNo
  <2>3. CASE n # One
    <3>1. (o - no) * One = o * One - no * One
        BY <2>a, SMT
    <3>2. o * (One - n) = o * One - o * n
        BY <2>a, SMT
    <3>3. /\ o * One \in Nat /\ no * One \in Nat /\ o * n \in Nat
          /\ o * (One - n) \in Nat
        BY <2>a, MulNat
    <3>4. no * One > o * (One - n)
        BY <2>1, <3>1, <3>2, <3>3
    <3>5. CountFails(no, o, Percent(n))
        BY <1>2, <3>4, FailsIsShare
    <3> QED
        BY <1>2, <2>3, <3>5 DEF TooManyNo, Percent
  <2> QED
      BY <2>2, <2>3
<1> QED
    BY <1>0, <1>1, <1>2 DEF Required, PercentageThreshold

-----------------------------------------------------------------------------
(* Proposals.                                                              *)


\* What the code keeps of every proposal that it stores.
Whole(p) ==
  /\ p \in Tallied
  /\ p.min_voting_period <= p.expiration

\* A proposal whose total power covers its votes.
Good(p) ==
  /\ p \in Tallied
  /\ Cast(p.votes) <= p.total_power
  /\ p.min_voting_period <= p.expiration

\* A stored decision agrees with the threshold.
Right(p) ==
  /\ p.status \in {"passed", "executed"} =>
       /\ NearlyAccepted(p, p.votes)
       /\ ExactThreshold(p.threshold) => Accepted(p, p.votes)
  /\ p.status \in {"rejected", "closed"} => ~Accepted(p, p.votes)

\* The decision on a proposal is right unless more was voted than there is.
Sane(p) == Whole(p) /\ (Within(p) => Right(p))

Inv == now \in Nat /\ (Made => Sane(prop))

-----------------------------------------------------------------------------
(* One proposal at one time.                                               *)

\* What a good proposal's fields are, kind by kind.
LEMMA GoodFields ==
  ASSUME NEW p, Good(p)
  PROVE  /\ p.votes["yes"] \in Nat /\ p.votes["no"] \in Nat /\ p.votes["abstain"] \in Nat
         /\ p.total_power \in Nat /\ p.expiration \in Nat /\ p.min_voting_period \in Nat
         /\ p.status \in Status /\ p.allow_revoting \in BOOLEAN
         /\ Cast(p.votes) \in Nat
         /\ Options(p) \in Nat
         /\ p.votes["yes"] + p.votes["no"] \in Nat
         /\ p.votes["yes"] + p.votes["no"] <= Options(p)
         /\ \/ /\ p.threshold.kind = "AbsolutePercentage"
               /\ p.threshold.percentage \in Required
               /\ p.threshold.percentage \in PercentageThreshold
            \/ /\ p.threshold.kind = "ThresholdQuorum"
               /\ p.threshold.threshold \in Required
               /\ p.threshold.threshold \in PercentageThreshold
               /\ p.threshold.quorum \in PercentageThreshold
            \/ /\ p.threshold.kind = "AbsoluteCount"
               /\ p.threshold.threshold \in Nat
<1>1. p \in Tallied /\ p.threshold \in Threshold
    BY DEF Good, Tallied
<1>2. /\ p.votes \in [Vote -> Nat]
      /\ p.total_power \in Nat /\ p.expiration \in Nat /\ p.min_voting_period \in Nat
      /\ p.status \in Status /\ p.allow_revoting \in BOOLEAN
    BY <1>1 DEF Tallied, Votes, Uint128
<1>3. p.votes["yes"] \in Nat /\ p.votes["no"] \in Nat /\ p.votes["abstain"] \in Nat
    BY <1>2 DEF Vote
<1>4. p.votes["yes"] + p.votes["no"] + p.votes["abstain"] <= p.total_power
    BY DEF Good, Cast
<1>5. /\ Cast(p.votes) \in Nat
      /\ Options(p) \in Nat
      /\ p.votes["yes"] + p.votes["no"] \in Nat
      /\ p.votes["yes"] + p.votes["no"] <= Options(p)
    BY <1>2, <1>3, <1>4 DEF Cast, Options
<1>6. \/ /\ p.threshold.kind = "AbsolutePercentage"
         /\ p.threshold.percentage \in Required
      \/ /\ p.threshold.kind = "ThresholdQuorum"
         /\ p.threshold.threshold \in Required
         /\ p.threshold.quorum \in PercentageThreshold
      \/ /\ p.threshold.kind = "AbsoluteCount"
         /\ p.threshold.threshold \in Nat
    BY <1>1 DEF Threshold
<1>7. Required \subseteq PercentageThreshold
    BY DEF Required
<1> QED
    BY <1>2, <1>3, <1>5, <1>6, <1>7

\* What passes is accepted but for the rounding, whenever it passes.
LEMMA PassedNearly ==
  ASSUME NEW p, Good(p), NEW t \in Nat, IsPassed(p, t)
  PROVE  NearlyAccepted(p, p.votes)
<1> DEFINE yes == p.votes["yes"]
           no  == p.votes["no"]
           th  == p.threshold
<1>0. /\ yes \in Nat /\ no \in Nat /\ Options(p) \in Nat
      /\ yes + no \in Nat /\ yes + no <= Options(p)
      /\ Cast(p.votes) \in Nat /\ p.total_power \in Nat
    BY GoodFields
<1>1. CASE th.kind = "AbsolutePercentage"
  <2>1. CountPasses(yes, Options(p), th.percentage)
      BY <1>1 DEF IsPassed, OptionsAt
  <2>2. th.percentage \in PercentageThreshold
      BY <1>1, GoodFields
  <2>3. NearShare(yes, Options(p), th.percentage)
    <3> HIDE DEF yes, th
    <3> QED
        BY <2>1, <2>2, <1>0, PassIsNear
  <2> QED
      BY <2>3, <1>1 DEF NearlyAccepted, Options
<1>2. CASE th.kind = "ThresholdQuorum"
  <2>1. /\ CountPasses(Cast(p.votes), p.total_power, th.quorum)
        /\ CountPasses(yes, OptionsAt(p, t), th.threshold)
      BY <1>2 DEF IsPassed, QuorumMet
  <2>2. th.threshold \in PercentageThreshold /\ th.quorum \in PercentageThreshold
      BY <1>2, GoodFields
  <2>3. NearShare(Cast(p.votes), p.total_power, th.quorum)
      BY <2>1, <2>2, <1>0, PassIsNear
  <2>4. OptionsAt(p, t) \in {yes + no, Options(p)}
      BY DEF OptionsAt
  <2>5. NearShare(yes, yes + no, th.threshold)
    <3> HIDE DEF yes, no, th
    <3>1. OptionsAt(p, t) \in Nat /\ yes + no <= OptionsAt(p, t)
        BY <2>4, <1>0
    <3>2. NearShare(yes, OptionsAt(p, t), th.threshold)
        BY <2>1, <2>2, <3>1, <1>0, PassIsNear
    <3> QED
        BY <2>2, <3>1, <3>2, <1>0, NearOfFewer
  <2> QED
      BY <2>3, <2>5, <1>2 DEF NearlyAccepted
<1>3. CASE th.kind = "AbsoluteCount"
    BY <1>3 DEF IsPassed, NearlyAccepted
<1> QED
    BY <1>1, <1>2, <1>3, GoodFields

\* Where nothing is rounded it is accepted.
LEMMA PassedAccepted ==
  ASSUME NEW p, Good(p), ExactThreshold(p.threshold), NEW t \in Nat, IsPassed(p, t)
  PROVE  Accepted(p, p.votes)
<1> DEFINE yes == p.votes["yes"]
           no  == p.votes["no"]
           th  == p.threshold
<1>0. /\ yes \in Nat /\ no \in Nat /\ Options(p) \in Nat
      /\ yes + no \in Nat /\ yes + no <= Options(p)
    BY GoodFields
<1>1. CASE th.kind = "AbsolutePercentage"
  <2>1. CountPasses(yes, Options(p), th.percentage)
      BY <1>1 DEF IsPassed, OptionsAt
  <2>2. th.percentage \in PercentageThreshold /\ Exact(th.percentage)
      BY <1>1, GoodFields DEF ExactThreshold
  <2>3. Share(yes, Options(p), th.percentage)
    <3> HIDE DEF yes, th
    <3> QED
        BY <2>1, <2>2, <1>0, PassesIsShare
  <2> QED
      BY <2>3, <1>1 DEF Accepted, Options
<1>2. CASE th.kind = "ThresholdQuorum"
  <2>1. /\ CountPasses(Cast(p.votes), p.total_power, th.quorum)
        /\ CountPasses(yes, OptionsAt(p, t), th.threshold)
      BY <1>2 DEF IsPassed, QuorumMet
  <2>2. /\ th.threshold \in Required /\ th.threshold \in PercentageThreshold
        /\ th.quorum \in PercentageThreshold
        /\ Exact(th.threshold) /\ Exact(th.quorum)
      BY <1>2, GoodFields DEF ExactThreshold
  <2>3. Cast(p.votes) \in Nat /\ p.total_power \in Nat
      BY GoodFields
  <2>4. Share(Cast(p.votes), p.total_power, th.quorum)
      BY <2>1, <2>2, <2>3, PassesIsShare
  <2>5. OptionsAt(p, t) \in {yes + no, Options(p)}
      BY DEF OptionsAt
  <2>6. Share(yes, yes + no, th.threshold)
    <3> HIDE DEF yes, no, th
    <3>1. OptionsAt(p, t) \in Nat /\ yes + no <= OptionsAt(p, t)
        BY <2>5, <1>0
    <3>2. Share(yes, OptionsAt(p, t), th.threshold)
        BY <2>1, <2>2, <3>1, <1>0, PassesIsShare
    <3>3. yes <= yes + no
        BY <1>0
    <3> QED
        BY <2>2, <3>1, <3>2, <3>3, <1>0, ShareOfFewer
  <2> QED
      BY <2>4, <2>6, <1>2 DEF Accepted
<1>3. CASE th.kind = "AbsoluteCount"
    BY <1>3 DEF IsPassed, Accepted
<1> QED
    BY <1>1, <1>2, <1>3, GoodFields

\* What is accepted when the proposal expires passes.
LEMMA AcceptedPassed ==
  ASSUME NEW p, Good(p), NEW t \in Nat, Expired(p.expiration, t), Accepted(p, p.votes)
  PROVE  IsPassed(p, t)
<1> DEFINE yes == p.votes["yes"]
           no  == p.votes["no"]
           th  == p.threshold
<1>0. yes \in Nat /\ yes + no \in Nat /\ Options(p) \in Nat
    BY GoodFields
<1>u. ~Unsettled(p, t) /\ Expired(p.min_voting_period, t)
    BY GoodFields DEF Unsettled, Expired, Good
<1>1. CASE th.kind = "AbsolutePercentage"
  <2>1. Share(yes, Options(p), th.percentage)
      BY <1>1 DEF Accepted, Options
  <2>2. th.percentage \in PercentageThreshold
      BY <1>1, GoodFields
  <2>3. CountPasses(yes, Options(p), th.percentage)
    <3> HIDE DEF yes, th
    <3> QED
        BY <2>1, <2>2, <1>0, ShareIsPass
  <2> QED
      BY <2>3, <1>u, <1>1 DEF IsPassed, OptionsAt
<1>2. CASE th.kind = "ThresholdQuorum"
  <2>1. /\ Share(Cast(p.votes), p.total_power, th.quorum)
        /\ Share(yes, yes + no, th.threshold)
      BY <1>2 DEF Accepted
  <2>2. th.threshold \in PercentageThreshold /\ th.quorum \in PercentageThreshold
      BY <1>2, GoodFields
  <2>3. Cast(p.votes) \in Nat /\ p.total_power \in Nat
      BY GoodFields
  <2>4. CountPasses(Cast(p.votes), p.total_power, th.quorum)
      BY <2>1, <2>2, <2>3, ShareIsPass
  <2>5. CountPasses(yes, yes + no, th.threshold)
    <3> HIDE DEF yes, no, th
    <3> QED
        BY <2>1, <2>2, <1>0, ShareIsPass
  <2> QED
      BY <2>4, <2>5, <1>u, <1>2 DEF IsPassed, QuorumMet, OptionsAt
<1>3. CASE th.kind = "AbsoluteCount"
    BY <1>3, <1>u DEF IsPassed, Accepted
<1> QED
    BY <1>1, <1>2, <1>3, GoodFields

\* What is rejected before the proposal expires is not accepted.
LEMMA RejectedNotAccepted ==
  ASSUME NEW p, Good(p), NEW t \in Nat, ~Expired(p.expiration, t), IsRejected(p, t)
  PROVE  ~Accepted(p, p.votes)
<1> DEFINE yes == p.votes["yes"]
           no  == p.votes["no"]
           th  == p.threshold
<1>0. /\ yes \in Nat /\ no \in Nat /\ Options(p) \in Nat
      /\ yes + no \in Nat /\ yes + no <= Options(p)
    BY GoodFields
<1>1. CASE th.kind = "AbsolutePercentage"
  <2>1. TooManyNo(no, Options(p), th.percentage)
      BY <1>1 DEF IsRejected, OptionsAt
  <2>2. th.percentage \in Required
      BY <1>1, GoodFields
  <2>3. ~Share(yes, Options(p), th.percentage)
    <3> HIDE DEF yes, no, th
    <3>1. Options(p) <= Options(p)
        BY <1>0
    <3> QED
        BY <2>1, <2>2, <3>1, <1>0, NoShareLeft
  <2> QED
      BY <2>3, <1>1 DEF Accepted, Options
<1>2. CASE th.kind = "ThresholdQuorum"
  <2>1. TooManyNo(no, Options(p), th.threshold)
      BY <1>2 DEF IsRejected, OptionsAt
  <2>2. th.threshold \in Required
      BY <1>2, GoodFields
  <2>3. ~Share(yes, yes + no, th.threshold)
    <3> HIDE DEF yes, no, th
    <3>1. yes + no <= yes + no
        BY <1>0
    <3> QED
        BY <2>1, <2>2, <3>1, <1>0, NoShareLeft
  <2> QED
      BY <2>3, <1>2 DEF Accepted
<1>3. CASE th.kind = "AbsoluteCount"
  <2>1. yes + (p.total_power - Cast(p.votes)) < th.threshold
      BY <1>3 DEF IsRejected
  <2>2. th.threshold \in Nat /\ p.total_power \in Nat /\ Cast(p.votes) \in Nat
      BY <1>3, GoodFields
  <2>3. Cast(p.votes) <= p.total_power
      BY DEF Good
  <2>4. ~(yes >= th.threshold)
    <3> HIDE DEF yes, th
    <3> QED
        BY <2>1, <2>2, <2>3, <1>0
  <2> QED
      BY <2>4, <1>3 DEF Accepted
<1> QED
    BY <1>1, <1>2, <1>3, GoodFields

\* The status of an open proposal is right.
LEMMA StatusRight ==
  ASSUME NEW p, Good(p), NEW t \in Nat, p.status = "open"
  PROVE  /\ CurrentStatus(p, t) \in {"open", "passed", "rejected"}
         /\ CurrentStatus(p, t) = "passed" =>
              /\ NearlyAccepted(p, p.votes)
              /\ ExactThreshold(p.threshold) => Accepted(p, p.votes)
         /\ CurrentStatus(p, t) = "rejected" => ~Accepted(p, p.votes)
<1>1. CASE IsPassed(p, t)
    BY <1>1, PassedNearly, PassedAccepted DEF CurrentStatus
<1>2. CASE ~IsPassed(p, t) /\ Expired(p.expiration, t)
    BY <1>2, AcceptedPassed DEF CurrentStatus
<1>3. CASE ~IsPassed(p, t) /\ ~Expired(p.expiration, t) /\ IsRejected(p, t)
    BY <1>3, RejectedNotAccepted DEF CurrentStatus
<1>4. CASE ~IsPassed(p, t) /\ ~Expired(p.expiration, t) /\ ~IsRejected(p, t)
    BY <1>4 DEF CurrentStatus
<1> QED
    BY <1>1, <1>2, <1>3, <1>4

\* What has passed stays passed, and what was rejected stays rejected, as time
\* goes on.
LEMMA StatusLater ==
  ASSUME NEW p, Good(p), ExactThreshold(p.threshold), NEW t \in Nat
  PROVE  CurrentStatus(p, t + 1) \in After(CurrentStatus(p, t))
<1>0. t + 1 \in Nat /\ p.status \in Status
    BY GoodFields
<1>1. CASE p.status # "open"
    BY <1>0, <1>1 DEF CurrentStatus, After, Status
<1>2. CASE p.status = "open"
  <2>1. CurrentStatus(p, t + 1) \in {"open", "passed", "rejected"}
      BY <1>0, <1>2, StatusRight
  <2>2. CASE CurrentStatus(p, t) = "open"
      BY <2>1, <2>2 DEF After, Status
  <2>3. CASE CurrentStatus(p, t) = "passed"
    <3>1. IsPassed(p, t)
        BY <2>3, <1>2 DEF CurrentStatus
    <3>2. IsPassed(p, t + 1)
      <4>1. CASE Expired(p.expiration, t + 1)
          BY <4>1, <3>1, <1>0, PassedAccepted, AcceptedPassed
      <4>2. CASE ~Expired(p.expiration, t + 1)
        <5>1. ~Expired(p.expiration, t)
            BY <4>2, GoodFields DEF Expired
        <5>2. /\ Unsettled(p, t + 1) <=> Unsettled(p, t)
              /\ OptionsAt(p, t + 1) = OptionsAt(p, t)
            BY <4>2, <5>1 DEF Unsettled, OptionsAt
        <5>3. Expired(p.min_voting_period, t + 1)
            BY <3>1, GoodFields DEF IsPassed, Expired
        <5> QED
            BY <5>2, <5>3, <3>1 DEF IsPassed
      <4> QED
          BY <4>1, <4>2
    <3> QED
        BY <3>2, <2>3, <1>2 DEF CurrentStatus, After
  <2>4. CASE CurrentStatus(p, t) = "rejected"
    <3>1. ~IsPassed(p, t + 1)
        BY <2>4, <1>0, <1>2, StatusRight, PassedAccepted
    <3>2. Expired(p.expiration, t + 1) \/ IsRejected(p, t + 1)
      <4>1. CASE Expired(p.expiration, t)
          BY <4>1, GoodFields DEF Expired
      <4>2. CASE ~Expired(p.expiration, t) /\ ~Expired(p.expiration, t + 1)
        <5>1. IsRejected(p, t)
            BY <4>2, <2>4, <1>2 DEF CurrentStatus
        <5>2. /\ Unsettled(p, t + 1) <=> Unsettled(p, t)
              /\ OptionsAt(p, t + 1) = OptionsAt(p, t)
            BY <4>2 DEF Unsettled, OptionsAt
        <5> QED
            BY <4>2, <5>1, <5>2 DEF IsRejected
      <4> QED
          BY <4>1, <4>2
    <3> QED
        BY <3>1, <3>2, <2>4, <1>2 DEF CurrentStatus, After
  <2> QED
      BY <2>2, <2>3, <2>4, <1>2, StatusRight
<1> QED
    BY <1>1, <1>2

-----------------------------------------------------------------------------
(* The steps.                                                              *)

\* A whole proposal is good as long as its total power covers its votes.
LEMMA WholeGood ==
  ASSUME NEW p, Whole(p), Within(p)
  PROVE  Good(p)
BY DEF Whole, Within, Good

\* Bringing the status of an open proposal up to date makes it right.
LEMMA UpdatedRight ==
  ASSUME NEW p, Whole(p), NEW t \in Nat, p.status = "open"
  PROVE  Sane([p EXCEPT !.status = CurrentStatus(p, t)])
<1> DEFINE q == [p EXCEPT !.status = CurrentStatus(p, t)]
<1>1. CurrentStatus(p, t) \in {"open", "passed", "rejected"}
    BY DEF CurrentStatus
<1>2. p \in Tallied
    BY DEF Whole
<1>3. /\ q.threshold = p.threshold /\ q.votes = p.votes
      /\ q.total_power = p.total_power /\ q.min_voting_period = p.min_voting_period
      /\ q.expiration = p.expiration /\ q.status = CurrentStatus(p, t)
      /\ q \in Tallied
    BY <1>1, <1>2 DEF Tallied, Status
<1>4. Whole(q)
    BY <1>3 DEF Whole
<1>5. /\ Accepted(q, q.votes) <=> Accepted(p, p.votes)
      /\ NearlyAccepted(q, q.votes) <=> NearlyAccepted(p, p.votes)
      /\ Within(q) => Within(p)
    BY <1>3 DEF Accepted, NearlyAccepted, Within
<1>6. ASSUME Within(q)
      PROVE  Right(q)
  <2>1. Good(p)
      BY <1>5, <1>6, WholeGood
  <2> QED
      BY <1>1, <1>3, <1>5, <2>1, StatusRight DEF Right
<1> QED
    BY <1>4, <1>6 DEF Sane

LEMMA CreateKeeps ==
  ASSUME Inv, Create
  PROVE  Sane(prop')
<1> DEFINE opened == [prop' EXCEPT !.status = "open"]
<1>1. /\ prop' \in Openings /\ prop' \in Tallied
      /\ prop'.min_voting_period <= prop'.expiration
      /\ prop'.status = CurrentStatus(opened, now)
    BY LifecycleAssumption DEF Create
<1>2. /\ opened \in Tallied /\ opened.status = "open"
      /\ opened.min_voting_period = prop'.min_voting_period
      /\ opened.expiration = prop'.expiration
      /\ prop' = [opened EXCEPT !.status = prop'.status]
    BY <1>1 DEF Tallied, Status
<1>3. Whole(opened)
    BY <1>1, <1>2 DEF Whole
<1> HIDE DEF opened
<1>4. prop' = [opened EXCEPT !.status = CurrentStatus(opened, now)]
    BY <1>1, <1>2
<1> QED
    BY <1>2, <1>3, <1>4, UpdatedRight DEF Inv

LEMMA VotedKeeps ==
  ASSUME Inv, Voted
  PROVE  Made /\ Sane(prop')
<1>1. Made /\ prop.status = "open"
    BY DEF Voted, Decides, CurrentStatus, Made, Absent
<1>2. Whole(prop) /\ prop \in Tallied /\ now \in Nat
    BY <1>1 DEF Inv, Sane, Whole
<1>3. PICK v \in Revised(prop) :
        LET voted == [prop EXCEPT !.votes = v]
        IN  prop' = [voted EXCEPT !.status = CurrentStatus(voted, now)]
    BY DEF Voted
<1> DEFINE voted == [prop EXCEPT !.votes = v]
<1>4. v \in Votes
    BY <1>3 DEF Revised
<1>5. /\ voted \in Tallied /\ voted.status = "open"
      /\ voted.min_voting_period = prop.min_voting_period
      /\ voted.expiration = prop.expiration
    BY <1>1, <1>2, <1>4 DEF Tallied
<1>6. Whole(voted)
    BY <1>2, <1>5 DEF Whole
<1> QED
    BY <1>1, <1>2, <1>3, <1>5, <1>6, UpdatedRight

\* Settling stores the decision that the status shows.
LEMMA SettleKeeps ==
  ASSUME NEW decision, NEW settled, Inv, Settle(decision, settled),
         \/ decision = "passed" /\ settled = "executed"
         \/ decision = "rejected" /\ settled = "closed"
  PROVE  /\ Made /\ Sane(prop')
         /\ prop'.status = settled
<1>1. Made /\ prop.status \in {"open", decision}
    BY DEF Settle, Decides, CurrentStatus, Made, Absent
<1>2. Whole(prop) /\ (Within(prop) => Right(prop)) /\ prop \in Tallied /\ now \in Nat
    BY <1>1 DEF Inv, Sane, Whole
<1>3. /\ prop' = [prop EXCEPT !.status = settled]
      /\ CurrentStatus(prop, now) = decision
    BY DEF Settle, Decides
<1>4. /\ prop'.threshold = prop.threshold /\ prop'.votes = prop.votes
      /\ prop'.total_power = prop.total_power
      /\ prop'.min_voting_period = prop.min_voting_period
      /\ prop'.expiration = prop.expiration /\ prop'.status = settled
      /\ prop' \in Tallied
    BY <1>2, <1>3 DEF Tallied, Status
<1>5. Whole(prop')
    BY <1>2, <1>4 DEF Whole
<1>6. /\ Accepted(prop', prop'.votes) <=> Accepted(prop, prop.votes)
      /\ NearlyAccepted(prop', prop'.votes) <=> NearlyAccepted(prop, prop.votes)
      /\ Within(prop') => Within(prop)
    BY <1>4 DEF Accepted, NearlyAccepted, Within
<1>7. ASSUME Within(prop')
      PROVE  Right(prop')
  <2>1. Good(prop) /\ Right(prop)
      BY <1>2, <1>6, <1>7, WholeGood
  <2>2. /\ decision = "passed" =>
             /\ NearlyAccepted(prop, prop.votes)
             /\ ExactThreshold(prop.threshold) => Accepted(prop, prop.votes)
        /\ decision = "rejected" => ~Accepted(prop, prop.votes)
      BY <1>1, <1>2, <1>3, <2>1, StatusRight DEF Right
  <2> QED
      BY <1>4, <1>6, <2>2 DEF Right
<1> QED
    BY <1>1, <1>4, <1>5, <1>7 DEF Sane

LEMMA InvKept == Inv /\ [LCNext]_lcvars => Inv'
<1> SUFFICES ASSUME Inv, [LCNext]_lcvars
             PROVE  Inv'
    OBVIOUS
<1>1. CASE Create
  <2>1. now' \in Nat
      BY <1>1 DEF Create, Inv
  <2> QED
      BY <2>1, <1>1, CreateKeeps DEF Inv
<1>2. CASE Voted
  <2>1. now' \in Nat
      BY <1>2 DEF Voted, Inv
  <2> QED
      BY <2>1, <1>2, VotedKeeps DEF Inv
<1>3. CASE Execute
  <2>1. now' \in Nat
      BY <1>3 DEF Execute, Settle, Inv
  <2> QED
      BY <2>1, <1>3, SettleKeeps DEF Inv, Execute
<1>4. CASE Close
  <2>1. now' \in Nat
      BY <1>4 DEF Close, Settle, Inv
  <2> QED
      BY <2>1, <1>4, SettleKeeps DEF Inv, Close
<1>5. CASE Tick
    BY <1>5 DEF Tick, Inv, Made
<1>6. CASE UNCHANGED lcvars
    BY <1>6 DEF lcvars, Inv, Made
<1> QED
    BY <1>1, <1>2, <1>3, <1>4, <1>5, <1>6 DEF LCNext

(* Inv holds throughout: stored decisions agree with the threshold, as     *)
(* long as no more is voted than the total power.                          *)
THEOREM DecisionsAreRight == LCSpec => []Inv
<1>1. LCInit => Inv
    BY LifecycleAssumption DEF LCInit, Inv, Made
<1> QED
    BY <1>1, InvKept, PTL DEF LCSpec

(* What is executed was accepted by the threshold, up to the rounding, and *)
(* what is closed was not (Execute and Close of contract.rs), for every    *)
(* threshold, any power and any sequence of votes, revotes and blocks, as  *)
(* long as no more is voted than the total power.                          *)
THEOREM SettledAsAccepted == LCSpec => []SettledRightly
<1>1. Inv => SettledRightly
    BY DEF Inv, Sane, Right, SettledRightly, Sound, Exactly
<1> QED
    BY <1>1, DecisionsAreRight, PTL

(* No step, and no passing of time, changes a decision that the status of  *)
(* the proposal shows, stored or not, as long as nothing is rounded and no *)
(* more is voted than the total power.                                     *)
THEOREM DecisionsAreFinal == LCSpec => DecisionIsFinal
<1>1. ASSUME Inv, Inv', [LCNext]_lcvars
      PROVE  [(Exactly' /\ (Made' => Within(prop)'))
                => CurrentStatus(prop, now)' \in After(CurrentStatus(prop, now))]_lcvars
  <2>1. CASE Create
    <3>1. prop.status = "absent" /\ CurrentStatus(prop, now) = "absent"
        BY <2>1 DEF Create, Absent, CurrentStatus
    <3>2. Sane(prop')
        BY <2>1, <1>1, CreateKeeps
    <3>3. CurrentStatus(prop', now') \in Status
      <4>1. prop'.status \in Status
          BY <3>2 DEF Sane, Whole, Tallied
      <4> QED
          BY <4>1 DEF CurrentStatus, Status
    <3> QED
        BY <3>1, <3>3 DEF After
  <2>2. CASE Voted
    <3>1. CurrentStatus(prop, now) = "open"
        BY <2>2 DEF Voted, Decides
    <3>2. prop'.status \in Status
        BY <2>2, <1>1, VotedKeeps DEF Sane, Whole, Tallied
    <3>3. CurrentStatus(prop', now') \in Status
        BY <3>2 DEF CurrentStatus, Status
    <3> QED
        BY <3>1, <3>3 DEF After
  <2>3. CASE Execute
    <3>1. CurrentStatus(prop, now) = "passed" /\ prop'.status = "executed"
        BY <2>3, <1>1, SettleKeeps DEF Execute, Settle, Decides
    <3> QED
        BY <3>1 DEF CurrentStatus, After
  <2>4. CASE Close
    <3>1. CurrentStatus(prop, now) = "rejected" /\ prop'.status = "closed"
        BY <2>4, <1>1, SettleKeeps DEF Close, Settle, Decides
    <3> QED
        BY <3>1 DEF CurrentStatus, After
  <2>5. CASE Tick
    <3>1. ASSUME Made, Exactly, Within(prop)
          PROVE  CurrentStatus(prop', now') \in After(CurrentStatus(prop, now))
      <4>1. Good(prop) /\ now \in Nat /\ now' = now + 1 /\ prop' = prop
          BY <3>1, <2>5, <1>1, WholeGood DEF Tick, Inv, Sane
      <4>2. ExactThreshold(prop.threshold)
          BY <3>1 DEF Exactly
      <4> QED
          BY <4>1, <4>2, StatusLater
    <3>2. CASE ~Made
        BY <3>2, <2>5 DEF Tick, Made, Absent, CurrentStatus, After
    <3>3. (Exactly' => Exactly) /\ (Made' <=> Made) /\ (Within(prop)' => Within(prop))
        BY <2>5 DEF Tick, Exactly, Made
    <3> QED
        BY <3>1, <3>2, <3>3
  <2> QED
      BY <1>1, <2>1, <2>2, <2>3, <2>4, <2>5 DEF LCNext
<1> QED
    BY <1>1, DecisionsAreRight, PTL DEF LCSpec, DecisionIsFinal

-----------------------------------------------------------------------------
(* Decisions are taken as soon as nothing can change them.                 *)

\* What the votes can still become, in numbers.
LEMMA FutureVotes ==
  ASSUME NEW p, Good(p), NEW v \in Futures(p)
  PROVE  /\ v["yes"] \in Nat /\ v["no"] \in Nat /\ v["abstain"] \in Nat
         /\ p.votes["yes"] <= v["yes"] /\ p.votes["no"] <= v["no"]
         /\ Cast(v) \in Nat /\ Cast(p.votes) <= Cast(v)
         /\ v["yes"] + v["no"] \in Nat
         /\ p.total_power - v["abstain"] \in Nat
         /\ v["yes"] + v["no"] <= p.total_power - v["abstain"]
         /\ p.total_power - v["abstain"] <= Options(p)
<1>1. v["yes"] \in Nat /\ v["no"] \in Nat /\ v["abstain"] \in Nat
    BY GoodFields DEF Futures, Vote
<1>2. /\ p.votes["yes"] <= v["yes"] /\ p.votes["no"] <= v["no"]
      /\ p.votes["abstain"] <= v["abstain"]
    BY DEF Futures, Grown, Vote
<1>3. v["yes"] + v["no"] + v["abstain"] <= p.total_power
    BY DEF Futures, Cast
<1>4. /\ p.votes["yes"] \in Nat /\ p.votes["no"] \in Nat
      /\ p.votes["abstain"] \in Nat /\ p.total_power \in Nat
    BY GoodFields
<1> QED
    BY <1>1, <1>2, <1>3, <1>4 DEF Cast, Options

\* The votes as they are may be the last ones, and so may those after which
\* everybody who has not voted votes the same.
LEMMA LastVotes ==
  ASSUME NEW p, Good(p)
  PROVE  LET rest == p.total_power - Cast(p.votes)
             yes  == p.votes["yes"]
             no   == p.votes["no"]
         IN  /\ rest \in Nat
             /\ Options(p) = yes + no + rest
             /\ p.votes \in Futures(p)
             /\ [p.votes EXCEPT !["no"] = no + rest] \in Futures(p)
             /\ [p.votes EXCEPT !["yes"] = yes + rest] \in Futures(p)
<1> DEFINE votes == p.votes
           total == p.total_power
           rest == total - Cast(votes)
           allNo == [votes EXCEPT !["no"] = votes["no"] + rest]
           allYes == [votes EXCEPT !["yes"] = votes["yes"] + rest]
<1>0. votes \in [Vote -> Nat] /\ total \in Nat /\ Cast(votes) <= total
    BY DEF Good, Tallied, Votes, Uint128
<1>1. Options(p) = total - votes["abstain"]
    BY DEF Options
<1>2. Futures(p) = {v \in [Vote -> 0 .. total] : Grown(votes, v) /\ Cast(v) <= total}
    BY DEF Futures
<1> HIDE DEF votes, total
<1>3. votes["yes"] \in Nat /\ votes["no"] \in Nat /\ votes["abstain"] \in Nat
    BY <1>0 DEF Vote
<1>4. /\ rest \in Nat
      /\ votes["yes"] + votes["no"] + votes["abstain"] + rest = total
    BY <1>0, <1>3 DEF Cast
<1> HIDE DEF rest
<1>5. /\ votes["yes"] \in 0 .. total /\ votes["no"] \in 0 .. total
      /\ votes["abstain"] \in 0 .. total
      /\ votes["no"] + rest \in 0 .. total /\ votes["yes"] + rest \in 0 .. total
    BY <1>0, <1>3, <1>4
<1>6. votes \in [Vote -> 0 .. total] /\ Grown(votes, votes)
    BY <1>0, <1>5 DEF Vote, Grown
<1>7. allNo \in [Vote -> 0 .. total] /\ Grown(votes, allNo) /\ Cast(allNo) <= total
    BY <1>0, <1>3, <1>4, <1>5 DEF Vote, Grown, Cast
<1>8. allYes \in [Vote -> 0 .. total] /\ Grown(votes, allYes) /\ Cast(allYes) <= total
    BY <1>0, <1>3, <1>4, <1>5 DEF Vote, Grown, Cast
<1>9. total - votes["abstain"] = votes["yes"] + votes["no"] + rest
    BY <1>0, <1>3, <1>4
<1>10. /\ rest \in Nat
       /\ Options(p) = votes["yes"] + votes["no"] + rest
       /\ votes \in Futures(p) /\ allNo \in Futures(p) /\ allYes \in Futures(p)
  <2> HIDE DEF allNo, allYes
  <2> QED
      BY <1>0, <1>1, <1>2, <1>4, <1>6, <1>7, <1>8, <1>9
<1> QED
    BY <1>10 DEF votes, total, rest, allNo, allYes

\* What passes before the end is accepted whatever else is voted.
LEMMA PassedSure ==
  ASSUME NEW p, Good(p), ExactThreshold(p.threshold),
         NEW t \in Nat, ~Expired(p.expiration, t), IsPassed(p, t)
  PROVE  SureToPass(p)
<1> SUFFICES ASSUME NEW v \in Futures(p)
             PROVE  Accepted(p, v)
    BY DEF SureToPass
<1> DEFINE yes == p.votes["yes"]
           th  == p.threshold
           left == p.total_power - v["abstain"]
<1>0. /\ yes \in Nat /\ Options(p) \in Nat /\ p.total_power \in Nat
      /\ Cast(p.votes) \in Nat /\ yes <= Options(p)
    BY GoodFields
<1>1. /\ v["yes"] \in Nat /\ v["no"] \in Nat /\ yes <= v["yes"]
      /\ Cast(v) \in Nat /\ Cast(p.votes) <= Cast(v)
      /\ v["yes"] + v["no"] \in Nat /\ left \in Nat
      /\ v["yes"] + v["no"] <= left /\ left <= Options(p)
    BY FutureVotes
<1>2. ASSUME NEW pct \in Required, Exact(pct),
             CountPasses(yes, Options(p), pct),
             NEW o \in Nat, v["yes"] <= o, o <= Options(p)
      PROVE  Share(v["yes"], o, pct)
  <2> HIDE DEF yes
  <2>1. pct \in PercentageThreshold
      BY DEF Required
  <2>2. Share(yes, Options(p), pct)
      BY <1>0, <1>2, <2>1, PassesIsShare
  <2>3. Share(v["yes"], Options(p), pct)
      BY <1>0, <1>1, <2>1, <2>2, ShareOfMore
  <2> QED
      BY <1>0, <1>1, <1>2, <2>3, ShareOfFewer
<1>3. CASE th.kind = "AbsolutePercentage"
  <2>1. CountPasses(yes, Options(p), th.percentage)
      BY <1>3 DEF IsPassed, OptionsAt
  <2>2. th.percentage \in Required /\ Exact(th.percentage)
      BY <1>3, GoodFields DEF ExactThreshold
  <2>3. v["yes"] <= left
      BY <1>1
  <2>4. Share(v["yes"], left, th.percentage)
    <3> HIDE DEF yes, th, left
    <3> QED
        BY <1>1, <1>2, <2>1, <2>2, <2>3
  <2> QED
      BY <2>4, <1>3 DEF Accepted
<1>4. CASE th.kind = "ThresholdQuorum"
  <2>1. /\ CountPasses(Cast(p.votes), p.total_power, th.quorum)
        /\ CountPasses(yes, Options(p), th.threshold)
      BY <1>4 DEF IsPassed, QuorumMet, OptionsAt
  <2>2. /\ th.threshold \in Required /\ Exact(th.threshold)
        /\ th.quorum \in PercentageThreshold /\ Exact(th.quorum)
      BY <1>4, GoodFields DEF ExactThreshold
  <2>3. Share(Cast(v), p.total_power, th.quorum)
    <3>1. Share(Cast(p.votes), p.total_power, th.quorum)
        BY <2>1, <2>2, <1>0, PassesIsShare
    <3> QED
        BY <3>1, <2>2, <1>0, <1>1, ShareOfMore
  <2>4. v["yes"] <= v["yes"] + v["no"] /\ v["yes"] + v["no"] <= Options(p)
      BY <1>0, <1>1
  <2>5. Share(v["yes"], v["yes"] + v["no"], th.threshold)
    <3> HIDE DEF yes, th, left
    <3> QED
        BY <1>1, <1>2, <2>1, <2>2, <2>4
  <2> QED
      BY <2>3, <2>5, <1>4 DEF Accepted
<1>5. CASE th.kind = "AbsoluteCount"
  <2>1. yes >= th.threshold /\ th.threshold \in Nat
      BY <1>5, GoodFields DEF IsPassed
  <2>2. v["yes"] >= th.threshold
    <3> HIDE DEF yes, th
    <3> QED
        BY <2>1, <1>0, <1>1
  <2> QED
      BY <2>2, <1>5 DEF Accepted
<1> QED
    BY <1>3, <1>4, <1>5, GoodFields

\* What is accepted even if all the others vote no passes.
LEMMA SurePassed ==
  ASSUME NEW p, Good(p), NEW t \in Nat, ~Expired(p.expiration, t),
         ~Unsettled(p, t), Expired(p.min_voting_period, t), SureToPass(p)
  PROVE  IsPassed(p, t)
<1> DEFINE yes == p.votes["yes"]
           no  == p.votes["no"]
           th  == p.threshold
           rest == p.total_power - Cast(p.votes)
           w == [p.votes EXCEPT !["no"] = no + rest]
<1>0. /\ yes \in Nat /\ no \in Nat /\ Options(p) \in Nat
      /\ Cast(p.votes) \in Nat /\ p.total_power \in Nat
    BY GoodFields
<1>1. /\ rest \in Nat /\ Options(p) = yes + no + rest
      /\ p.votes \in Futures(p) /\ w \in Futures(p)
    BY LastVotes
<1>2. Accepted(p, p.votes) /\ Accepted(p, w)
    BY <1>1 DEF SureToPass
<1>3. /\ w["yes"] = yes /\ w["no"] = no + rest
      /\ w["abstain"] = p.votes["abstain"]
    BY DEF Good, Tallied, Votes, Vote, Uint128
<1>4. CASE th.kind = "AbsolutePercentage"
  <2>1. Share(yes, Options(p), th.percentage)
      BY <1>2, <1>4 DEF Accepted, Options
  <2>2. th.percentage \in PercentageThreshold
      BY <1>4, GoodFields
  <2>3. CountPasses(yes, Options(p), th.percentage)
    <3> HIDE DEF yes, th
    <3> QED
        BY <2>1, <2>2, <1>0, ShareIsPass
  <2> QED
      BY <2>3, <1>4 DEF IsPassed, OptionsAt
<1>5. CASE th.kind = "ThresholdQuorum"
  <2>1. th.threshold \in PercentageThreshold /\ th.quorum \in PercentageThreshold
      BY <1>5, GoodFields
  <2>2. Share(Cast(p.votes), p.total_power, th.quorum)
      BY <1>2, <1>5 DEF Accepted
  <2>3. Share(w["yes"], w["yes"] + w["no"], th.threshold)
      BY <1>2, <1>5 DEF Accepted
  <2>4. Share(yes, Options(p), th.threshold)
    <3>1. w["yes"] + w["no"] = yes + (no + rest)
        BY <1>3
    <3> HIDE DEF yes, no, rest, w
    <3>2. w["yes"] + w["no"] = Options(p)
        BY <3>1, <1>0, <1>1
    <3> QED
        BY <2>3, <3>2, <1>3
  <2>5. CountPasses(Cast(p.votes), p.total_power, th.quorum)
      BY <2>1, <2>2, <1>0, ShareIsPass
  <2>6. CountPasses(yes, Options(p), th.threshold)
    <3> HIDE DEF yes, th
    <3> QED
        BY <2>1, <2>4, <1>0, ShareIsPass
  <2> QED
      BY <2>5, <2>6, <1>5 DEF IsPassed, QuorumMet, OptionsAt
<1>6. CASE th.kind = "AbsoluteCount"
    BY <1>2, <1>6 DEF IsPassed, Accepted
<1> QED
    BY <1>4, <1>5, <1>6, GoodFields

\* What is rejected before the end is not accepted whatever else is voted.
LEMMA RejectedSure ==
  ASSUME NEW p, Good(p), NEW t \in Nat, ~Expired(p.expiration, t), IsRejected(p, t)
  PROVE  SureToFail(p)
<1> SUFFICES ASSUME NEW v \in Futures(p)
             PROVE  ~Accepted(p, v)
    BY DEF SureToFail
<1> DEFINE no == p.votes["no"]
           th == p.threshold
           left == p.total_power - v["abstain"]
<1>0. /\ no \in Nat /\ Options(p) \in Nat /\ p.votes["yes"] \in Nat
      /\ p.votes["yes"] + no <= Options(p)
      /\ p.total_power \in Nat /\ Cast(p.votes) \in Nat
    BY GoodFields
<1>1. /\ v["yes"] \in Nat /\ v["no"] \in Nat /\ no <= v["no"]
      /\ v["yes"] + v["no"] \in Nat /\ left \in Nat
      /\ v["yes"] + v["no"] <= left /\ left <= Options(p)
    BY FutureVotes
<1>2. ASSUME NEW pct \in Required, TooManyNo(no, Options(p), pct),
             NEW o \in Nat, v["yes"] + v["no"] <= o, o <= Options(p)
      PROVE  ~Share(v["yes"], o, pct)
  <2> HIDE DEF no
  <2>1. v["yes"] + no <= o
      BY <1>0, <1>1, <1>2
  <2> QED
      BY <1>0, <1>1, <1>2, <2>1, NoShareLeft
<1>3. CASE th.kind = "AbsolutePercentage"
  <2>1. TooManyNo(no, Options(p), th.percentage) /\ th.percentage \in Required
      BY <1>3, GoodFields DEF IsRejected, OptionsAt
  <2>2. ~Share(v["yes"], left, th.percentage)
    <3> HIDE DEF no, th, left
    <3> QED
        BY <1>1, <1>2, <2>1
  <2> QED
      BY <2>2, <1>3 DEF Accepted
<1>4. CASE th.kind = "ThresholdQuorum"
  <2>1. TooManyNo(no, Options(p), th.threshold) /\ th.threshold \in Required
      BY <1>4, GoodFields DEF IsRejected, OptionsAt
  <2>2. ~Share(v["yes"], v["yes"] + v["no"], th.threshold)
    <3> HIDE DEF no, th, left
    <3>1. /\ v["yes"] + v["no"] <= v["yes"] + v["no"]
          /\ v["yes"] + v["no"] <= Options(p)
        BY <1>0, <1>1
    <3> QED
        BY <1>1, <1>2, <2>1, <3>1
  <2> QED
      BY <2>2, <1>4 DEF Accepted
<1>5. CASE th.kind = "AbsoluteCount"
  <2>1. /\ p.votes["yes"] + (p.total_power - Cast(p.votes)) < th.threshold
        /\ th.threshold \in Nat
      BY <1>5, GoodFields DEF IsRejected
  <2>2. Options(p) = p.votes["yes"] + no + (p.total_power - Cast(p.votes))
      BY LastVotes
  <2>3. ~(v["yes"] >= th.threshold)
    <3> DEFINE yes == p.votes["yes"]
               rest == p.total_power - Cast(p.votes)
    <3>1. yes \in Nat /\ rest \in Int /\ Options(p) = yes + no + rest
        BY <1>0, <2>2
    <3>2. yes + rest < th.threshold
        BY <2>1
    <3> HIDE DEF no, th, yes, rest, left
    <3> QED
        BY <1>0, <1>1, <2>1, <3>1, <3>2
  <2> QED
      BY <2>3, <1>5 DEF Accepted
<1> QED
    BY <1>3, <1>4, <1>5, GoodFields

\* What is not accepted even if all the others vote yes is rejected.
LEMMA SureRejected ==
  ASSUME NEW p, Good(p), NEW t \in Nat, ~Expired(p.expiration, t),
         ~Unsettled(p, t), SureToFail(p)
  PROVE  IsRejected(p, t)
<1> DEFINE yes == p.votes["yes"]
           no  == p.votes["no"]
           th  == p.threshold
           rest == p.total_power - Cast(p.votes)
           w == [p.votes EXCEPT !["yes"] = yes + rest]
<1>0. /\ yes \in Nat /\ no \in Nat /\ Options(p) \in Nat
      /\ Cast(p.votes) \in Nat /\ p.total_power \in Nat
      /\ p.votes["abstain"] \in Nat
    BY GoodFields
<1>1. rest \in Nat /\ Options(p) = yes + no + rest /\ w \in Futures(p)
    BY LastVotes
<1>2. ~Accepted(p, w)
    BY <1>1 DEF SureToFail
<1>3. /\ w["yes"] = yes + rest /\ w["no"] = no
      /\ w["abstain"] = p.votes["abstain"]
    BY DEF Good, Tallied, Votes, Vote, Uint128
<1>4. ASSUME NEW pct \in Required, ~Share(w["yes"], Options(p), pct)
      PROVE  TooManyNo(no, Options(p), pct)
  <2> HIDE DEF yes, no, rest, w
  <2>1. no <= Options(p) /\ w["yes"] = Options(p) - no
      BY <1>0, <1>1, <1>3
  <2> QED
      BY <1>0, <1>4, <2>1, TooManyLeft
<1>5. CASE th.kind = "AbsolutePercentage"
  <2>1. ~Share(w["yes"], Options(p), th.percentage)
      BY <1>2, <1>3, <1>5 DEF Accepted, Options
  <2>2. th.percentage \in Required
      BY <1>5, GoodFields
  <2>3. TooManyNo(no, Options(p), th.percentage)
      BY <1>4, <2>1, <2>2
  <2> QED
      BY <2>3, <1>5 DEF IsRejected, OptionsAt
<1>6. CASE th.kind = "ThresholdQuorum"
  <2>1. th.threshold \in Required /\ th.quorum \in PercentageThreshold
      BY <1>6, GoodFields
  <2>2. /\ w["yes"] + w["no"] = Options(p)
        /\ Cast(w) = p.total_power
    <3>1. Cast(w) = w["yes"] + w["no"] + w["abstain"]
        BY DEF Cast
    <3>2. Options(p) = p.total_power - p.votes["abstain"]
        BY DEF Options
    <3> HIDE DEF yes, no, rest, w
    <3> QED
        BY <1>0, <1>1, <1>3, <3>1, <3>2
  <2>3. ~Share(p.total_power, p.total_power, th.quorum) \/ ~Share(w["yes"], Options(p), th.threshold)
      BY <1>2, <1>6, <2>2 DEF Accepted
  <2>4. TooManyNo(no, Options(p), th.threshold)
    <3>1. CASE p.total_power = 0
      <4>1. Options(p) = 0
          BY <3>1, <1>0 DEF Options
      <4> QED
          BY <4>1 DEF TooManyNo, CountFails
    <3>2. CASE p.total_power # 0
      <4>1. Share(p.total_power, p.total_power, th.quorum)
          BY <3>2, <2>1, <1>0, AllIsShare
      <4> QED
          BY <4>1, <2>1, <2>3, <1>4
    <3> QED
        BY <3>1, <3>2
  <2> QED
      BY <2>4, <1>6 DEF IsRejected, OptionsAt
<1>7. CASE th.kind = "AbsoluteCount"
  <2>1. th.threshold \in Nat /\ ~(w["yes"] >= th.threshold)
      BY <1>2, <1>7, GoodFields DEF Accepted
  <2>2. yes + rest < th.threshold
    <3> HIDE DEF yes, rest, w, th
    <3> QED
        BY <1>0, <1>1, <1>3, <2>1
  <2> QED
      BY <2>2, <1>7 DEF IsRejected
<1> QED
    BY <1>5, <1>6, <1>7, GoodFields

(* is_passed answers yes before the end exactly when nothing that may be   *)
(* voted can undo it, and at the end exactly when the votes are accepted:  *)
(* not a vote too early and not a vote too late, for every threshold that  *)
(* is compared without rounding, of votes within the total power.          *)
THEOREM PassedWhenSure == LCSpec => []PassedIsSure
<1>1. Inv => PassedIsSure
  <2> SUFFICES ASSUME Inv, Sound, Exactly, ~Unsettled(prop, now),
                      Expired(prop.min_voting_period, now)
               PROVE  IsPassed(prop, now) <=>
                        IF Expired(prop.expiration, now)
                        THEN Accepted(prop, prop.votes)
                        ELSE SureToPass(prop)
      BY DEF PassedIsSure
  <2>1. Good(prop) /\ now \in Nat /\ ExactThreshold(prop.threshold)
      BY WholeGood DEF Inv, Sane, Sound, Exactly
  <2>2. CASE Expired(prop.expiration, now)
      BY <2>1, <2>2, PassedAccepted, AcceptedPassed
  <2>3. CASE ~Expired(prop.expiration, now)
      BY <2>1, <2>3, PassedSure, SurePassed
  <2> QED
      BY <2>2, <2>3
<1> QED
    BY <1>1, DecisionsAreRight, PTL

(* is_rejected answers yes before the end exactly when nothing that may be *)
(* voted can make the proposal pass, for every threshold, also where the   *)
(* wanted amount is rounded; of votes within the total power.              *)
THEOREM RejectedWhenSure == LCSpec => []RejectedIsSure
<1>1. Inv => RejectedIsSure
    BY RejectedSure, SureRejected, WholeGood DEF Inv, Sane, Sound, RejectedIsSure
<1> QED
    BY <1>1, DecisionsAreRight, PTL
=============================================================================
