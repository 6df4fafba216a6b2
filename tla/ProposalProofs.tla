--------------------------- MODULE ProposalProofs ---------------------------
(***************************************************************************)
(* Proofs about Proposal, for any members, answers of the voting module,   *)
(* thresholds, messages, hooks and bounds.  What holds of the votes and of *)
(* the deposits rests on one invariant, CoreInv: the tally of an option is *)
(* the sum of what the ballots for it say; a ballot has the power that its *)
(* voter is answered to have had at the start of the proposal, unless the  *)
(* answer has changed within that block, which outdated remembers; the     *)
(* deposits that are outstanding are held.                                 *)
(*                                                                         *)
(* Nothing in it bounds the votes by the total power: the voting module    *)
(* answers both, and where its total covers the powers (Covered), the      *)
(* votes for the options, being of different voters, stay within it.  The  *)
(* life cycle of a proposal needs no such bound.                           *)
(*                                                                         *)
(* At the end: the hooks, and the lists of the votes.  What is read by     *)
(* pages shows its keys in ascending order, so each of those that are      *)
(* there all the time once, and what the votes of a list add up to is a    *)
(* sum over the voters it shows.                                           *)
(***************************************************************************)
EXTENDS Proposal, SumProofs, SequenceTheorems

\* The types of what the voting module answers, and of what is around.
AnswersTyped ==
  /\ height \in InitHeight .. MaxHeight
  /\ answer \in Answer
  /\ past \in [InitHeight .. height - 1 -> [Address -> Uint128]]
  /\ broken \subseteq Receiver
  /\ outdated \subseteq Ids

\* The types of what the contract stores; the hooks are left to the end.
StateTyped ==
  /\ config \in Config /\ config.min_voting_period <= config.max_voting_period
  /\ allowed \subseteq Address
  /\ proposals \in Seq(ProposalRecord)
  /\ DOMAIN ballots \subseteq Ids \X Address
  /\ ballots \in [DOMAIN ballots -> [power : Uint128, vote : Vote]]
  /\ held \in [Token -> Nat]

CoreTyped == AnswersTyped /\ StateTyped

\* What a proposal keeps of its making.
MadeAt(p) ==
  /\ p.start_height \in InitHeight .. height
  /\ p.min_voting_period <= p.expiration

MadeRight == \A id \in Ids : MadeAt(proposals[id])

\* The ballot k says what is answered.
BallotRight(k) == ballots[k].power = PowerOf(proposals[k[1]], k[2])

BallotsRight == \A k \in DOMAIN ballots : k[1] \notin outdated => BallotRight(k)

\* Who has voted one way on a proposal, and the power of each ballot on it.
VotersFor(bs, id, o) ==
  {a \in Address : <<id, a>> \in DOMAIN bs /\ bs[<<id, a>>].vote = o}

PowerIn(bs, id) ==
  [a \in Address |-> IF <<id, a>> \in DOMAIN bs THEN bs[<<id, a>>].power ELSE 0]

\* The votes are the sums of what the ballots say.
AddUp(votes, bs, id) ==
  \A o \in Vote : votes[o] = SumFunctionOnSet(PowerIn(bs, id), VotersFor(bs, id, o))

TallyAddsUp == \A id \in Ids : AddUp(proposals[id].votes, ballots, id)

CoreInv ==
  CoreTyped /\ MadeRight /\ BallotsRight /\ TallyAddsUp /\ DepositsBacked


-----------------------------------------------------------------------------
(* Configurations.                                                         *)

LEMMA ConfigTyped ==
  ASSUME NEW c \in Configs, ValidConfig(c)
  PROVE  /\ Configured(c) \in Config
         /\ Configured(c).min_voting_period <= Configured(c).max_voting_period
<1> DEFINE AnyToken == Token \cup Address \cup {VotingModuleToken}
           info == IntoChecked(c.deposit_info)
<1>1. c \in ConfigWith(AnyToken)
    BY ProposalAssumption
<1>2. c.deposit_info \in DepositInfo(AnyToken)
    BY <1>1 DEF ConfigWith
<1>3. info \in DepositInfo(Token)
  <2>1. info.token \in Token
      BY DEF ValidConfig
  <2>2. /\ info.deposit = c.deposit_info.deposit
        /\ info.refund_failed_proposals = c.deposit_info.refund_failed_proposals
        /\ info = [token |-> info.token, deposit |-> info.deposit,
                   refund_failed_proposals |-> info.refund_failed_proposals]
      BY <1>2 DEF IntoChecked, DepositInfo
  <2>3. /\ c.deposit_info.deposit \in Nat
        /\ c.deposit_info.refund_failed_proposals \in BOOLEAN
      BY <1>2 DEF DepositInfo
  <2> HIDE DEF info
  <2> QED
      BY <2>1, <2>2, <2>3 DEF DepositInfo
<1>4. Configured(c) = [c EXCEPT !.deposit_info = info]
    BY DEF Configured
<1>5. c.min_voting_period <= c.max_voting_period
    BY DEF ValidConfig
<1> HIDE DEF info
<1> QED
    BY <1>1, <1>3, <1>4, <1>5 DEF Config, ConfigWith

(* What the messages of the DAO make of a configuration and of the list of *)
(* addresses that may propose.                                             *)
LEMMA CalledTyped ==
  ASSUME CoreTyped, NEW m \in Message, NEW after \in Called(Admin, m)
  PROVE  /\ after.config \in Config /\ after.allowed \subseteq Address
         /\ after.config.min_voting_period <= after.config.max_voting_period
<1>1. /\ Admin.config \in Config /\ Admin.allowed \subseteq Address
      /\ Admin.config.min_voting_period <= Admin.config.max_voting_period
    BY DEF CoreTyped, StateTyped, Admin
<1>2. Admin = [config |-> Admin.config, allowed |-> Admin.allowed, hooks |-> Admin.hooks]
    BY DEF Admin
<1> DEFINE adm == Admin
<1>3. /\ adm.config \in Config /\ adm.allowed \subseteq Address
      /\ adm.config.min_voting_period <= adm.config.max_voting_period
      /\ adm = [config |-> adm.config, allowed |-> adm.allowed, hooks |-> adm.hooks]
      /\ after \in Called(adm, m)
    BY <1>1, <1>2
<1> HIDE DEF adm
<1>4. CASE m.call = "none"
    BY <1>3, <1>4 DEF Called
<1>5. CASE m.call = "update_config"
  <2>1. m.config \in Configs
      BY <1>5 DEF Message, NoMessage
  <2>2. after \in UpdateConfig(adm, m.config)
      BY <1>3, <1>5 DEF Called
  <2>3. ValidConfig(m.config) /\ after = [adm EXCEPT !.config = Configured(m.config)]
      BY <2>2 DEF UpdateConfig, When
  <2>4. /\ Configured(m.config) \in Config
        /\ Configured(m.config).min_voting_period <= Configured(m.config).max_voting_period
      BY <2>1, <2>3, ConfigTyped
  <2> QED
      BY <1>3, <2>3, <2>4
<1>6. CASE m.call \in {"add_proposal_hook", "add_vote_hook"}
  <2>1. \E list \in {"proposal", "vote"} : after \in AddHookTo(adm, list, m.receiver)
      BY <1>3, <1>6 DEF Called
  <2>2. \E list \in {"proposal", "vote"} :
          after = [adm EXCEPT !.hooks[list] = AddHook(@, m.receiver)]
      BY <2>1 DEF AddHookTo, When
  <2> QED
      BY <1>3, <2>2
<1>7. CASE m.call \in {"remove_proposal_hook", "remove_vote_hook"}
  <2>1. \E list \in {"proposal", "vote"} : after \in RemoveHookFrom(adm, list, m.receiver)
      BY <1>3, <1>7 DEF Called
  <2>2. \E list \in {"proposal", "vote"} :
          after = [adm EXCEPT !.hooks[list] = RemoveHook(@, m.receiver)]
      BY <2>1 DEF RemoveHookFrom, When
  <2> QED
      BY <1>3, <2>2
<1>8. CASE m.call = "allow"
  <2>1. m.address \in Address
      BY <1>8 DEF Message, NoMessage
  <2>2. after \in RegisterAllowed(adm, m.address)
      BY <1>3, <1>8 DEF Called
  <2>3. after = [adm EXCEPT !.allowed = @ \cup {m.address}]
      BY <2>2 DEF RegisterAllowed, When
  <2> QED
      BY <1>3, <2>1, <2>3
<1>9. CASE m.call = "disallow"
  <2>1. after \in DeregisterAllowed(adm, m.address)
      BY <1>3, <1>9 DEF Called
  <2>2. after = [adm EXCEPT !.allowed = @ \ {m.address}]
      BY <2>1 DEF DeregisterAllowed, When
  <2> QED
      BY <1>3, <2>2
<1>10. m.call \in {"none", "update_config", "add_proposal_hook", "add_vote_hook",
                   "remove_proposal_hook", "remove_vote_hook", "allow", "disallow"}
    BY DEF Message, NoMessage
<1> QED
    BY <1>4, <1>5, <1>6, <1>7, <1>8, <1>9, <1>10

-----------------------------------------------------------------------------
(* Records and their status.                                               *)

LEMMA RecordFields ==
  ASSUME NEW p \in ProposalRecord
  PROVE  /\ p.threshold \in Threshold /\ p.votes \in [Vote -> Nat]
         /\ p.votes \in Votes /\ p.total_power \in Uint128
         /\ p.total_power \in Nat /\ p.status \in Status
         /\ p.allow_revoting \in BOOLEAN /\ p.min_voting_period \in Nat
         /\ p.expiration \in Nat /\ p.proposer \in Address /\ p.start_height \in Nat
         /\ p.msgs \in Message /\ p.deposit_info \in DepositInfo(Token)
<1>1. MaxUint \in Nat
    BY TallyAssumption
<1> QED
    BY <1>1 DEF ProposalRecord, Votes, Uint128

LEMMA StatusMoves ==
  ASSUME NEW p, NEW n
  PROVE  /\ p.status # "open" => CurrentStatus(p, n) = p.status
         /\ p.status = "open" => CurrentStatus(p, n) \in {"open", "passed", "rejected"}
         /\ CurrentStatus(p, n) = "open" => p.status = "open"
         /\ CurrentStatus(p, n) = "passed" => p.status \in {"open", "passed"}
         /\ CurrentStatus(p, n) = "rejected" => p.status \in {"open", "rejected"}
         /\ p.status \in Status => CurrentStatus(p, n) \in Status
BY DEF CurrentStatus, Status

LEMMA ProposalTyped ==
  ASSUME CoreTyped, NEW id \in Ids
  PROVE  /\ proposals[id] \in ProposalRecord
         /\ id \in 1 .. Len(proposals) /\ Len(proposals) \in Nat
<1>1. proposals \in Seq(ProposalRecord)
    BY DEF CoreTyped, StateTyped
<1> QED
    BY <1>1 DEF Ids

\* One proposal of the list is written again.
LEMMA Rewritten ==
  ASSUME CoreTyped, NEW id \in Ids, NEW rec \in ProposalRecord,
         proposals' = [proposals EXCEPT ![id] = rec]
  PROVE  /\ proposals' \in Seq(ProposalRecord)
         /\ DOMAIN proposals' = Ids
         /\ proposals'[id] = rec
         /\ \A j \in Ids : j # id => proposals'[j] = proposals[j]
<1>1. proposals \in Seq(ProposalRecord) /\ id \in 1 .. Len(proposals)
    BY ProposalTyped DEF CoreTyped, StateTyped
<1>2. proposals' \in Seq(ProposalRecord)
    BY <1>1, ExceptSeq
<1> QED
    BY <1>1, <1>2 DEF Ids

-----------------------------------------------------------------------------
(* Votes.                                                                  *)

LEMMA BallotsTyped ==
  ASSUME CoreTyped, NEW id
  PROVE  /\ IsFiniteSet(Address)
         /\ \A a \in Address : PowerIn(ballots, id)[a] \in Nat
<1>1. IsFiniteSet(Address) /\ MaxUint \in Nat
    BY ProposalAssumption, TallyAssumption
<1>2. \A k \in DOMAIN ballots : ballots[k].power \in Nat
    BY <1>1 DEF CoreTyped, StateTyped, Uint128
<1> QED
    BY <1>1, <1>2 DEF PowerIn

\* The powers that are answered.
LEMMA PowerTyped ==
  ASSUME AnswersTyped, NEW p, MadeAt(p)
  PROVE  /\ PowerAt(p.start_height) \in [Address -> Uint128]
         /\ PowerAt(p.start_height) \in [Address -> Nat]
<1>1. /\ height \in Nat /\ InitHeight \in Nat /\ MaxUint \in Nat
    BY ProposalAssumption, TallyAssumption DEF AnswersTyped
<1>2. PowerAt(p.start_height) \in [Address -> Uint128]
  <2>1. CASE p.start_height = height
      BY <2>1 DEF PowerAt, AnswersTyped, Answer
  <2>2. CASE p.start_height # height
    <3>1. p.start_height \in InitHeight .. height - 1
        BY <1>1, <2>2 DEF MadeAt
    <3> QED
        BY <2>2, <3>1 DEF PowerAt, AnswersTyped
  <2> QED
      BY <2>1, <2>2
<1> QED
    BY <1>1, <1>2 DEF Uint128

\* Who votes one way does not vote another: what is cast is the power of all
\* who have voted.
HasVoted(bs, id) == {a \in Address : <<id, a>> \in DOMAIN bs}

LEMMA CastIsSum ==
  ASSUME CoreInv, NEW id \in Ids
  PROVE  Cast(proposals[id].votes)
           = SumFunctionOnSet(PowerIn(ballots, id), HasVoted(ballots, id))
<1> DEFINE p == proposals[id]
           f == PowerIn(ballots, id)
           Y == VotersFor(ballots, id, "yes")
           N == VotersFor(ballots, id, "no")
           A == VotersFor(ballots, id, "abstain")
<1>1. /\ IsFiniteSet(Address) /\ \A a \in Address : f[a] \in Nat
      /\ \A vs \in SUBSET Address : IsFiniteSet(vs)
    BY BallotsTyped, FS_Subset DEF CoreInv
<1>2. /\ Y \in SUBSET Address /\ N \in SUBSET Address /\ A \in SUBSET Address
      /\ Y \cap N = {} /\ (Y \cup N) \cap A = {}
    BY DEF VotersFor
<1>3. HasVoted(ballots, id) = (Y \cup N) \cup A
  <2>1. \A k \in DOMAIN ballots : ballots[k].vote \in {"yes", "no", "abstain"}
      BY DEF CoreInv, CoreTyped, StateTyped, Vote
  <2> QED
      BY <2>1 DEF HasVoted, VotersFor
<1>4. /\ p.votes["yes"] = SumFunctionOnSet(f, Y)
      /\ p.votes["no"] = SumFunctionOnSet(f, N)
      /\ p.votes["abstain"] = SumFunctionOnSet(f, A)
    BY DEF CoreInv, TallyAddsUp, AddUp, Vote
<1> SUFFICES Cast(p.votes) = SumFunctionOnSet(f, (Y \cup N) \cup A)
    BY <1>3
<1> HIDE DEF f, Y, N, A, p
<1>5. SumFunctionOnSet(f, Y \cup N) = SumFunctionOnSet(f, Y) + SumFunctionOnSet(f, N)
    BY <1>1, <1>2, SumOfDisjoint
<1>6. SumFunctionOnSet(f, (Y \cup N) \cup A)
        = SumFunctionOnSet(f, Y \cup N) + SumFunctionOnSet(f, A)
  <2>1. Y \cup N \in SUBSET Address
      BY <1>2
  <2> QED
      BY <1>1, <1>2, <2>1, SumOfDisjoint
<1> QED
    BY <1>4, <1>5, <1>6 DEF Cast

\* With no more cast than the total power nothing overflows or underflows.
LEMMA StatusIsDefined ==
  ASSUME NEW p \in ProposalRecord, Within(p), NEW n
  PROVE  StatusDefined(p, n)
<1>1. /\ p.votes["yes"] \in Nat /\ p.votes["no"] \in Nat /\ p.votes["abstain"] \in Nat
      /\ p.total_power \in Nat /\ p.total_power <= MaxUint /\ MaxUint \in Nat
    BY RecordFields, TallyAssumption DEF Vote, Votes, Uint128
<1>2. /\ OptionsAt(p, n) >= 0 /\ Options(p) >= 0
      /\ Cast(p.votes) <= p.total_power /\ Cast(p.votes) <= MaxUint
    BY <1>1 DEF OptionsAt, Options, Cast, Within
<1>3. p.threshold.kind \in {"AbsolutePercentage", "ThresholdQuorum", "AbsoluteCount"}
    BY RecordFields DEF Threshold
<1> QED
    BY <1>2, <1>3 DEF StatusDefined, PassedDefined, RejectedDefined

\* A ballot of power x, for one that is there already or for none.
BallotCounted(id, sender, old, new) ==
  LET bs == Put(ballots, <<id, sender>>, new)
  IN  \A o \in Vote :
        /\ VotesAfter(proposals[id].votes, old, new)[o] \in Nat
        /\ VotesAfter(proposals[id].votes, old, new)[o]
             = SumFunctionOnSet(PowerIn(bs, id), VotersFor(bs, id, o))

LEMMA VoteCounted ==
  ASSUME CoreInv, NEW sender \in Address, NEW id \in Ids, NEW vote \in Vote, NEW x \in Nat,
         NEW new, new = [power |-> x, vote |-> vote],
         NEW old, old = {ballots[k] : k \in DOMAIN ballots \cap {<<id, sender>>}}
  PROVE  BallotCounted(id, sender, old, new)
<1> SUFFICES ASSUME NEW o \in Vote
             PROVE  /\ VotesAfter(proposals[id].votes, old, new)[o] \in Nat
                    /\ VotesAfter(proposals[id].votes, old, new)[o]
                         = SumFunctionOnSet(PowerIn(Put(ballots, <<id, sender>>, new), id),
                                            VotersFor(Put(ballots, <<id, sender>>, new), id, o))
    BY DEF BallotCounted
<1> DEFINE votes == proposals[id].votes
           bs == Put(ballots, <<id, sender>>, new)
           f == PowerIn(ballots, id)
           g == PowerIn(bs, id)
           V == VotersFor(ballots, id, o)
           W == VotersFor(bs, id, o)
           m == SaidFor(old, o)
           b == ballots[<<id, sender>>]
<1>1. /\ DOMAIN bs = DOMAIN ballots \cup {<<id, sender>>} /\ bs[<<id, sender>>] = new
      /\ \A k \in DOMAIN ballots : k # <<id, sender>> => bs[k] = ballots[k]
      /\ new.power = x /\ new.vote = vote
    BY DEF Put
<1>2. IsFiniteSet(Address) /\ \A a \in Address : f[a] \in Nat
    BY BallotsTyped DEF CoreInv
<1>3. g[sender] = x /\ \A a \in Address : a # sender => g[a] = f[a]
    BY <1>1 DEF PowerIn
<1>4. \A a \in Address : g[a] \in Nat
    BY <1>2, <1>3
<1>5. V \in SUBSET Address /\ W \in SUBSET Address
    BY DEF VotersFor
<1>6. W = IF vote = o THEN V \cup {sender} ELSE V \ {sender}
  <2>1. \A a \in Address : a \in W <=> IF a = sender THEN vote = o ELSE a \in V
      BY <1>1 DEF VotersFor
  <2> QED
      BY <1>5, <2>1
<1>7. m = IF sender \in V THEN f[sender] ELSE 0
  <2>1. CASE <<id, sender>> \notin DOMAIN ballots
    <3>1. old = {} /\ sender \notin V
        BY <2>1 DEF VotersFor
    <3> QED
        BY <3>1, NothingSaid
  <2>2. CASE <<id, sender>> \in DOMAIN ballots
    <3>1. old = {b} /\ f[sender] = b.power /\ (sender \in V <=> b.vote = o)
        BY <2>2 DEF VotersFor, PowerIn
    <3>2. b.power \in Nat
        BY <1>2, <3>1
    <3> HIDE DEF b, f, V
    <3> QED
        BY <3>1, <3>2, OneSays
  <2> QED
      BY <2>1, <2>2
<1>8. votes[o] = SumFunctionOnSet(f, V)
    BY DEF CoreInv, TallyAddsUp, AddUp
<1>9. VotesAfter(votes, old, new)[o] = votes[o] - m + (IF vote = o THEN x ELSE 0)
    BY <1>1 DEF VotesAfter, SaidFor
<1> HIDE DEF f, g, V, W, m, b, bs, votes
<1>10. /\ SumFunctionOnSet(f, V) \in Nat
       /\ SumFunctionOnSet(g, V \ {sender})
            = SumFunctionOnSet(f, V) - (IF sender \in V THEN f[sender] ELSE 0)
       /\ SumFunctionOnSet(g, V \cup {sender})
            = SumFunctionOnSet(f, V) - (IF sender \in V THEN f[sender] ELSE 0) + g[sender]
  <2>1. \A a \in Address : a # sender => g[a] = f[a]
      BY <1>3
  <2>2. TermMoved(f, g, V, sender)
      BY <1>2, <1>4, <1>5, <2>1, BallotMoves, Zenon
  <2> QED
      BY <2>2 DEF TermMoved
<1>11. SumFunctionOnSet(g, W) \in Nat
  <2>1. IsFiniteSet(W)
      BY <1>2, <1>5, FS_Subset
  <2>2. \A a \in W : g[a] \in Nat
      BY <1>4, <1>5
  <2> QED
      BY <2>1, <2>2, SumIsNat
<1>12. f[sender] \in Nat
    BY <1>2
<1>13. VotesAfter(votes, old, new)[o] = SumFunctionOnSet(g, W)
  <2>1. CASE vote = o
      BY <1>3, <1>6, <1>7, <1>8, <1>9, <1>10, <1>12, <2>1
  <2>2. CASE vote # o
      BY <1>3, <1>6, <1>7, <1>8, <1>9, <1>10, <1>12, <2>2
  <2> QED
      BY <2>1, <2>2
<1> QED
    BY <1>11, <1>13 DEF votes, g, W, bs


-----------------------------------------------------------------------------
(* Deposits.                                                               *)

\* What is outstanding of token t, for each of the proposals ps.
Owed(ps, t) ==
  [id \in DOMAIN ps |-> IF ps[id].deposit_info.token = t THEN Outstanding(ps[id]) ELSE 0]

LEMMA OutstandingTyped ==
  ASSUME NEW p \in ProposalRecord
  PROVE  Outstanding(p) \in Nat /\ p.deposit_info.token \in Token
<1>1. p.deposit_info.deposit \in Nat /\ p.deposit_info.token \in Token
    BY RecordFields DEF DepositInfo
<1> QED
    BY <1>1 DEF Outstanding

LEMMA OwedTyped ==
  ASSUME NEW ps \in Seq(ProposalRecord), NEW t \in Token
  PROVE  /\ IsFiniteSet(DOMAIN ps)
         /\ \A id \in DOMAIN ps : Owed(ps, t)[id] \in Nat
<1>1. IsFiniteSet(DOMAIN ps)
  <2>1. DOMAIN ps = 1 .. Len(ps) /\ Len(ps) \in Nat
      OBVIOUS
  <2> QED
      BY <2>1, FS_Interval
<1>2. ASSUME NEW id \in DOMAIN ps
      PROVE  Owed(ps, t)[id] \in Nat
  <2>1. ps[id] \in ProposalRecord
      OBVIOUS
  <2>2. Outstanding(ps[id]) \in Nat
      BY <2>1, OutstandingTyped
  <2> QED
      BY <2>2 DEF Owed
<1> QED
    BY <1>1, <1>2

LEMMA OwedIsSum ==
  ASSUME NEW ps \in Seq(ProposalRecord), NEW t \in Token
  PROVE  SumFunction([id \in {i \in DOMAIN ps : ps[i].deposit_info.token = t} |->
                        Outstanding(ps[id])])
           = SumFunctionOnSet(Owed(ps, t), DOMAIN ps)
<1> DEFINE T == {i \in DOMAIN ps : ps[i].deposit_info.token = t}
           g == [id \in T |-> Outstanding(ps[id])]
           h == Owed(ps, t)
<1>1. IsFiniteSet(DOMAIN ps) /\ IsFiniteSet(T) /\ T \in SUBSET DOMAIN ps
    BY OwedTyped, FS_Subset
<1>2. \A id \in DOMAIN ps : h[id] \in Nat
    BY OwedTyped
<1>3. \A id \in T : g[id] = h[id]
    BY DEF Owed
<1>4. \A id \in DOMAIN ps \ T : h[id] = 0
    BY DEF Owed
<1>5. DOMAIN g = T
    OBVIOUS
<1> SUFFICES SumFunction(g) = SumFunctionOnSet(h, DOMAIN ps)
    OBVIOUS
<1> HIDE DEF g, h, T
<1>6. SumFunctionOnSet(g, T) = SumFunctionOnSet(h, T)
    BY <1>1, <1>3, SumOfSame
<1>7. SumFunctionOnSet(h, DOMAIN ps) = SumFunctionOnSet(h, T)
  <2> DEFINE D == DOMAIN ps
  <2>1. \A id \in D : h[id] \in Int
      BY <1>2
  <2> HIDE DEF D
  <2> QED
      BY <1>1, <1>4, <2>1, SumOutside DEF D
<1> QED
    BY <1>5, <1>6, <1>7 DEF SumFunction

\* The deposit of one proposal goes from what it was to what it is now.
LEMMA OwedOfOne ==
  ASSUME NEW ps \in Seq(ProposalRecord), NEW qs \in Seq(ProposalRecord),
         NEW id \in DOMAIN ps, DOMAIN qs = DOMAIN ps,
         \A j \in DOMAIN ps : j # id => qs[j] = ps[j],
         qs[id].deposit_info = ps[id].deposit_info,
         NEW t \in Token
  PROVE  SumFunctionOnSet(Owed(qs, t), DOMAIN qs)
           = SumFunctionOnSet(Owed(ps, t), DOMAIN ps)
               - (IF ps[id].deposit_info.token = t
                  THEN Outstanding(ps[id]) - Outstanding(qs[id]) ELSE 0)
<1> DEFINE f == Owed(ps, t)
           g == Owed(qs, t)
           D == DOMAIN ps
           d == IF ps[id].deposit_info.token = t
                THEN Outstanding(ps[id]) - Outstanding(qs[id]) ELSE 0
<1>1. IsFiniteSet(D) /\ id \in D /\ D = DOMAIN qs
    BY OwedTyped
<1>2. \A j \in D : f[j] \in Nat
    BY OwedTyped
<1>3. g[id] \in Nat
    BY OwedTyped
<1>4. \A j \in D \ {id} : g[j] = f[j]
    BY DEF Owed
<1>5. f[id] - g[id] = d
  <2>1. ps[id] \in ProposalRecord /\ qs[id] \in ProposalRecord
      OBVIOUS
  <2>2. Outstanding(ps[id]) \in Nat /\ Outstanding(qs[id]) \in Nat
      BY <2>1, OutstandingTyped
  <2> QED
      BY <2>2 DEF Owed
<1> SUFFICES SumFunctionOnSet(g, D) = SumFunctionOnSet(f, D) - d
    BY <1>1
<1> HIDE DEF f, g, D, d
<1>6. SumFunctionOnSet(g, D) = SumFunctionOnSet(f, D) - f[id] + g[id]
  <2>1. \A j \in D : f[j] \in Int
      BY <1>2
  <2> QED
      BY <1>1, <1>3, <1>4, <2>1, SumOfChanged
<1>7. SumFunctionOnSet(f, D) \in Nat /\ f[id] \in Nat
    BY <1>1, <1>2, SumIsNat
<1> QED
    BY <1>3, <1>5, <1>6, <1>7

\* A proposal more brings its deposit.
LEMMA OwedOfMore ==
  ASSUME NEW ps \in Seq(ProposalRecord), NEW p \in ProposalRecord, NEW t \in Token
  PROVE  SumFunctionOnSet(Owed(Append(ps, p), t), DOMAIN Append(ps, p))
           = SumFunctionOnSet(Owed(ps, t), DOMAIN ps)
               + (IF p.deposit_info.token = t THEN Outstanding(p) ELSE 0)
<1> DEFINE qs == Append(ps, p)
           n == Len(ps) + 1
           D == DOMAIN ps
           f == Owed(ps, t)
           g == Owed(qs, t)
<1>1. /\ qs \in Seq(ProposalRecord) /\ DOMAIN qs = D \cup {n} /\ n \notin D
      /\ qs[n] = p /\ \A i \in D : qs[i] = ps[i]
    OBVIOUS
<1>2. IsFiniteSet(D) /\ \A i \in D : f[i] \in Nat
    BY OwedTyped
<1>3. \A i \in DOMAIN qs : g[i] \in Nat
    BY <1>1, OwedTyped
<1> HIDE DEF qs, n
<1>4. g[n] = (IF p.deposit_info.token = t THEN Outstanding(p) ELSE 0)
    BY <1>1 DEF Owed
<1>5. \A i \in D : g[i] = f[i]
    BY <1>1 DEF Owed
<1> HIDE DEF f, g, D
<1>6. SumFunctionOnSet(g, D) = SumFunctionOnSet(f, D)
    BY <1>2, <1>5, SumOfSame
<1>7. SumFunctionOnSet(g, D \cup {n}) = g[n] + SumFunctionOnSet(g, D)
  <2>1. \A i \in D \cup {n} : g[i] \in Int
      BY <1>1, <1>3
  <2> QED
      BY <1>1, <1>2, <2>1, SumWith
<1>8. SumFunctionOnSet(f, D) \in Nat /\ g[n] \in Nat
    BY <1>1, <1>2, <1>3, SumIsNat
<1>9. SumFunctionOnSet(g, DOMAIN qs) = SumFunctionOnSet(f, D) + g[n]
    BY <1>1, <1>6, <1>7, <1>8
<1> QED
    BY <1>4, <1>9 DEF f, g, D, qs

LEMMA BackedNow ==
  ASSUME CoreInv, NEW t \in Token
  PROVE  held[t] = SumFunctionOnSet(Owed(proposals, t), DOMAIN proposals)
BY OwedIsSum DEF CoreInv, CoreTyped, StateTyped, DepositsBacked, Ids

-----------------------------------------------------------------------------
(* The steps.  What a transaction does to the proposals and the ballots is *)
(* one thing, Kept, and what the voting module answers meanwhile another.  *)

\* No proposal and no ballot is ever taken away, and a ballot that is written
\* again has the same power, unless that was answered otherwise meanwhile.
KeepsVotes ==
  /\ \A id \in Ids : id \in Ids'
  /\ \A k \in DOMAIN ballots :
       /\ k \in DOMAIN ballots'
       /\ k[1] \notin outdated => ballots'[k].power = ballots[k].power

\* Every ballot says what is answered before the step.
BallotsSaid ==
  \A k \in DOMAIN ballots' :
    k[1] \notin outdated =>
      ballots'[k].power = PowerAt(proposals'[k[1]].start_height)[k[2]]

Kept ==
  /\ StateTyped'
  /\ \A id \in Ids' : MadeAt(proposals'[id])
  /\ KeepsVotes /\ BallotsSaid /\ TallyAddsUp' /\ DepositsBacked'

LEMMA BlockKeeps ==
  ASSUME CoreInv, Kept, SameBlock, broken' \subseteq Receiver
  PROVE  CoreInv'
<1>1. /\ height' = height /\ past' = past /\ answer' \in Answers
      /\ outdated' = outdated \cup Outdating
    BY DEF SameBlock
<1>2. AnswersTyped'
  <2>1. answer' \in Answer
      BY <1>1, ProposalAssumption
  <2>2. outdated' \subseteq Ids'
      BY <1>1 DEF Outdating, Kept, KeepsVotes, CoreInv, CoreTyped, AnswersTyped, Ids
  <2> QED
      BY <1>1, <2>1, <2>2 DEF CoreInv, CoreTyped, AnswersTyped
<1>3. MadeRight'
    BY <1>1 DEF Kept, MadeRight, MadeAt
<1>4. BallotsRight'
  <2> SUFFICES ASSUME NEW k \in DOMAIN ballots', k[1] \notin outdated'
               PROVE  BallotRight(k)'
      BY DEF BallotsRight
  <2> DEFINE h == proposals'[k[1]].start_height
  <2>1. /\ k[1] \in DOMAIN proposals' /\ k[2] \in Address /\ k = <<k[1], k[2]>>
        /\ k[1] \notin outdated
      BY <1>1 DEF Kept, StateTyped, Ids
  <2>2. ballots'[k].power = PowerAt(h)[k[2]]
      BY <2>1 DEF Kept, BallotsSaid
  <2>3. h = height => answer'.power[k[2]] = answer.power[k[2]]
      BY <1>1, <2>1 DEF Outdating
  <2>4. ballots'[k].power = (IF h = height' THEN answer'.power ELSE past'[h])[k[2]]
      BY <1>1, <2>2, <2>3 DEF PowerAt
  <2> QED
      BY <2>4 DEF BallotRight, PowerOf, PowerAt
<1> QED
    BY <1>2, <1>3, <1>4 DEF Kept, CoreInv, CoreTyped

\* Nothing that the contract stores changes.
LEMMA UnchangedKeeps ==
  ASSUME CoreInv, UNCHANGED <<proposals, ballots, held>>,
         config' \in Config, config'.min_voting_period <= config'.max_voting_period,
         allowed' \subseteq Address
  PROVE  Kept
<1>1. StateTyped' /\ KeepsVotes
    BY DEF CoreInv, CoreTyped, StateTyped, KeepsVotes, Ids
<1>2. \A id \in Ids' : MadeAt(proposals'[id])
    BY DEF CoreInv, MadeRight, Ids
<1>3. BallotsSaid
    BY DEF CoreInv, BallotsRight, BallotRight, BallotsSaid, PowerOf
<1>4. TallyAddsUp' /\ DepositsBacked'
    BY DEF CoreInv, TallyAddsUp, AddUp, VotersFor, PowerIn, DepositsBacked, Ids
<1> QED
    BY <1>1, <1>2, <1>3, <1>4 DEF Kept

\* What stays as it was made.
SameMaking(rec, p) ==
  /\ rec.total_power = p.total_power /\ rec.start_height = p.start_height
  /\ rec.min_voting_period = p.min_voting_period /\ rec.expiration = p.expiration
  /\ rec.deposit_info = p.deposit_info

\* A transaction that writes one proposal again, and gives back what is not
\* outstanding any more.
LEMMA RewriteKeeps ==
  ASSUME CoreInv,
         NEW id \in Ids, NEW rec \in ProposalRecord, SameMaking(rec, proposals[id]),
         proposals' = [proposals EXCEPT ![id] = rec],
         config' \in Config, config'.min_voting_period <= config'.max_voting_period,
         allowed' \subseteq Address,
         DOMAIN ballots' \subseteq Ids \X Address,
         ballots' \in [DOMAIN ballots' -> [power : Uint128, vote : Vote]],
         held' \in [Token -> Nat],
         \A t \in Token :
           held'[t] = held[t] - (IF rec.deposit_info.token = t
                                 THEN Outstanding(proposals[id]) - Outstanding(rec) ELSE 0)
  PROVE  /\ StateTyped' /\ DepositsBacked'
         /\ \A j \in Ids' : MadeAt(proposals'[j])
<1>1. /\ proposals' \in Seq(ProposalRecord)
      /\ Ids' = Ids
      /\ proposals'[id] = rec
      /\ \A j \in Ids : j # id => proposals'[j] = proposals[j]
    BY Rewritten DEF CoreInv, Ids
<1>2. StateTyped'
    BY <1>1 DEF StateTyped
<1>4. ASSUME NEW j \in Ids'
      PROVE  MadeAt(proposals'[j])
  <2>1. MadeAt(proposals[j])
      BY <1>1 DEF CoreInv, MadeRight
  <2>2. CASE j = id
      BY <1>1, <2>1, <2>2 DEF MadeAt, SameMaking
  <2>3. CASE j # id
      BY <1>1, <2>1, <2>3
  <2> QED
      BY <2>2, <2>3
<1>5. ASSUME NEW t \in Token
      PROVE  held'[t] = SumFunctionOnSet(Owed(proposals', t), DOMAIN proposals')
  <2> DEFINE ps == proposals
             qs == proposals'
  <2>1. /\ ps \in Seq(ProposalRecord) /\ qs \in Seq(ProposalRecord)
        /\ id \in DOMAIN ps /\ DOMAIN qs = DOMAIN ps
      BY <1>1 DEF CoreInv, CoreTyped, StateTyped, Ids
  <2>2. \A j \in DOMAIN ps : j # id => qs[j] = ps[j]
      BY <1>1 DEF Ids
  <2>3. qs[id].deposit_info = ps[id].deposit_info
      BY <1>1 DEF SameMaking
  <2>4. held[t] = SumFunctionOnSet(Owed(ps, t), DOMAIN ps)
      BY BackedNow
  <2>5. held'[t] = held[t] - (IF ps[id].deposit_info.token = t
                              THEN Outstanding(ps[id]) - Outstanding(qs[id]) ELSE 0)
      BY <1>1, <2>3
  <2> SUFFICES held'[t] = SumFunctionOnSet(Owed(qs, t), DOMAIN qs)
      OBVIOUS
  <2> HIDE DEF ps, qs
  <2>6. SumFunctionOnSet(Owed(qs, t), DOMAIN qs)
          = SumFunctionOnSet(Owed(ps, t), DOMAIN ps)
              - (IF ps[id].deposit_info.token = t
                 THEN Outstanding(ps[id]) - Outstanding(qs[id]) ELSE 0)
      BY <2>1, <2>2, <2>3, OwedOfOne
  <2> QED
      BY <2>4, <2>5, <2>6
<1>6. DepositsBacked'
    BY <1>1, <1>5, OwedIsSum DEF DepositsBacked, Ids
<1> QED
    BY <1>2, <1>4, <1>6

\* Nobody votes, and the status of one proposal is another.
LEMMA StatusKeeps ==
  ASSUME CoreInv, UNCHANGED ballots,
         NEW id \in Ids, NEW status \in Status,
         proposals' = [proposals EXCEPT ![id].status = status],
         config' \in Config, config'.min_voting_period <= config'.max_voting_period,
         allowed' \subseteq Address,
         held' \in [Token -> Nat],
         \A t \in Token :
           held'[t] = held[t] - (IF proposals[id].deposit_info.token = t
                                 THEN Outstanding(proposals[id])
                                        - Outstanding([proposals[id] EXCEPT !.status = status])
                                 ELSE 0)
  PROVE  Kept
<1> DEFINE rec == [proposals[id] EXCEPT !.status = status]
<1>1. proposals[id] \in ProposalRecord
    BY ProposalTyped DEF CoreInv
<1>2. /\ rec \in ProposalRecord /\ SameMaking(rec, proposals[id])
      /\ rec.votes = proposals[id].votes
    BY <1>1 DEF ProposalRecord, SameMaking
<1>3. proposals' = [proposals EXCEPT ![id] = rec]
    OBVIOUS
<1>4. /\ DOMAIN ballots' \subseteq Ids \X Address
      /\ ballots' \in [DOMAIN ballots' -> [power : Uint128, vote : Vote]]
    BY DEF CoreInv, CoreTyped, StateTyped
<1>5. \A t \in Token :
        held'[t] = held[t] - (IF rec.deposit_info.token = t
                              THEN Outstanding(proposals[id]) - Outstanding(rec) ELSE 0)
    BY <1>2 DEF SameMaking
<1> HIDE DEF rec
<1>6. /\ StateTyped' /\ DepositsBacked'
      /\ \A j \in Ids' : MadeAt(proposals'[j])
    BY <1>2, <1>3, <1>4, <1>5, RewriteKeeps
<1>7. /\ Ids' = Ids /\ proposals'[id] = rec
      /\ \A j \in Ids : j # id => proposals'[j] = proposals[j]
    BY <1>2, <1>3, Rewritten DEF CoreInv, Ids
<1>8. \A j \in Ids : /\ proposals'[j].votes = proposals[j].votes
                     /\ proposals'[j].start_height = proposals[j].start_height
    BY <1>2, <1>7 DEF SameMaking
<1>9. BallotsSaid
  <2>1. \A k \in DOMAIN ballots : k[1] \in Ids
      BY DEF CoreInv, CoreTyped, StateTyped
  <2> QED
      BY <1>8, <2>1 DEF CoreInv, BallotsRight, BallotRight, BallotsSaid, PowerOf
<1>10. TallyAddsUp'
    BY <1>7, <1>8 DEF CoreInv, TallyAddsUp, AddUp, VotersFor, PowerIn
<1>11. KeepsVotes
    BY <1>7 DEF KeepsVotes
<1> QED
    BY <1>6, <1>9, <1>10, <1>11 DEF Kept


LEMMA ExecuteKeeps ==
  ASSUME CoreInv, NEW sender \in Address, NEW id \in Ids,
         Execute(sender, id)
  PROVE  Kept
<1> DEFINE p == proposals[id]
           info == p.deposit_info
           q == [p EXCEPT !.status = "executed"]
<1>1. p \in ProposalRecord /\ p.msgs \in Message /\ info \in DepositInfo(Token)
    BY ProposalTyped, RecordFields DEF CoreInv
<1>2. info.token \in Token /\ info.deposit \in Nat
    BY <1>1 DEF DepositInfo
<1>3. /\ config' \in Config /\ config'.min_voting_period <= config'.max_voting_period
      /\ allowed' \subseteq Address
  <2>1. PICK after \in Called(Admin, p.msgs) :
          config' = after.config /\ allowed' = after.allowed
      BY DEF Execute
  <2> QED
      BY <1>1, <2>1, CalledTyped DEF CoreInv
<1>4. /\ held' = [held EXCEPT ![info.token] = @ - info.deposit]
      /\ info.deposit <= held[info.token]
    BY DEF Execute, Refund, Refunded
<1>5. held \in [Token -> Nat]
    BY DEF CoreInv, CoreTyped, StateTyped
<1>6. held' \in [Token -> Nat]
    BY <1>2, <1>4, <1>5
<1>7. Outstanding(p) = info.deposit /\ Outstanding(q) = 0
  <2>1. p.status \in {"open", "passed"}
      BY StatusMoves DEF Execute, Executable
  <2>2. q.status = "executed"
      BY <1>1 DEF ProposalRecord
  <2> QED
      BY <2>1, <2>2 DEF Outstanding
<1>8. \A t \in Token :
        held'[t] = held[t] - (IF info.token = t THEN Outstanding(p) - Outstanding(q) ELSE 0)
  <2>1. \A t \in Token : held[t] \in Nat
      BY <1>5
  <2> HIDE DEF info, p, q
  <2> QED
      BY <1>2, <1>4, <1>5, <1>7, <2>1
<1>9. /\ proposals' = [proposals EXCEPT ![id].status = "executed"]
      /\ "executed" \in Status /\ UNCHANGED ballots
    BY DEF Execute, Status
<1> QED
    BY <1>3, <1>6, <1>8, <1>9, StatusKeeps

LEMMA CloseKeeps ==
  ASSUME CoreInv, NEW sender \in Address, NEW id \in Ids,
         Close(sender, id)
  PROVE  Kept
<1> DEFINE p == proposals[id]
           info == p.deposit_info
           q == [p EXCEPT !.status = "closed"]
<1>1. p \in ProposalRecord /\ info \in DepositInfo(Token)
    BY ProposalTyped, RecordFields DEF CoreInv
<1>2. info.token \in Token /\ info.deposit \in Nat
    BY <1>1 DEF DepositInfo
<1>3. /\ config' \in Config /\ config'.min_voting_period <= config'.max_voting_period
      /\ allowed' \subseteq Address
    BY DEF Close, CoreInv, CoreTyped, StateTyped
<1>4. IF info.refund_failed_proposals
      THEN /\ held' = [held EXCEPT ![info.token] = @ - info.deposit]
           /\ info.deposit <= held[info.token]
      ELSE held' = held
    BY DEF Close, Refund, Refunded
<1>5. held \in [Token -> Nat]
    BY DEF CoreInv, CoreTyped, StateTyped
<1>6. held' \in [Token -> Nat]
    BY <1>2, <1>4, <1>5
<1>7. /\ Outstanding(p) = info.deposit
      /\ Outstanding(q) = IF info.refund_failed_proposals THEN 0 ELSE info.deposit
  <2>1. p.status \in {"open", "rejected"}
      BY StatusMoves DEF Close
  <2>2. q.status = "closed" /\ q.deposit_info = info
      BY <1>1 DEF ProposalRecord
  <2> QED
      BY <2>1, <2>2 DEF Outstanding
<1>8. \A t \in Token :
        held'[t] = held[t] - (IF info.token = t THEN Outstanding(p) - Outstanding(q) ELSE 0)
  <2>1. \A t \in Token : held[t] \in Nat
      BY <1>5
  <2> HIDE DEF info, p, q
  <2>2. CASE info.refund_failed_proposals
      BY <1>2, <1>4, <1>5, <1>7, <2>1, <2>2
  <2>3. CASE ~info.refund_failed_proposals
      BY <1>2, <1>4, <1>5, <1>7, <2>1, <2>3
  <2> QED
      BY <2>2, <2>3
<1>9. /\ proposals' = [proposals EXCEPT ![id].status = "closed"]
      /\ "closed" \in Status /\ UNCHANGED ballots
    BY DEF Close, Status
<1> QED
    BY <1>3, <1>6, <1>8, <1>9, StatusKeeps


LEMMA CastVoteKeeps ==
  ASSUME CoreInv, NEW sender \in Address, NEW id \in Ids, NEW vote \in Vote,
         CastVote(sender, id, vote)
  PROVE  Kept
<1> DEFINE p      == proposals[id]
           ballot == [power |-> PowerOf(p, sender), vote |-> vote]
           old    == {ballots[k] : k \in DOMAIN ballots \cap {<<id, sender>>}}
           votes  == VotesAfter(p.votes, old, ballot)
           voted  == [p EXCEPT !.votes = votes]
           rec    == [voted EXCEPT !.status = CurrentStatus(voted, height)]
<1>1. p \in ProposalRecord /\ MadeAt(p)
    BY ProposalTyped DEF CoreInv, MadeRight
<1>2. /\ Votable(p) /\ VotesFit(voted.votes)
      /\ ballots' = Put(ballots, <<id, sender>>, ballot)
      /\ proposals' = [proposals EXCEPT ![id] = rec]
      /\ UNCHANGED <<config, allowed, held>>
    BY DEF CastVote
<1>3. PowerOf(p, sender) \in Uint128 /\ PowerOf(p, sender) \in Nat /\ MaxUint \in Nat
    BY <1>1, PowerTyped, TallyAssumption DEF CoreInv, CoreTyped, PowerOf
<1>4. ballot \in [power : Uint128, vote : Vote]
    BY <1>3
<1>5. \A o \in Vote :
        /\ votes[o] \in Nat
        /\ votes[o] = SumFunctionOnSet(PowerIn(ballots', id), VotersFor(ballots', id, o))
  <2> DEFINE x == PowerOf(p, sender)
  <2>1. ballot = [power |-> x, vote |-> vote] /\ x \in Nat
      BY <1>3
  <2>2. old = {ballots[k] : k \in DOMAIN ballots \cap {<<id, sender>>}}
      OBVIOUS
  <2> HIDE DEF x, ballot, old
  <2>3. BallotCounted(id, sender, old, ballot)
      BY <2>1, <2>2, VoteCounted
  <2> QED
      BY <1>2, <2>3 DEF BallotCounted
<1>6. votes \in Votes
  <2>1. voted.votes = votes
      BY <1>1 DEF ProposalRecord
  <2>2. \A o \in Vote : votes[o] \in Uint128
      BY <1>2, <1>3, <1>5, <2>1 DEF VotesFit, Uint128
  <2>3. votes = [o \in Vote |-> votes[o]]
      BY DEF VotesAfter
  <2> HIDE DEF votes
  <2> QED
      BY <2>2, <2>3 DEF Votes
<1> HIDE DEF votes, ballot
<1>7. /\ voted \in ProposalRecord /\ voted.votes = votes /\ voted.status = p.status
      /\ SameMaking(voted, p)
    BY <1>1, <1>6 DEF ProposalRecord, SameMaking
<1> HIDE DEF voted
<1>8. CurrentStatus(voted, height) \in {"open", "passed", "rejected"} /\ p.status = "open"
  <2>1. p.status = "open"
      BY <1>2, StatusMoves DEF Votable
  <2> QED
      BY <1>7, <2>1, StatusMoves
<1>9. /\ rec \in ProposalRecord /\ rec.votes = votes
      /\ rec.status = CurrentStatus(voted, height)
      /\ SameMaking(rec, p)
    BY <1>7, <1>8 DEF ProposalRecord, SameMaking, Status
<1> HIDE DEF rec, p
<1>10. Outstanding(p) = Outstanding(rec) /\ Outstanding(p) \in Nat
  <2>1. rec.deposit_info = p.deposit_info
      BY <1>9 DEF SameMaking
  <2> QED
      BY <1>1, <1>8, <1>9, <2>1, OutstandingTyped DEF Outstanding
<1>11. \A t \in Token :
         held'[t] = held[t] - (IF rec.deposit_info.token = t
                               THEN Outstanding(p) - Outstanding(rec) ELSE 0)
  <2>1. \A t \in Token : held'[t] = held[t] /\ held[t] \in Nat
      BY <1>2 DEF CoreInv, CoreTyped, StateTyped
  <2> QED
      BY <1>10, <2>1
<1>12. /\ DOMAIN ballots' = DOMAIN ballots \cup {<<id, sender>>}
       /\ ballots'[<<id, sender>>] = ballot
       /\ \A k \in DOMAIN ballots : k # <<id, sender>> => ballots'[k] = ballots[k]
    BY <1>2 DEF Put
<1>13. /\ DOMAIN ballots' \subseteq Ids \X Address
       /\ ballots' \in [DOMAIN ballots' -> [power : Uint128, vote : Vote]]
  <2>1. DOMAIN ballots' \subseteq Ids \X Address
      BY <1>12 DEF CoreInv, CoreTyped, StateTyped
  <2>2. \A k \in DOMAIN ballots' : ballots'[k] \in [power : Uint128, vote : Vote]
      BY <1>4, <1>12 DEF CoreInv, CoreTyped, StateTyped
  <2>3. ballots' = [k \in DOMAIN ballots' |-> ballots'[k]]
      BY <1>2 DEF Put
  <2> QED
      BY <2>1, <2>2, <2>3
<1>14. /\ config' \in Config /\ config'.min_voting_period <= config'.max_voting_period
       /\ allowed' \subseteq Address /\ held' \in [Token -> Nat]
    BY <1>2 DEF CoreInv, CoreTyped, StateTyped
<1>15. /\ StateTyped' /\ DepositsBacked'
       /\ \A j \in Ids' : MadeAt(proposals'[j])
    BY <1>2, <1>9, <1>11, <1>13, <1>14, RewriteKeeps DEF p
<1>16. /\ Ids' = Ids /\ proposals'[id] = rec
       /\ \A j \in Ids : j # id => proposals'[j] = proposals[j]
    BY <1>2, <1>9, Rewritten DEF CoreInv, Ids
<1>17. \A j \in Ids : proposals'[j].start_height = proposals[j].start_height
    BY <1>9, <1>16 DEF SameMaking, p
<1>18. /\ ballot.power = PowerAt(proposals[id].start_height)[sender]
       /\ \A k \in DOMAIN ballots :
            k[1] \notin outdated =>
              ballots[k].power = PowerAt(proposals[k[1]].start_height)[k[2]]
    BY DEF ballot, PowerOf, p, CoreInv, BallotsRight, BallotRight
<1>19. KeepsVotes
  <2> SUFFICES ASSUME NEW k \in DOMAIN ballots, k[1] \notin outdated
               PROVE  ballots'[k].power = ballots[k].power
      BY <1>12, <1>16 DEF KeepsVotes
  <2>1. CASE k = <<id, sender>>
      BY <1>12, <1>18, <2>1
  <2>2. CASE k # <<id, sender>>
      BY <1>12, <2>2
  <2> QED
      BY <2>1, <2>2
<1>20. BallotsSaid
  <2> SUFFICES ASSUME NEW k \in DOMAIN ballots', k[1] \notin outdated
               PROVE  ballots'[k].power = PowerAt(proposals[k[1]].start_height)[k[2]]
      BY <1>13, <1>17 DEF BallotsSaid
  <2>1. CASE k = <<id, sender>>
      BY <1>12, <1>18, <2>1
  <2>2. CASE k # <<id, sender>>
      BY <1>12, <1>18, <2>2
  <2> QED
      BY <2>1, <2>2
<1>21. TallyAddsUp'
  <2> SUFFICES ASSUME NEW j \in Ids
               PROVE  AddUp(proposals'[j].votes, ballots', j)
      BY <1>16 DEF TallyAddsUp, AddUp, VotersFor, PowerIn
  <2>1. CASE j = id
      BY <1>5, <1>9, <1>16, <2>1 DEF AddUp
  <2>2. CASE j # id
    <3>1. AddUp(proposals[j].votes, ballots, j)
        BY DEF CoreInv, TallyAddsUp
    <3>2. PowerIn(ballots', j) = PowerIn(ballots, j)
        BY <1>12, <2>2 DEF PowerIn
    <3>3. \A o \in Vote : VotersFor(ballots', j, o) = VotersFor(ballots, j, o)
        BY <1>12, <2>2 DEF VotersFor
    <3> QED
        BY <1>16, <2>2, <3>1, <3>2, <3>3 DEF AddUp
  <2> QED
      BY <2>1, <2>2
<1> QED
    BY <1>15, <1>19, <1>20, <1>21 DEF Kept

\* The proposal that is made, before its status is brought up to date.
LEMMA ProposalMade ==
  ASSUME CoreInv, NEW sender \in Address, NEW m \in Messages, Propose(sender, m)
  PROVE  \E made \in ProposalRecord :
           /\ proposals' = Append(proposals,
                                  [made EXCEPT !.status = CurrentStatus(made, height)])
           /\ made.status = "open" /\ made.votes = NoVotes
           /\ made.start_height = height /\ made.total_power = answer.total
           /\ made.min_voting_period <= made.expiration /\ height <= made.expiration
           /\ made.deposit_info = config.deposit_info
<1> DEFINE made == [threshold         |-> config.threshold,
                    votes             |-> NoVotes,
                    total_power       |-> answer.total,
                    status            |-> "open",
                    allow_revoting    |-> config.allow_revoting,
                    min_voting_period |-> IF config.min_voting_period = 0 THEN 0
                                          ELSE height + config.min_voting_period,
                    expiration        |-> height + config.max_voting_period,
                    proposer          |-> sender,
                    start_height      |-> height,
                    msgs              |-> m,
                    deposit_info      |-> config.deposit_info]
<1>1. height \in Nat /\ answer.total \in Uint128
    BY ProposalAssumption DEF CoreInv, CoreTyped, AnswersTyped, Answer
<1>2. /\ config.threshold \in Threshold /\ config.allow_revoting \in BOOLEAN
      /\ config.min_voting_period \in Nat /\ config.max_voting_period \in Nat
      /\ config.min_voting_period <= config.max_voting_period
      /\ config.deposit_info \in DepositInfo(Token)
    BY DEF CoreInv, CoreTyped, StateTyped, Config, ConfigWith
<1>3. NoVotes \in Votes /\ m \in Message /\ "open" \in Status
    BY ProposalAssumption, TallyAssumption DEF NoVotes, Votes, Uint128, Status
<1>4. made \in ProposalRecord
    BY <1>1, <1>2, <1>3 DEF ProposalRecord
<1>5. made.min_voting_period <= made.expiration /\ height <= made.expiration
    BY <1>1, <1>2
<1>6. proposals' = Append(proposals, [made EXCEPT !.status = CurrentStatus(made, height)])
    BY DEF Propose
<1> QED
    BY <1>4, <1>5, <1>6

LEMMA ProposeKeeps ==
  ASSUME CoreInv, NEW sender \in Address, NEW m \in Messages, Propose(sender, m)
  PROVE  Kept
<1> DEFINE info == config.deposit_info
           n == Len(proposals) + 1
<1>1. PICK made \in ProposalRecord :
        /\ proposals' = Append(proposals,
                               [made EXCEPT !.status = CurrentStatus(made, height)])
        /\ made.status = "open" /\ made.votes = NoVotes
        /\ made.start_height = height
        /\ made.min_voting_period <= made.expiration /\ height <= made.expiration
        /\ made.deposit_info = info
    BY ProposalMade
<1> DEFINE rec == [made EXCEPT !.status = CurrentStatus(made, height)]
<1>2. /\ held' = [held EXCEPT ![info.token] = @ + info.deposit]
      /\ UNCHANGED <<config, allowed, ballots>>
    BY <1>1 DEF Propose, Deposited
<1>3. height \in InitHeight .. height
    BY ProposalAssumption DEF CoreInv, CoreTyped, AnswersTyped
<1>4. info.token \in Token /\ info.deposit \in Nat
    BY DEF CoreInv, CoreTyped, StateTyped, Config, ConfigWith, DepositInfo
<1>5. CurrentStatus(made, height) \in {"open", "passed", "rejected"}
    BY <1>1, StatusMoves
<1>6. /\ rec \in ProposalRecord
      /\ rec.status = CurrentStatus(made, height)
      /\ rec.votes = NoVotes /\ rec.start_height = height
      /\ rec.min_voting_period <= rec.expiration
      /\ rec.deposit_info = info
    BY <1>1, <1>5 DEF ProposalRecord, Status
<1> HIDE DEF rec, info
<1>7. /\ proposals \in Seq(ProposalRecord) /\ proposals' \in Seq(ProposalRecord)
      /\ Ids' = Ids \cup {n} /\ n \notin Ids
      /\ proposals'[n] = rec /\ \A j \in Ids : proposals'[j] = proposals[j]
  <2>1. proposals \in Seq(ProposalRecord)
      BY DEF CoreInv, CoreTyped, StateTyped
  <2> QED
      BY <1>1, <1>6, <2>1 DEF Ids, rec
<1> HIDE DEF n
<1>8. held' \in [Token -> Nat]
    BY <1>2, <1>4 DEF CoreInv, CoreTyped, StateTyped
<1>9. StateTyped'
    BY <1>2, <1>7, <1>8 DEF CoreInv, CoreTyped, StateTyped
<1>10. \A j \in Ids' : MadeAt(proposals'[j])
  <2> SUFFICES ASSUME NEW j \in Ids'
               PROVE  MadeAt(proposals'[j])
      OBVIOUS
  <2>1. CASE j = n
      BY <1>3, <1>6, <1>7, <2>1 DEF MadeAt
  <2>2. CASE j \in Ids
      BY <1>7, <2>2 DEF CoreInv, MadeRight
  <2> QED
      BY <1>7, <2>1, <2>2
<1>11. \A k \in DOMAIN ballots : k[1] \in Ids
    BY DEF CoreInv, CoreTyped, StateTyped
<1>12. KeepsVotes
    BY <1>2, <1>7 DEF KeepsVotes
<1>13. BallotsSaid
    BY <1>2, <1>7, <1>11 DEF CoreInv, BallotsRight, BallotRight, BallotsSaid, PowerOf
<1>14. TallyAddsUp'
  <2> SUFFICES ASSUME NEW j \in Ids'
               PROVE  AddUp(proposals'[j].votes, ballots, j)
      BY <1>2 DEF TallyAddsUp, AddUp, VotersFor, PowerIn
  <2>1. CASE j = n
    <3>1. \A o \in Vote : VotersFor(ballots, j, o) = {}
        BY <1>7, <1>11, <2>1 DEF VotersFor
    <3>2. \A o \in Vote : proposals'[j].votes[o] = 0
        BY <1>6, <1>7, <2>1 DEF NoVotes
    <3> QED
        BY <3>1, <3>2, SumOfNone DEF AddUp
  <2>2. CASE j \in Ids
      BY <1>7, <2>2 DEF CoreInv, TallyAddsUp
  <2> QED
      BY <1>7, <2>1, <2>2
<1>15. ASSUME NEW t \in Token
       PROVE  held'[t] = SumFunctionOnSet(Owed(proposals', t), DOMAIN proposals')
  <2>1. held[t] = SumFunctionOnSet(Owed(proposals, t), DOMAIN proposals) /\ held[t] \in Nat
      BY BackedNow DEF CoreInv, CoreTyped, StateTyped
  <2>2. Outstanding(rec) = info.deposit
      BY <1>5, <1>6 DEF Outstanding
  <2>3. held'[t] = held[t] + (IF info.token = t THEN info.deposit ELSE 0)
      BY <1>2, <1>4, <2>1 DEF CoreInv, CoreTyped, StateTyped
  <2>4. SumFunctionOnSet(Owed(Append(proposals, rec), t), DOMAIN Append(proposals, rec))
          = SumFunctionOnSet(Owed(proposals, t), DOMAIN proposals)
              + (IF rec.deposit_info.token = t THEN Outstanding(rec) ELSE 0)
      BY <1>6, <1>7, OwedOfMore
  <2> QED
      BY <1>1, <1>6, <2>1, <2>2, <2>3, <2>4 DEF rec
<1>16. DepositsBacked'
    BY <1>7, <1>15, OwedIsSum DEF DepositsBacked, Ids
<1> QED
    BY <1>9, <1>10, <1>12, <1>13, <1>14, <1>16 DEF Kept

LEMMA DaoCallKeeps ==
  ASSUME CoreInv, NEW sender \in Dao, NEW m \in Messages, DaoCall(sender, m)
  PROVE  Kept
<1>1. /\ config' \in Config /\ config'.min_voting_period <= config'.max_voting_period
      /\ allowed' \subseteq Address
  <2>1. PICK after \in Called(Admin, m) : SetAdmin(after)
      BY DEF DaoCall
  <2>2. m \in Message
      BY ProposalAssumption
  <2> QED
      BY <2>1, <2>2, CalledTyped DEF CoreInv, SetAdmin
<1> QED
    BY <1>1, UnchangedKeeps DEF DaoCall

\* The contract does nothing.
LEMMA IdleKeeps ==
  ASSUME CoreInv, UNCHANGED <<admin, proposals, ballots, held>>
  PROVE  Kept
<1>1. UNCHANGED <<proposals, ballots, held>> /\ UNCHANGED <<config, allowed>>
    BY DEF admin
<1> QED
    BY <1>1, UnchangedKeeps DEF CoreInv, CoreTyped, StateTyped

\* What was answered about the blocks that went by stays.
LEMMA NextBlockKeeps ==
  ASSUME CoreInv, NextBlock
  PROVE  CoreInv'
<1>1. /\ height' = height + 1 /\ height < MaxHeight
      /\ past' = Put(past, height, answer.power)
      /\ answer' \in Answers /\ broken' \subseteq Receiver /\ outdated' = outdated
      /\ UNCHANGED <<admin, proposals, ballots, held>>
    BY DEF NextBlock
<1>2. /\ height \in InitHeight .. MaxHeight /\ InitHeight \in Nat /\ MaxHeight \in Nat
      /\ past \in [InitHeight .. height - 1 -> [Address -> Uint128]]
      /\ answer.power \in [Address -> Uint128]
    BY ProposalAssumption DEF CoreInv, CoreTyped, AnswersTyped, Answer
<1>3. /\ InitHeight .. height' - 1 = (InitHeight .. height - 1) \cup {height}
      /\ height \notin InitHeight .. height - 1 /\ height' \in InitHeight .. MaxHeight
      /\ \A h \in InitHeight .. height : h \in InitHeight .. height' /\ h # height'
    BY <1>1, <1>2
<1>4. \A h \in InitHeight .. height : past'[h] = PowerAt(h)
    BY <1>1, <1>2 DEF Put, PowerAt
<1>5. past' \in [InitHeight .. height' - 1 -> [Address -> Uint128]]
    BY <1>1, <1>2, <1>3 DEF Put
<1>6. Kept
    BY <1>1, IdleKeeps
<1>7. AnswersTyped'
    BY <1>1, <1>3, <1>5, ProposalAssumption DEF CoreInv, CoreTyped, AnswersTyped, Ids
<1>8. \A j \in Ids : proposals[j].start_height \in InitHeight .. height
    BY DEF CoreInv, MadeRight, MadeAt
<1>9. MadeRight'
    BY <1>1, <1>3 DEF CoreInv, MadeRight, MadeAt, Ids
<1>10. \A j \in Ids : PowerAt(proposals[j].start_height)'
                        = PowerAt(proposals[j].start_height)
    BY <1>1, <1>3, <1>4, <1>8 DEF PowerAt
<1>11. BallotsRight'
  <2>1. \A k \in DOMAIN ballots : k[1] \in Ids
      BY DEF CoreInv, CoreTyped, StateTyped
  <2> QED
      BY <1>1, <1>10, <2>1 DEF CoreInv, BallotsRight, BallotRight, PowerOf
<1> QED
    BY <1>6, <1>7, <1>9, <1>11 DEF Kept, CoreInv, CoreTyped

LEMMA CoreKept ==
  ASSUME CoreInv, [Next]_vars
  PROVE  CoreInv' /\ KeepsVotes
<1>1. ASSUME Kept, Transaction
      PROVE  CoreInv' /\ KeepsVotes
    BY <1>1, BlockKeeps DEF Transaction, Kept, CoreInv, CoreTyped, AnswersTyped
<1>2. CASE NextBlock
    BY <1>2, NextBlockKeeps, IdleKeeps DEF NextBlock, Kept
<1>3. CASE Elsewhere
    BY <1>3, IdleKeeps, BlockKeeps DEF Elsewhere, Kept
<1>4. CASE \E sender \in Address, m \in Messages :
             Propose(sender, m) /\ Transaction
    BY <1>1, <1>4, ProposeKeeps
<1>5. CASE \E sender \in Address, id \in Ids, vote \in Vote :
             CastVote(sender, id, vote) /\ Transaction
    BY <1>1, <1>5, CastVoteKeeps
<1>6. CASE \E sender \in Address, id \in Ids :
             Execute(sender, id) /\ Transaction
    BY <1>1, <1>6, ExecuteKeeps
<1>7. CASE \E sender \in Address, id \in Ids :
             Close(sender, id) /\ Transaction
    BY <1>1, <1>7, CloseKeeps
<1>8. CASE \E sender \in Dao, m \in Messages \ {NoMessage} :
             DaoCall(sender, m) /\ Transaction
    BY <1>1, <1>8, DaoCallKeeps
<1>9. CASE UNCHANGED vars
  <2>1. CoreInv'
      BY <1>9 DEF vars, admin, CoreInv, CoreTyped, AnswersTyped, StateTyped, MadeRight,
                  MadeAt, BallotsRight, BallotRight, PowerOf, PowerAt, TallyAddsUp, AddUp,
                  VotersFor, PowerIn, DepositsBacked, Ids
  <2>2. KeepsVotes
      BY <1>9 DEF vars, KeepsVotes, Ids
  <2> QED
      BY <2>1, <2>2
<1> QED
    BY <1>2, <1>3, <1>4, <1>5, <1>6, <1>7, <1>8, <1>9 DEF Next

-----------------------------------------------------------------------------
LEMMA CoreInitially == Init => CoreInv
<1> SUFFICES ASSUME Init
             PROVE  CoreInv
    OBVIOUS
<1>1. /\ height = InitHeight /\ answer \in Answer
      /\ past = [h \in {} |-> answer.power]
      /\ broken \subseteq Receiver /\ outdated = {} /\ allowed \subseteq Address
      /\ proposals = <<>> /\ ballots = [k \in {} |-> 0]
      /\ held = [t \in Token |-> 0]
    BY ProposalAssumption DEF Init
<1>2. InitHeight \in InitHeight .. MaxHeight /\ InitHeight .. height - 1 = {}
    BY <1>1, ProposalAssumption
<1>3. /\ config \in Config /\ config.min_voting_period <= config.max_voting_period
    BY ConfigTyped DEF Init
<1>4. Ids = {} /\ DOMAIN ballots = {}
    BY <1>1 DEF Ids
<1>5. AnswersTyped
    BY <1>1, <1>2 DEF AnswersTyped
<1>6. StateTyped
    BY <1>1, <1>3, <1>4 DEF StateTyped
<1>7. MadeRight /\ BallotsRight /\ TallyAddsUp
    BY <1>4 DEF MadeRight, BallotsRight, TallyAddsUp
<1>8. DepositsBacked
  <2>1. \A f : DOMAIN f = {} => SumFunction(f) = 0
      BY SumOfNone DEF SumFunction
  <2>2. ASSUME NEW t \in Token
        PROVE  SumFunction([id \in {i \in Ids : proposals[i].deposit_info.token = t} |->
                              Outstanding(proposals[id])]) = 0
      BY <1>4, <2>1
  <2> QED
      BY <1>1, <2>2 DEF DepositsBacked
<1> QED
    BY <1>5, <1>6, <1>7, <1>8 DEF CoreInv, CoreTyped

LEMMA CoreHolds == Spec => []CoreInv
<1>1. CoreInv /\ [Next]_vars => CoreInv'
    BY CoreKept
<1> QED
    BY <1>1, CoreInitially, PTL DEF Spec

\* The ballots on a proposal that is not outdated say what is answered.
LEMMA SaidIsAnswered ==
  ASSUME CoreInv, NEW id \in Ids, id \notin outdated, NEW vs \in SUBSET HasVoted(ballots, id)
  PROVE  SumFunctionOnSet(PowerIn(ballots, id), vs)
           = SumFunctionOnSet(PowerAt(proposals[id].start_height), vs)
<1> DEFINE f == PowerIn(ballots, id)
           g == PowerAt(proposals[id].start_height)
<1>1. IsFiniteSet(vs)
  <2>1. IsFiniteSet(Address) /\ vs \in SUBSET Address
      BY ProposalAssumption DEF HasVoted
  <2> QED
      BY <2>1, FS_Subset
<1>2. \A a \in vs : f[a] = g[a]
    BY DEF CoreInv, BallotsRight, BallotRight, PowerOf, PowerIn, HasVoted
<1> HIDE DEF f, g
<1>3. SumFunctionOnSet(f, vs) = SumFunctionOnSet(g, vs)
    BY <1>1, <1>2, SumOfSame
<1> QED
    BY <1>3 DEF f, g

(* The votes are, for each option, the power that those whose last ballot  *)
(* says so had when the proposal was made (contract.rs:316-364), except    *)
(* where a power was answered otherwise, in the block of the proposal,     *)
(* after it was voted with.                                                *)
THEOREM VotesCounted == Spec => []VotesAreThePowers
<1>1. CoreInv => VotesAreThePowers
  <2> SUFFICES ASSUME CoreInv, NEW id \in Ids, id \notin outdated, NEW o \in Vote
               PROVE  proposals[id].votes[o]
                        = SumFunctionOnSet(PowerAt(proposals[id].start_height),
                                           VotersFor(ballots, id, o))
      BY DEF VotesAreThePowers, VotersFor
  <2>1. proposals[id].votes[o]
          = SumFunctionOnSet(PowerIn(ballots, id), VotersFor(ballots, id, o))
      BY DEF CoreInv, TallyAddsUp, AddUp
  <2>2. VotersFor(ballots, id, o) \in SUBSET HasVoted(ballots, id)
      BY DEF VotersFor, HasVoted
  <2> QED
      BY <2>1, <2>2, SaidIsAnswered
<1> QED
    BY <1>1, CoreHolds, PTL

\* Nobody votes twice, so no more is cast than there is power.
LEMMA CoveredCast ==
  ASSUME CoreInv, NEW id \in Ids, Covered(id)
  PROVE  Within(proposals[id])
<1> DEFINE p == proposals[id]
           f == PowerAt(p.start_height)
           W == HasVoted(ballots, id)
<1>1. p \in ProposalRecord /\ MadeAt(p)
    BY ProposalTyped DEF CoreInv, MadeRight
<1>2. IsFiniteSet(Address) /\ W \in SUBSET Address
    BY ProposalAssumption DEF HasVoted
<1>3. f \in [Address -> Nat]
    BY <1>1, PowerTyped DEF CoreInv, CoreTyped
<1>4. Cast(p.votes) = SumFunctionOnSet(f, W)
    BY CastIsSum, SaidIsAnswered DEF Covered
<1>5. SumFunction(f) = SumFunctionOnSet(f, Address) /\ SumFunction(f) <= p.total_power
    BY <1>3 DEF SumFunction, Covered
<1>6. p.total_power \in Nat
    BY <1>1, RecordFields
<1> HIDE DEF f, W, p
<1>7. \A a \in Address : f[a] \in Nat
    BY <1>3
<1>8. /\ SumFunctionOnSet(f, W) <= SumFunctionOnSet(f, Address)
      /\ SumFunctionOnSet(f, W) \in Nat /\ SumFunctionOnSet(f, Address) \in Nat
  <2>1. IsFiniteSet(W)
      BY <1>2, FS_Subset
  <2> QED
      BY <1>2, <1>7, <2>1, SumIsNat, SumOfPart
<1>9. Cast(p.votes) <= p.total_power
    BY <1>4, <1>5, <1>6, <1>8
<1> QED
    BY <1>9 DEF Within, p

(* As long as the total power that a proposal was made with covers the     *)
(* powers of its members in that block, and no power that was voted with   *)
(* is answered otherwise in that block, no more is voted than the total    *)
(* and no subtraction or sum of the tally fails (proposal.rs:145-276).     *)
THEOREM NoTallyUnderflows == Spec => []VotesWithinPower
<1>1. CoreInv => VotesWithinPower
    BY CoveredCast, ProposalTyped, StatusIsDefined DEF VotesWithinPower, CoreInv
<1> QED
    BY <1>1, CoreHolds, PTL

(* What the contract holds of a token is what is outstanding in it, so     *)
(* every deposit can be given back (contract.rs:228, 269, 410).            *)
THEOREM DepositsHeld == Spec => []DepositsBacked
<1>1. CoreInv => DepositsBacked
    BY DEF CoreInv
<1> QED
    BY <1>1, CoreHolds, PTL

-----------------------------------------------------------------------------
(* Each proposal lives as ProposalLifecycle says.                          *)

WatchedProposal ==
  IF Watched \in Ids THEN Decided(proposals[Watched]) ELSE [status |-> "absent"]

\* The tally reads nothing else of a proposal.
LEMMA DecidedAlike ==
  ASSUME NEW p, NEW n
  PROVE  /\ CurrentStatus(Decided(p), n) = CurrentStatus(p, n)
         /\ StatusDefined(Decided(p), n) <=> StatusDefined(p, n)
<1> DEFINE d == Decided(p)
<1>1. /\ d.threshold = p.threshold /\ d.votes = p.votes
      /\ d.total_power = p.total_power /\ d.status = p.status
      /\ d.allow_revoting = p.allow_revoting
      /\ d.min_voting_period = p.min_voting_period /\ d.expiration = p.expiration
    BY DEF Decided
<1> HIDE DEF d
<1>2. IsPassed(d, n) = IsPassed(p, n)
    BY <1>1 DEF IsPassed, Unsettled, OptionsAt, Options, QuorumMet
<1>3. IsRejected(d, n) = IsRejected(p, n)
    BY <1>1 DEF IsRejected, Unsettled, OptionsAt, Options, QuorumMet
<1>4. CurrentStatus(d, n) = CurrentStatus(p, n)
    BY <1>1, <1>2, <1>3 DEF CurrentStatus
<1>5. StatusDefined(d, n) <=> StatusDefined(p, n)
    BY <1>1, <1>2 DEF StatusDefined, PassedDefined, RejectedDefined, Unsettled, OptionsAt,
                      Options, QuorumMet
<1> QED
    BY <1>4, <1>5 DEF d

LEMMA DecidedTyped == ASSUME NEW p \in ProposalRecord PROVE Decided(p) \in Tallied
BY RecordFields DEF Decided, Tallied, Votes

\* A ballot makes the votes grow, or moves some when that is allowed.
LEMMA VoteVotes ==
  ASSUME CoreInv, NEW sender \in Address, NEW id \in Ids, NEW vote \in Vote,
         CastVote(sender, id, vote)
  PROVE  LET p == proposals[id]
             q == proposals'[id]
             voted == [p EXCEPT !.votes = q.votes]
         IN  /\ Votable(p) /\ q.votes \in Votes /\ StatusDefined(voted, height)
             /\ Grown(p.votes, q.votes) \/ p.allow_revoting
             /\ q.status = CurrentStatus(voted, height)
             /\ q = [p EXCEPT !.votes = q.votes, !.status = q.status]
             /\ Ids' = Ids
             /\ \A j \in Ids : j # id => proposals'[j] = proposals[j]
<1> DEFINE p      == proposals[id]
           ballot == [power |-> PowerOf(p, sender), vote |-> vote]
           old    == {ballots[k] : k \in DOMAIN ballots \cap {<<id, sender>>}}
           votes  == VotesAfter(p.votes, old, ballot)
           voted  == [p EXCEPT !.votes = votes]
           status == CurrentStatus(voted, height)
           q      == [p EXCEPT !.votes = votes, !.status = status]
<1>1. p \in ProposalRecord
    BY ProposalTyped DEF CoreInv
<1>2. /\ Votable(p) /\ CanCast(p, id, sender, vote) /\ StatusDefined(voted, height)
      /\ proposals' = [proposals EXCEPT ![id] = q]
    BY DEF CastVote
<1>3. /\ Ids' = Ids /\ proposals'[id] = q
      /\ \A j \in Ids : j # id => proposals'[j] = proposals[j]
    BY <1>2 DEF Ids, CoreInv, CoreTyped, StateTyped
<1>4. ~p.allow_revoting => Grown(p.votes, votes)
  <2> SUFFICES ASSUME ~p.allow_revoting, NEW o \in Vote
               PROVE  p.votes[o] <= votes[o]
      BY DEF Grown
  <2>1. old = {}
      BY <1>2 DEF CanCast
  <2>2. SaidFor(old, o) = 0
      BY <2>1, NothingSaid
  <2>3. votes[o] = p.votes[o] - SaidFor(old, o) + (IF vote = o THEN ballot.power ELSE 0)
      BY DEF VotesAfter, SaidFor
  <2>4. p.votes[o] \in Nat /\ ballot.power \in Nat
    <3>1. MadeAt(p) /\ p.votes \in [Vote -> Nat]
        BY <1>1, RecordFields DEF CoreInv, MadeRight
    <3>2. PowerAt(p.start_height) \in [Address -> Nat]
        BY <3>1, PowerTyped DEF CoreInv, CoreTyped
    <3> QED
        BY <3>1, <3>2 DEF PowerOf
  <2> HIDE DEF votes, ballot, old, p
  <2> QED
      BY <2>2, <2>3, <2>4
<1>5. q.votes = votes /\ q.status = status
    BY <1>1 DEF ProposalRecord
<1>6. votes \in Votes
  <2>1. StateTyped'
      BY CastVoteKeeps DEF Kept
  <2>2. proposals'[id] \in ProposalRecord
      BY <1>3, <2>1 DEF StateTyped, Ids
  <2> QED
      BY <1>3, <1>5, <2>2, RecordFields
<1> QED
    BY <1>2, <1>3, <1>4, <1>5, <1>6

\* The tally of the abstract specification is this one.
LEMMA TallyAlike ==
  ASSUME NEW p, NEW n
  PROVE  /\ Lifecycle!CurrentStatus(p, n) = CurrentStatus(p, n)
         /\ Lifecycle!StatusDefined(p, n) <=> StatusDefined(p, n)
<1>1. ASSUME NEW y, NEW options, NEW pct
      PROVE  /\ Lifecycle!CountPasses(y, options, pct) = CountPasses(y, options, pct)
             /\ Lifecycle!CountFails(y, options, pct) = CountFails(y, options, pct)
             /\ Lifecycle!TooManyNo(y, options, pct) = TooManyNo(y, options, pct)
    BY DEF Lifecycle!CountPasses, Lifecycle!CountFails, Lifecycle!TooManyNo,
           CountPasses, CountFails, TooManyNo, Lifecycle!Percent, Percent
<1>2. /\ Lifecycle!Cast(p.votes) = Cast(p.votes)
      /\ Lifecycle!Options(p) = Options(p)
      /\ Lifecycle!OptionsAt(p, n) = OptionsAt(p, n)
      /\ Lifecycle!Unsettled(p, n) = Unsettled(p, n)
      /\ \A t : Lifecycle!Expired(t, n) = Expired(t, n)
    BY DEF Lifecycle!Cast, Cast, Lifecycle!OptionsAt, OptionsAt, Lifecycle!Options, Options,
           Lifecycle!Unsettled, Unsettled, Lifecycle!Expired, Expired
<1>3. Lifecycle!QuorumMet(p) = QuorumMet(p)
    BY <1>1, <1>2 DEF Lifecycle!QuorumMet, QuorumMet
<1>4. Lifecycle!IsPassed(p, n) = IsPassed(p, n)
    BY <1>1, <1>2, <1>3 DEF Lifecycle!IsPassed, IsPassed
<1>5. Lifecycle!IsRejected(p, n) = IsRejected(p, n)
    BY <1>1, <1>2, <1>3 DEF Lifecycle!IsRejected, IsRejected
<1>6. /\ Lifecycle!PassedDefined(p, n) <=> PassedDefined(p, n)
      /\ Lifecycle!RejectedDefined(p, n) <=> RejectedDefined(p, n)
    BY <1>2, <1>3 DEF Lifecycle!PassedDefined, PassedDefined,
                      Lifecycle!RejectedDefined, RejectedDefined
<1> QED
    BY <1>2, <1>4, <1>5, <1>6 DEF Lifecycle!CurrentStatus, CurrentStatus,
                                  Lifecycle!StatusDefined, StatusDefined

\* Nothing happens to the proposal.
LEMMA LifecycleStutters ==
  ASSUME UNCHANGED height, Watched \in Ids' <=> Watched \in Ids,
         Watched \in Ids => proposals'[Watched] = proposals[Watched]
  PROVE  UNCHANGED Lifecycle!lcvars
BY DEF Lifecycle!lcvars, Decided

LEMMA LifecycleSettles ==
  ASSUME CoreInv, Watched \in Ids, UNCHANGED height,
         NEW decision \in {"passed", "rejected"}, NEW settled \in Status,
         StatusDefined(proposals[Watched], height),
         CurrentStatus(proposals[Watched], height) = decision,
         proposals' = [proposals EXCEPT ![Watched].status = settled]
  PROVE  Lifecycle!Settle(decision, settled)
<1> DEFINE p == proposals[Watched]
           q == [p EXCEPT !.status = settled]
<1>1. p \in ProposalRecord
    BY ProposalTyped DEF CoreInv
<1>2. Watched \in Ids' /\ proposals'[Watched] = q
    BY DEF Ids, CoreInv, CoreTyped, StateTyped
<1>3. Decided(q) = [Decided(p) EXCEPT !.status = settled]
    BY <1>1 DEF Decided, ProposalRecord
<1>4. Lifecycle!StatusDefined(Decided(p), height)
      /\ Lifecycle!CurrentStatus(Decided(p), height) = decision
    BY DecidedAlike, TallyAlike
<1> HIDE DEF q
<1> QED
    BY <1>2, <1>3, <1>4 DEF Lifecycle!Settle, Lifecycle!Decides

LEMMA DecidedRevised ==
  ASSUME NEW p \in ProposalRecord, NEW v, NEW status
  PROVE  /\ Decided([p EXCEPT !.votes = v]) = [Decided(p) EXCEPT !.votes = v]
         /\ Decided([p EXCEPT !.votes = v, !.status = status])
              = [[Decided(p) EXCEPT !.votes = v] EXCEPT !.status = status]
<1> DEFINE u == [p EXCEPT !.votes = v]
           w == [p EXCEPT !.votes = v, !.status = status]
<1>1. /\ u.threshold = p.threshold /\ u.votes = v /\ u.total_power = p.total_power
      /\ u.status = p.status /\ u.allow_revoting = p.allow_revoting
      /\ u.min_voting_period = p.min_voting_period /\ u.expiration = p.expiration
    BY DEF ProposalRecord
<1>2. /\ w.threshold = p.threshold /\ w.votes = v /\ w.total_power = p.total_power
      /\ w.status = status /\ w.allow_revoting = p.allow_revoting
      /\ w.min_voting_period = p.min_voting_period /\ w.expiration = p.expiration
    BY DEF ProposalRecord
<1> HIDE DEF u, w
<1>3. Decided(u) = [Decided(p) EXCEPT !.votes = v]
    BY <1>1 DEF Decided
<1>4. Decided(w) = [Decided(u) EXCEPT !.status = status]
    BY <1>1, <1>2 DEF Decided
<1> QED
    BY <1>3, <1>4 DEF u, w

LEMMA LifecycleVotes ==
  ASSUME CoreInv, NEW sender \in Address, NEW vote \in Vote, Watched \in Ids,
         CastVote(sender, Watched, vote), UNCHANGED height
  PROVE  Lifecycle!Voted
<1> DEFINE p == proposals[Watched]
           q == proposals'[Watched]
           v == q.votes
           voted == [p EXCEPT !.votes = v]
<1>1. p \in ProposalRecord
    BY ProposalTyped DEF CoreInv
<1>2. /\ Votable(p) /\ v \in Votes /\ StatusDefined(voted, height)
      /\ Grown(p.votes, v) \/ p.allow_revoting
      /\ q.status = CurrentStatus(voted, height)
      /\ q = [p EXCEPT !.votes = v, !.status = q.status]
      /\ Ids' = Ids
    BY VoteVotes
<1>3. v \in Lifecycle!Revised(Decided(p))
  <2>1. /\ Lifecycle!Votes = Votes
        /\ \A x, y : Lifecycle!Grown(x, y) <=> Grown(x, y)
      BY DEF Lifecycle!Votes, Votes, Lifecycle!Vote, Vote, Lifecycle!Uint128, Uint128,
             Lifecycle!Grown, Grown
  <2> HIDE DEF v
  <2> QED
      BY <1>2, <2>1 DEF Lifecycle!Revised, Decided
<1>4. /\ Decided(voted) = [Decided(p) EXCEPT !.votes = v]
      /\ Decided(q) = [[Decided(p) EXCEPT !.votes = v] EXCEPT !.status = q.status]
  <2> DEFINE status == q.status
  <2>1. q = [p EXCEPT !.votes = v, !.status = status]
      BY <1>2
  <2> HIDE DEF status, p, q, v
  <2>2. \A x, y : /\ Decided([p EXCEPT !.votes = x]) = [Decided(p) EXCEPT !.votes = x]
                  /\ Decided([p EXCEPT !.votes = x, !.status = y])
                       = [[Decided(p) EXCEPT !.votes = x] EXCEPT !.status = y]
      BY <1>1, DecidedRevised
  <2>3. Decided(voted) = [Decided(p) EXCEPT !.votes = v]
      BY <2>2
  <2>4. Decided([p EXCEPT !.votes = v, !.status = status])
          = [[Decided(p) EXCEPT !.votes = v] EXCEPT !.status = status]
      BY <2>2
  <2>5. Decided(q) = [[Decided(p) EXCEPT !.votes = v] EXCEPT !.status = status]
      BY <2>1, <2>4, Zenon
  <2> QED
      BY <2>3, <2>5 DEF status
<1>5. Lifecycle!Decides(Decided(p), "open")
    BY <1>2, DecidedAlike, TallyAlike DEF Lifecycle!Decides, Votable
<1>6. /\ Lifecycle!StatusDefined(Decided(voted), height)
      /\ Lifecycle!CurrentStatus(Decided(voted), height) = q.status
    BY <1>2, DecidedAlike, TallyAlike
<1> DEFINE P == Decided(p)
           Q == Decided(q)
<1>7. /\ v \in Lifecycle!Revised(P) /\ Lifecycle!Decides(P, "open")
      /\ Lifecycle!StatusDefined([P EXCEPT !.votes = v], height)
      /\ Q = [[P EXCEPT !.votes = v] EXCEPT
                !.status = Lifecycle!CurrentStatus([P EXCEPT !.votes = v], height)]
    BY <1>3, <1>4, <1>5, <1>6
<1>8. WatchedProposal = P /\ WatchedProposal' = Q
    BY <1>2 DEF WatchedProposal
<1> HIDE DEF P, Q, v
<1> QED
    BY <1>7, <1>8 DEF Lifecycle!Voted, WatchedProposal

LEMMA LifecycleCreates ==
  ASSUME CoreInv, CoreInv', NEW sender \in Address, NEW m \in Messages,
         Propose(sender, m), UNCHANGED height, Watched = Len(proposals) + 1
  PROVE  Lifecycle!Create
<1> DEFINE q == proposals'[Watched]
           made == [q EXCEPT !.status = "open"]
<1>1. Watched \notin Ids /\ Watched \in Ids'
    BY DEF Propose, Ids, CoreInv, CoreTyped, StateTyped
<1>2. q \in ProposalRecord
    BY <1>1 DEF CoreInv, CoreTyped, StateTyped, Ids
<1>3. /\ q.votes = NoVotes /\ q.status = CurrentStatus(made, height)
      /\ height <= q.expiration /\ q.min_voting_period <= q.expiration
  <2>1. PICK new \in ProposalRecord :
          /\ proposals' = Append(proposals, [new EXCEPT !.status = CurrentStatus(new, height)])
          /\ new.status = "open" /\ new.votes = NoVotes
          /\ new.min_voting_period <= new.expiration /\ height <= new.expiration
      BY ProposalMade
  <2> DEFINE status == CurrentStatus(new, height)
  <2>2. q = [new EXCEPT !.status = status]
      BY <2>1 DEF CoreInv, CoreTyped, StateTyped
  <2> HIDE DEF status, q
  <2>3. made = new
      BY <2>1, <2>2 DEF ProposalRecord
  <2> QED
      BY <2>1, <2>2, <2>3 DEF status, ProposalRecord
<1>4. Decided(q) \in Tallied
    BY <1>2, DecidedTyped
<1>5. [Decided(q) EXCEPT !.status = "open"] = Decided(made)
    BY <1>2 DEF Decided, ProposalRecord
<1>6. Lifecycle!CurrentStatus(Decided(made), height) = q.status
    BY <1>3, DecidedAlike, TallyAlike
<1> DEFINE Q == Decided(q)
<1>7. /\ Q \in Tallied /\ Q.votes = NoVotes /\ height <= Q.expiration
      /\ Q.min_voting_period <= Q.expiration
      /\ Q.status = Lifecycle!CurrentStatus([Q EXCEPT !.status = "open"], height)
    BY <1>3, <1>4, <1>5, <1>6 DEF Decided
<1>8. WatchedProposal = Lifecycle!Absent /\ WatchedProposal' = Q
    BY <1>1 DEF WatchedProposal, Lifecycle!Absent
<1>9. Lifecycle!NoVotes = NoVotes
    BY DEF Lifecycle!NoVotes, NoVotes, Lifecycle!Vote, Vote
<1> HIDE DEF Q
<1> QED
    BY <1>7, <1>8, <1>9 DEF Lifecycle!Create, WatchedProposal

LEMMA LifecycleSteps ==
  CoreInv /\ CoreInv' /\ [Next]_vars => [Lifecycle!LCNext]_(Lifecycle!lcvars)
<1> SUFFICES ASSUME CoreInv, CoreInv', [Next]_vars
             PROVE  Lifecycle!LCNext \/ UNCHANGED Lifecycle!lcvars
    OBVIOUS
<1>1. CASE NextBlock
  <2>1. /\ height < MaxHeight /\ height' = height + 1
        /\ UNCHANGED WatchedProposal
      BY <1>1 DEF NextBlock, WatchedProposal, Ids
  <2>2. Lifecycle!Tick
      BY <2>1 DEF Lifecycle!Tick, WatchedProposal
  <2> QED
      BY <2>2 DEF Lifecycle!LCNext
<1>2. CASE Elsewhere
    BY <1>2, LifecycleStutters DEF Elsewhere, SameBlock, Ids
<1>3. ASSUME NEW sender \in Address, NEW m \in Messages,
             Propose(sender, m) /\ Transaction
      PROVE  Lifecycle!LCNext \/ UNCHANGED Lifecycle!lcvars
  <2>1. CASE Watched = Len(proposals) + 1
      BY <1>3, <2>1, LifecycleCreates DEF Lifecycle!LCNext, Transaction, SameBlock
  <2>2. CASE Watched # Len(proposals) + 1
    <3>1. /\ DOMAIN proposals' = DOMAIN proposals \cup {Len(proposals) + 1}
          /\ \A j \in DOMAIN proposals : proposals'[j] = proposals[j]
        BY <1>3 DEF Propose, CoreInv, CoreTyped, StateTyped
    <3> QED
        BY <1>3, <2>2, <3>1, LifecycleStutters DEF Ids, Transaction, SameBlock
  <2> QED
      BY <2>1, <2>2
<1>4. ASSUME NEW sender \in Address, NEW id \in Ids, NEW vote \in Vote,
             CastVote(sender, id, vote) /\ Transaction
      PROVE  Lifecycle!LCNext \/ UNCHANGED Lifecycle!lcvars
  <2>1. CASE id = Watched
      BY <1>4, <2>1, LifecycleVotes DEF Lifecycle!LCNext, Transaction, SameBlock
  <2>2. CASE id # Watched
    <3>1. Ids' = Ids /\ \A j \in Ids : j # id => proposals'[j] = proposals[j]
        BY <1>4, VoteVotes
    <3> QED
        BY <1>4, <2>2, <3>1, LifecycleStutters DEF Transaction, SameBlock
  <2> QED
      BY <2>1, <2>2
<1>5. ASSUME NEW sender \in Address, NEW id \in Ids,
             (Execute(sender, id) \/ Close(sender, id)) /\ Transaction
      PROVE  Lifecycle!LCNext \/ UNCHANGED Lifecycle!lcvars
  <2>1. CASE id = Watched
    <3>1. CASE Execute(sender, id)
      <4>1. /\ StatusDefined(proposals[Watched], height)
            /\ CurrentStatus(proposals[Watched], height) = "passed"
            /\ proposals' = [proposals EXCEPT ![Watched].status = "executed"]
            /\ "executed" \in Status
          BY <2>1, <3>1 DEF Execute, Executable, Status
      <4>2. Lifecycle!Settle("passed", "executed")
          BY <1>5, <2>1, <4>1, LifecycleSettles DEF Transaction, SameBlock
      <4> QED
          BY <4>2 DEF Lifecycle!LCNext, Lifecycle!Execute
    <3>2. CASE Close(sender, id)
      <4>1. /\ StatusDefined(proposals[Watched], height)
            /\ CurrentStatus(proposals[Watched], height) = "rejected"
            /\ proposals' = [proposals EXCEPT ![Watched].status = "closed"]
            /\ "closed" \in Status
          BY <2>1, <3>2 DEF Close, Status
      <4>2. Lifecycle!Settle("rejected", "closed")
          BY <1>5, <2>1, <4>1, LifecycleSettles DEF Transaction, SameBlock
      <4> QED
          BY <4>2 DEF Lifecycle!LCNext, Lifecycle!Close
    <3> QED
        BY <1>5, <3>1, <3>2
  <2>2. CASE id # Watched
    <3>1. DOMAIN proposals' = DOMAIN proposals
          /\ \A j \in DOMAIN proposals : j # id => proposals'[j] = proposals[j]
        BY <1>5 DEF Execute, Close, CoreInv, CoreTyped, StateTyped
    <3> QED
        BY <1>5, <2>2, <3>1, LifecycleStutters DEF Transaction, SameBlock, Ids
  <2> QED
      BY <2>1, <2>2
<1>6. CASE \E sender \in Dao, m \in Messages \ {NoMessage} :
             DaoCall(sender, m) /\ Transaction
    BY <1>6, LifecycleStutters DEF DaoCall, Ids, Transaction, SameBlock
<1>7. CASE UNCHANGED vars
    BY <1>7, LifecycleStutters DEF vars, Ids
<1> QED
    BY <1>1, <1>2, <1>3, <1>4, <1>5, <1>6, <1>7 DEF Next

(* A proposal lives as ProposalLifecycle says, so what is proved there of  *)
(* its status holds of every proposal of the contract, whatever the voting *)
(* module answers, and what is said there of votes within the total power  *)
(* of those that have no more (contract.rs:113-458, proposal.rs:94-143).   *)
THEOREM LivesAsLifecycle == Spec => LifecycleSpec
<1>1. Init => Lifecycle!LCInit
    BY DEF Init, Lifecycle!LCInit, Lifecycle!Absent, Ids
<1> QED
    BY <1>1, CoreHolds, LifecycleSteps, PTL DEF Spec, LifecycleSpec, Lifecycle!LCSpec

\* A proposal keeps the block and the total power that it was made with.
KeepsMaking ==
  /\ \A id \in Ids :
       /\ id \in Ids'
       /\ proposals'[id].start_height = proposals[id].start_height
       /\ proposals'[id].total_power = proposals[id].total_power
  /\ \A id \in Ids' \ Ids :
       /\ proposals'[id].start_height = height
       /\ proposals'[id].total_power = answer.total

LEMMA MakingKept ==
  ASSUME CoreInv, [Next]_vars
  PROVE  KeepsMaking
<1>1. ASSUME UNCHANGED proposals
      PROVE  KeepsMaking
    BY <1>1 DEF KeepsMaking, Ids
<1>2. ASSUME NEW sender \in Address, NEW m \in Messages, Propose(sender, m)
      PROVE  KeepsMaking
  <2>1. PICK made \in ProposalRecord :
          /\ proposals' = Append(proposals,
                                 [made EXCEPT !.status = CurrentStatus(made, height)])
          /\ made.start_height = height /\ made.total_power = answer.total
      BY <1>2, ProposalMade
  <2> DEFINE rec == [made EXCEPT !.status = CurrentStatus(made, height)]
  <2>2. rec.start_height = height /\ rec.total_power = answer.total
      BY <2>1 DEF ProposalRecord
  <2> HIDE DEF rec
  <2>3. proposals' = Append(proposals, rec) /\ proposals \in Seq(ProposalRecord)
      BY <2>1 DEF rec, CoreInv, CoreTyped, StateTyped
  <2>4. /\ Ids' = Ids \cup {Len(proposals) + 1} /\ proposals'[Len(proposals) + 1] = rec
        /\ Len(proposals) + 1 \notin Ids
        /\ \A id \in Ids : proposals'[id] = proposals[id]
      BY <2>3 DEF Ids
  <2> QED
      BY <2>2, <2>4 DEF KeepsMaking
<1>3. ASSUME NEW sender \in Address, NEW id \in Ids, NEW vote \in Vote,
             CastVote(sender, id, vote)
      PROVE  KeepsMaking
  <2> DEFINE q == proposals'[id]
  <2>1. /\ q = [proposals[id] EXCEPT !.votes = q.votes, !.status = q.status]
        /\ Ids' = Ids
        /\ \A j \in Ids : j # id => proposals'[j] = proposals[j]
      BY <1>3, VoteVotes
  <2>2. proposals[id] \in ProposalRecord
      BY ProposalTyped DEF CoreInv
  <2>3. /\ q.start_height = proposals[id].start_height
        /\ q.total_power = proposals[id].total_power
    <3>1. PICK p : p = proposals[id]
        OBVIOUS
    <3>2. PICK v, s : q = [p EXCEPT !.votes = v, !.status = s]
        BY <2>1, <3>1, Zenon
    <3>3. "start_height" \in DOMAIN p /\ "total_power" \in DOMAIN p
      <4>1. p \in ProposalRecord
          BY <2>2, <3>1
      <4> QED
          BY <4>1 DEF ProposalRecord
    <3> HIDE DEF q
    <3>4. q.start_height = p.start_height /\ q.total_power = p.total_power
        BY <3>2, <3>3
    <3> QED
        BY <3>1, <3>4
  <2> QED
      BY <2>1, <2>3 DEF KeepsMaking
<1>4. ASSUME NEW sender \in Address, NEW id \in Ids, Execute(sender, id) \/ Close(sender, id)
      PROVE  KeepsMaking
  <2>1. PICK status : proposals' = [proposals EXCEPT ![id].status = status]
      BY <1>4 DEF Execute, Close
  <2>2. proposals[id] \in ProposalRecord
      BY ProposalTyped DEF CoreInv
  <2>3. /\ Ids' = Ids
        /\ \A j \in Ids : /\ proposals'[j].start_height = proposals[j].start_height
                          /\ proposals'[j].total_power = proposals[j].total_power
      BY <2>1, <2>2 DEF Ids, ProposalRecord
  <2> QED
      BY <2>3 DEF KeepsMaking
<1>5. ASSUME NEW sender, NEW m, DaoCall(sender, m)
      PROVE  KeepsMaking
    BY <1>1, <1>5 DEF DaoCall
<1> QED
    BY <1>1, <1>2, <1>3, <1>4, <1>5 DEF Next, vars, NextBlock, Elsewhere

-----------------------------------------------------------------------------
(* The hooks.                                                              *)

Lists == {"proposal", "vote"}
HookLists == [proposal : Seq(Receiver), vote : Seq(Receiver)]
SubMsg == [to : Receiver, id : Nat]

\* What the submessages have made of the hooks, one after the other.
Sent(h, msgs, br, n, g) ==
  g = [k \in 0 .. n |-> IF k = 0 THEN h ELSE Send(g[k - 1], msgs[k], br)]

LEMMA SentUpTo ==
  ASSUME NEW h, NEW msgs, NEW br, NEW N \in Nat
  PROVE  \E g : Sent(h, msgs, br, N, g)
<1> DEFINE Bad == {n \in Nat : ~\E g : Sent(h, msgs, br, n, g)}
<1>1. Bad = {}
  <2> SUFFICES ASSUME Bad # {}
               PROVE  FALSE
      OBVIOUS
  <2>1. PICK n \in Bad : \A m \in Bad : n <= m
      BY LeastNatural
  <2>2. CASE n = 0
    <3> DEFINE g == [k \in 0 .. 0 |-> h]
    <3>1. Sent(h, msgs, br, 0, g)
        BY DEF Sent
    <3> QED
        BY <2>2, <3>1
  <2>3. CASE n # 0
    <3>1. n \in Nat /\ n - 1 \in Nat /\ n - 1 \notin Bad
        BY <2>1, <2>3
    <3>2. PICK p : Sent(h, msgs, br, n - 1, p)
        BY <3>1
    <3> DEFINE q == [k \in 0 .. n |-> IF k = 0 THEN h ELSE Send(p[k - 1], msgs[k], br)]
    <3>3. \A k \in 0 .. n - 1 : p[k] = IF k = 0 THEN h ELSE Send(p[k - 1], msgs[k], br)
        BY <3>2 DEF Sent
    <3>4. \A k \in 0 .. n - 1 : q[k] = p[k]
        BY <3>1, <3>3
    <3>5. \A k \in 1 .. n : k - 1 \in 0 .. n - 1
        BY <3>1
    <3>6. q = [k \in 0 .. n |-> IF k = 0 THEN h ELSE Send(q[k - 1], msgs[k], br)]
      <4>1. \A k \in 1 .. n : q[k - 1] = p[k - 1]
          BY <3>4, <3>5
      <4>2. \A k \in 0 .. n : k # 0 => k \in 1 .. n
          BY <3>1
      <4> QED
          BY <4>1, <4>2
    <3>7. Sent(h, msgs, br, n, q)
        BY <3>6 DEF Sent
    <3> QED
        BY <3>7
  <2> QED
      BY <2>2, <2>3
<1> QED
    BY <1>1

LEMMA DispatchSends ==
  ASSUME NEW h, NEW msgs, NEW br, Len(msgs) \in Nat
  PROVE  \E g : /\ g[0] = h
                /\ \A k \in 1 .. Len(msgs) : g[k] = Send(g[k - 1], msgs[k], br)
                /\ Dispatch(h, msgs, br) = g[Len(msgs)]
<1> DEFINE N == Len(msgs)
           g == CHOOSE f : Sent(h, msgs, br, N, f)
<1>1. Dispatch(h, msgs, br) = g[N]
    BY DEF Dispatch, Sent
<1>2. Sent(h, msgs, br, N, g)
    BY SentUpTo
<1> HIDE DEF g
<1>3. \A k \in 0 .. N : g[k] = IF k = 0 THEN h ELSE Send(g[k - 1], msgs[k], br)
    BY <1>2 DEF Sent
<1>4. g[0] = h /\ \A k \in 1 .. N : g[k] = Send(g[k - 1], msgs[k], br)
    BY <1>3
<1> QED
    BY <1>1, <1>4

Distinct(s) == \A i, j \in DOMAIN s : s[i] = s[j] => i = j

\* No receiver is listed twice.
GoodHooks(h) == h \in HookLists /\ \A list \in Lists : Distinct(h[list])

LEMMA RemoveAtIs ==
  ASSUME NEW S, NEW s \in Seq(S), NEW i \in 1 .. Len(s)
  PROVE  /\ RemoveAt(s, i) \in Seq(S)
         /\ Len(RemoveAt(s, i)) = Len(s) - 1
         /\ \A j \in 1 .. Len(s) - 1 : RemoveAt(s, i)[j] = s[IF j < i THEN j ELSE j + 1]
<1> DEFINE a == SubSeq(s, 1, i - 1)
           b == SubSeq(s, i + 1, Len(s))
<1>1. /\ a \in Seq(S) /\ Len(a) = i - 1 /\ \A j \in 1 .. i - 1 : a[j] = s[j]
    OBVIOUS
<1>2. /\ b \in Seq(S) /\ Len(b) = Len(s) - i
      /\ \A j \in 1 .. Len(s) - i : b[j] = s[i + j]
    OBVIOUS
<1>3. RemoveAt(s, i) = a \o b
    BY DEF RemoveAt
<1> HIDE DEF a, b
<1>4. /\ a \o b \in Seq(S) /\ Len(a \o b) = Len(s) - 1
      /\ \A j \in 1 .. Len(s) - 1 :
           (a \o b)[j] = IF j < i THEN a[j] ELSE b[j - (i - 1)]
  <2>1. i \in Nat /\ Len(s) \in Nat /\ (i - 1) + (Len(s) - i) = Len(s) - 1
      OBVIOUS
  <2>2. /\ a \o b \in Seq(S) /\ Len(a \o b) = Len(a) + Len(b)
        /\ \A j \in 1 .. Len(a) + Len(b) :
             (a \o b)[j] = IF j <= Len(a) THEN a[j] ELSE b[j - Len(a)]
      BY <1>1, <1>2, ConcatProperties
  <2>3. Len(a) + Len(b) = Len(s) - 1
      BY <1>1, <1>2, <2>1
  <2>4. \A j \in 1 .. Len(s) - 1 : j <= Len(a) <=> j < i
      BY <1>1, <2>1
  <2> QED
      BY <1>1, <2>2, <2>3, <2>4
<1>5. \A j \in 1 .. Len(s) - 1 : (a \o b)[j] = s[IF j < i THEN j ELSE j + 1]
  <2> TAKE j \in 1 .. Len(s) - 1
  <2>1. CASE j < i
      BY <1>1, <1>4, <2>1
  <2>2. CASE ~(j < i)
    <3>1. j - (i - 1) \in 1 .. Len(s) - i /\ i + (j - (i - 1)) = j + 1
        BY <2>2
    <3> QED
        BY <1>2, <1>4, <2>2, <3>1
  <2> QED
      BY <2>1, <2>2
<1> QED
    BY <1>3, <1>4, <1>5

LEMMA RemoveAtDistinct ==
  ASSUME NEW S, NEW s \in Seq(S), NEW i \in 1 .. Len(s), Distinct(s)
  PROVE  Distinct(RemoveAt(s, i))
<1> DEFINE t == RemoveAt(s, i)
           From(j) == IF j < i THEN j ELSE j + 1
<1>1. /\ t \in Seq(S) /\ Len(t) = Len(s) - 1
      /\ \A j \in 1 .. Len(s) - 1 : t[j] = s[From(j)]
    BY RemoveAtIs
<1>2. ASSUME NEW j \in 1 .. Len(s) - 1, NEW k \in 1 .. Len(s) - 1, t[j] = t[k]
      PROVE  j = k
  <2>1. From(j) \in DOMAIN s /\ From(k) \in DOMAIN s
      OBVIOUS
  <2>2. s[From(j)] = s[From(k)]
      BY <1>1, <1>2
  <2>3. From(j) = From(k)
    <3> HIDE DEF From
    <3> QED
        BY <2>1, <2>2 DEF Distinct
  <2> QED
      BY <2>3
<1> HIDE DEF t
<1>3. DOMAIN t = 1 .. Len(s) - 1
    BY <1>1
<1>4. Distinct(t)
    BY <1>2, <1>3 DEF Distinct
<1> QED
    BY <1>4 DEF t

\* What writing one of the lists makes of them.
LEMMA ListWritten ==
  ASSUME NEW h, GoodHooks(h), NEW list \in Lists, NEW s \in Seq(Receiver), Distinct(s)
  PROVE  /\ GoodHooks([h EXCEPT ![list] = s])
         /\ [h EXCEPT ![list] = s][list] = s
         /\ \A other \in Lists \ {list} : [h EXCEPT ![list] = s][other] = h[other]
<1> DEFINE g == [h EXCEPT ![list] = s]
<1>1. /\ g \in HookLists /\ g[list] = s
      /\ \A other \in Lists \ {list} : g[other] = h[other]
  <2>1. h \in HookLists
      BY DEF GoodHooks
  <2>2. CASE list = "proposal"
      BY <2>1, <2>2 DEF HookLists, Lists
  <2>3. CASE list = "vote"
      BY <2>1, <2>3 DEF HookLists, Lists
  <2> QED
      BY <2>2, <2>3 DEF Lists
<1> HIDE DEF g
<1>2. GoodHooks(g)
    BY <1>1 DEF GoodHooks
<1> QED
    BY <1>1, <1>2 DEF g

LEMMA ReplyIs ==
  ASSUME NEW h, GoodHooks(h), NEW id \in Nat, Reply(h, id) # Panicked
  PROVE  /\ GoodHooks(Reply(h, id))
         /\ Reply(h, id)[ReplyList(id)] = RemoveAt(h[ReplyList(id)], ReplyIndex(id) + 1)
         /\ \A other \in Lists \ {ReplyList(id)} : Reply(h, id)[other] = h[other]
<1> DEFINE list == ReplyList(id)
           i == ReplyIndex(id) + 1
           s == RemoveAt(h[list], i)
<1>1. list \in Lists /\ i \in Nat \ {0} /\ ReplyIndex(id) \in Nat
    BY DEF ReplyList, ReplyIndex, Lists
<1>2. h[list] \in Seq(Receiver) /\ Distinct(h[list])
    BY <1>1 DEF GoodHooks, HookLists, Lists
<1>3. /\ ReplyIndex(id) < Len(h[list])
      /\ Reply(h, id) = [h EXCEPT ![list] = RemoveAt(@, i)]
    BY DEF Reply
<1>4. i \in 1 .. Len(h[list])
    BY <1>1, <1>2, <1>3
<1>5. s \in Seq(Receiver) /\ Distinct(s)
    BY <1>2, <1>4, RemoveAtIs, RemoveAtDistinct
<1>6. Reply(h, id) = [h EXCEPT ![list] = s]
    BY <1>3
<1> HIDE DEF list, s
<1>7. /\ GoodHooks([h EXCEPT ![list] = s])
      /\ [h EXCEPT ![list] = s][list] = s
      /\ \A other \in Lists \ {list} : [h EXCEPT ![list] = s][other] = h[other]
    BY <1>1, <1>5, ListWritten
<1> QED
    BY <1>6, <1>7 DEF list, s

\* The submessages that take a receiver off the list.
Losing(msgs, br, list) ==
  {n \in DOMAIN msgs : msgs[n].to \in br /\ ReplyList(msgs[n].id) = list}

\* A list loses nothing, or the place that the one reply to it names.
LEMMA OneReply ==
  ASSUME NEW h, GoodHooks(h), NEW msgs \in Seq(SubMsg), NEW br,
         Dispatch(h, msgs, br) # Panicked
  PROVE  /\ GoodHooks(Dispatch(h, msgs, br))
         /\ \A list \in Lists :
              /\ Losing(msgs, br, list) = {} => Dispatch(h, msgs, br)[list] = h[list]
              /\ \A n \in Losing(msgs, br, list) :
                   Losing(msgs, br, list) = {n} =>
                     Dispatch(h, msgs, br)[list]
                       = RemoveAt(h[list], ReplyIndex(msgs[n].id) + 1)
<1> DEFINE N == Len(msgs)
<1>1. N \in Nat /\ DOMAIN msgs = 1 .. N
    OBVIOUS
<1>2. PICK g : /\ g[0] = h
               /\ \A k \in 1 .. N : g[k] = Send(g[k - 1], msgs[k], br)
               /\ Dispatch(h, msgs, br) = g[N]
    BY DispatchSends
<1> DEFINE Upto(list, k) == {n \in Losing(msgs, br, list) : n <= k}
           Fine(k) == /\ GoodHooks(g[k])
                      /\ \A list \in Lists :
                           /\ Upto(list, k) = {} => g[k][list] = h[list]
                           /\ \A n \in Upto(list, k) :
                                Losing(msgs, br, list) = {n} =>
                                  g[k][list] = RemoveAt(h[list], ReplyIndex(msgs[n].id) + 1)
           Bad == {k \in Nat : k <= N /\ g[k] # Panicked /\ ~Fine(k)}
<1>3. \A list : Losing(msgs, br, list) \subseteq 1 .. N
    BY <1>1 DEF Losing
<1>4. Fine(0)
    BY <1>2, <1>3
<1>5. ASSUME NEW k \in 1 .. N, g[k - 1] = Panicked \/ Fine(k - 1), g[k] # Panicked
      PROVE  Fine(k)
  <2>1. g[k] = Send(g[k - 1], msgs[k], br)
      BY <1>2
  <2>2. g[k - 1] # Panicked /\ Fine(k - 1)
      BY <1>5, <2>1 DEF Send
  <2>3. msgs[k].id \in Nat
    <3>1. msgs[k] \in SubMsg
        BY <1>1
    <3> QED
        BY <3>1 DEF SubMsg
  <2>4. CASE msgs[k].to \notin br
    <3>1. g[k] = g[k - 1]
        BY <2>1, <2>4 DEF Send
    <3>2. \A list : Upto(list, k) = Upto(list, k - 1)
        BY <1>3, <2>4 DEF Losing
    <3> QED
        BY <2>2, <3>1, <3>2
  <2>5. CASE msgs[k].to \in br
    <3>1. g[k] = Reply(g[k - 1], msgs[k].id)
        BY <2>1, <2>2, <2>5 DEF Send
    <3> DEFINE mine == ReplyList(msgs[k].id)
    <3>2. /\ GoodHooks(g[k])
          /\ g[k][mine] = RemoveAt(g[k - 1][mine], ReplyIndex(msgs[k].id) + 1)
          /\ \A other \in Lists \ {mine} : g[k][other] = g[k - 1][other]
        BY <1>5, <2>2, <2>3, <3>1, ReplyIs
    <3>3. ASSUME NEW list \in Lists
          PROVE  /\ Upto(list, k) = {} => g[k][list] = h[list]
                 /\ \A n \in Upto(list, k) :
                      Losing(msgs, br, list) = {n} =>
                        g[k][list] = RemoveAt(h[list], ReplyIndex(msgs[n].id) + 1)
      <4>1. CASE list # mine
        <5>1. Upto(list, k) = Upto(list, k - 1)
            BY <1>3, <4>1 DEF Losing
        <5> QED
            BY <2>2, <3>2, <4>1, <5>1
      <4>2. CASE list = mine
        <5>1. k \in Upto(list, k)
            BY <1>1, <2>5, <4>2 DEF Losing
        <5>2. ASSUME Losing(msgs, br, list) = {k}
              PROVE  Upto(list, k - 1) = {}
            BY <5>2
        <5>3. Losing(msgs, br, list) = {k} => g[k - 1][list] = h[list]
            BY <2>2, <5>2
        <5>4. \A n \in Upto(list, k) : Losing(msgs, br, list) = {n} => n = k
            BY <5>1
        <5> QED
            BY <3>2, <4>2, <5>1, <5>3, <5>4
      <4> QED
          BY <4>1, <4>2
    <3> QED
        BY <3>2, <3>3
  <2> QED
      BY <2>4, <2>5
<1> HIDE DEF Fine
<1>6. Bad = {}
  <2> SUFFICES ASSUME Bad # {}
               PROVE  FALSE
      OBVIOUS
  <2>1. PICK k \in Bad : \A m \in Bad : k <= m
      BY LeastNatural
  <2>2. k # 0
      BY <1>4
  <2>3. k \in 1 .. N /\ k - 1 \in Nat /\ k - 1 <= N /\ k - 1 \notin Bad
      BY <1>1, <2>1, <2>2
  <2>4. g[k - 1] = Panicked \/ Fine(k - 1)
      BY <2>3
  <2> QED
      BY <1>5, <2>3, <2>4
<1>7. Fine(N)
    BY <1>1, <1>2, <1>6
<1>8. \A list : Upto(list, N) = Losing(msgs, br, list)
    BY <1>1, <1>3
<1> QED
    BY <1>2, <1>7, <1>8 DEF Fine

\* The submessages go, among others, to the receivers of the list in their
\* order, and their ids name these.
Tells(msgs, s, list) ==
  \E d \in Nat :
    /\ \A i \in DOMAIN s :
         /\ d + i \in DOMAIN msgs /\ msgs[d + i].to = s[i]
         /\ ReplyList(msgs[d + i].id) = list /\ ReplyIndex(msgs[d + i].id) + 1 = i
    /\ \A n \in DOMAIN msgs : ReplyList(msgs[n].id) = list => n - d \in DOMAIN s

Places(s, br) == {i \in DOMAIN s : s[i] \in br}

LEMMA OneOfListRemoved ==
  ASSUME NEW h, GoodHooks(h), NEW msgs \in Seq(SubMsg), NEW br,
         Dispatch(h, msgs, br) # Panicked,
         NEW list \in Lists, Tells(msgs, h[list], list),
         \A i, j \in Places(h[list], br) : i = j
  PROVE  Dispatch(h, msgs, br)[list]
           = IF Places(h[list], br) = {} THEN h[list]
             ELSE RemoveAt(h[list], CHOOSE i \in Places(h[list], br) : TRUE)
<1> DEFINE s == h[list]
           P == Places(s, br)
           L == Losing(msgs, br, list)
           end == Dispatch(h, msgs, br)
<1>1. s \in Seq(Receiver)
    BY DEF GoodHooks, HookLists, Lists
<1>2. PICK d \in Nat :
        /\ \A i \in DOMAIN s :
             /\ d + i \in DOMAIN msgs /\ msgs[d + i].to = s[i]
             /\ ReplyList(msgs[d + i].id) = list /\ ReplyIndex(msgs[d + i].id) + 1 = i
        /\ \A n \in DOMAIN msgs : ReplyList(msgs[n].id) = list => n - d \in DOMAIN s
    BY DEF Tells
<1>3. \A n \in L : n - d \in P /\ d + (n - d) = n
  <2> SUFFICES ASSUME NEW n \in L
               PROVE  n - d \in P /\ d + (n - d) = n
      OBVIOUS
  <2>1. /\ n \in DOMAIN msgs /\ n \in Nat /\ msgs[n].to \in br
        /\ ReplyList(msgs[n].id) = list
      BY DEF Losing
  <2>2. n - d \in DOMAIN s /\ d + (n - d) = n
      BY <1>2, <2>1
  <2>3. msgs[d + (n - d)].to = s[n - d]
      BY <1>2, <2>2
  <2> QED
      BY <2>1, <2>2, <2>3 DEF Places
<1>4. \A i \in P : d + i \in L
    BY <1>2 DEF Places, Losing
<1>5. /\ L = {} => end[list] = s
      /\ \A n \in L : L = {n} => end[list] = RemoveAt(s, ReplyIndex(msgs[n].id) + 1)
    BY OneReply
<1>6. CASE P = {}
    BY <1>3, <1>5, <1>6
<1>7. CASE P # {}
  <2> DEFINE i == CHOOSE j \in P : TRUE
  <2>1. i \in P /\ \A j \in P : j = i
      BY <1>7
  <2> HIDE DEF i
  <2>2. d + i \in L /\ \A n \in L : n = d + i
      BY <1>3, <1>4, <2>1
  <2>3. L = {d + i} /\ ReplyIndex(msgs[d + i].id) + 1 = i
      BY <1>2, <2>1, <2>2 DEF Places
  <2>4. end[list] = RemoveAt(s, i)
      BY <1>5, <2>2, <2>3
  <2> QED
      BY <1>7, <2>4 DEF i
<1> QED
    BY <1>6, <1>7

\* An id finds back its list and its place.
LEMMA IdsAreRead ==
  ASSUME NEW i \in Nat \ {0}, NEW kind \in Lists
  PROVE  LET id == 2 * (i - 1) + IF kind = "vote" THEN 1 ELSE 0
         IN  id \in Nat /\ ReplyList(id) = kind /\ ReplyIndex(id) + 1 = i
<1>1. CASE kind = "vote"
    BY <1>1 DEF ReplyList, ReplyIndex
<1>2. CASE kind = "proposal"
    BY <1>2 DEF ReplyList, ReplyIndex
<1> QED
    BY <1>1, <1>2 DEF Lists

LEMMA SubMsgsAre ==
  ASSUME NEW s \in Seq(Receiver), NEW kind \in Lists
  PROVE  /\ SubMsgs(s, kind) \in Seq(SubMsg) /\ Len(SubMsgs(s, kind)) = Len(s)
         /\ \A i \in 1 .. Len(s) :
              /\ SubMsgs(s, kind)[i].to = s[i]
              /\ ReplyList(SubMsgs(s, kind)[i].id) = kind
              /\ ReplyIndex(SubMsgs(s, kind)[i].id) + 1 = i
<1> DEFINE ms == SubMsgs(s, kind)
           Id(i) == 2 * (i - 1) + IF kind = "vote" THEN 1 ELSE 0
<1>1. ms = [i \in 1 .. Len(s) |-> [to |-> s[i], id |-> Id(i)]] /\ Len(s) \in Nat
    BY DEF SubMsgs
<1>2. \A i \in 1 .. Len(s) : /\ Id(i) \in Nat /\ ReplyList(Id(i)) = kind
                             /\ ReplyIndex(Id(i)) + 1 = i
    BY IdsAreRead
<1> HIDE DEF ms, Id
<1>3. \A i \in 1 .. Len(s) : s[i] \in Receiver
    OBVIOUS
<1>4. ms \in [1 .. Len(s) -> SubMsg]
    BY <1>1, <1>2, <1>3 DEF SubMsg
<1>5. ms \in Seq(SubMsg) /\ Len(ms) = Len(s)
    BY <1>1, <1>4
<1>6. \A i \in 1 .. Len(s) : ms[i].to = s[i] /\ ms[i].id = Id(i)
    BY <1>1
<1> QED
    BY <1>2, <1>5, <1>6 DEF ms

LEMMA OneListTold ==
  ASSUME NEW s \in Seq(Receiver), NEW kind \in Lists
  PROVE  Tells(SubMsgs(s, kind), s, kind)
<1> DEFINE ms == SubMsgs(s, kind)
<1>1. /\ DOMAIN ms = 1 .. Len(s) /\ DOMAIN s = 1 .. Len(s)
      /\ \A i \in 1 .. Len(s) : /\ ms[i].to = s[i] /\ ReplyList(ms[i].id) = kind
                                 /\ ReplyIndex(ms[i].id) + 1 = i
    BY SubMsgsAre
<1> HIDE DEF ms
<1>2. \A i \in 1 .. Len(s) : 0 + i = i /\ i - 0 = i
    OBVIOUS
<1>3. Tells(ms, s, kind)
    BY <1>1, <1>2 DEF Tells
<1> QED
    BY <1>3 DEF ms

LEMMA MsgsJoined ==
  ASSUME NEW a \in Seq(SubMsg), NEW b \in Seq(SubMsg)
  PROVE  /\ a \o b \in Seq(SubMsg) /\ DOMAIN (a \o b) = 1 .. Len(a) + Len(b)
         /\ \A n \in 1 .. Len(a) + Len(b) :
              (a \o b)[n] = IF n <= Len(a) THEN a[n] ELSE b[n - Len(a)]
BY ConcatProperties

LEMMA TwoListsTold ==
  ASSUME NEW s \in Seq(Receiver), NEW t \in Seq(Receiver)
  PROVE  LET ms == SubMsgs(s, "proposal") \o SubMsgs(t, "vote")
         IN  /\ ms \in Seq(SubMsg)
             /\ Tells(ms, s, "proposal") /\ Tells(ms, t, "vote")
<1> DEFINE a == SubMsgs(s, "proposal")
           b == SubMsgs(t, "vote")
           ms == a \o b
<1>1. /\ a \in Seq(SubMsg) /\ Len(a) = Len(s)
      /\ \A i \in 1 .. Len(s) : /\ a[i].to = s[i] /\ ReplyList(a[i].id) = "proposal"
                                 /\ ReplyIndex(a[i].id) + 1 = i
    BY SubMsgsAre DEF Lists
<1>2. /\ b \in Seq(SubMsg) /\ Len(b) = Len(t)
      /\ \A i \in 1 .. Len(t) : /\ b[i].to = t[i] /\ ReplyList(b[i].id) = "vote"
                                 /\ ReplyIndex(b[i].id) + 1 = i
    BY SubMsgsAre DEF Lists
<1>3. /\ Len(s) \in Nat /\ Len(t) \in Nat
      /\ DOMAIN s = 1 .. Len(s) /\ DOMAIN t = 1 .. Len(t)
    OBVIOUS
<1> HIDE DEF a, b
<1>4. /\ ms \in Seq(SubMsg) /\ DOMAIN ms = 1 .. Len(s) + Len(t)
      /\ \A n \in 1 .. Len(s) + Len(t) :
           ms[n] = IF n <= Len(s) THEN a[n] ELSE b[n - Len(s)]
  <2>1. a \in Seq(SubMsg) /\ b \in Seq(SubMsg)
      BY <1>1, <1>2
  <2>2. /\ a \o b \in Seq(SubMsg) /\ DOMAIN (a \o b) = 1 .. Len(a) + Len(b)
        /\ \A n \in 1 .. Len(a) + Len(b) :
             (a \o b)[n] = IF n <= Len(a) THEN a[n] ELSE b[n - Len(a)]
      BY ONLY <2>1, MsgsJoined
  <2>3. Len(a) = Len(s) /\ Len(b) = Len(t)
      BY <1>1, <1>2
  <2> QED
      BY <2>2, <2>3
<1> HIDE DEF ms
<1>5. \A i \in 1 .. Len(s) : i \in DOMAIN ms /\ ms[i] = a[i]
    BY <1>3, <1>4
<1>6. \A i \in 1 .. Len(t) : Len(s) + i \in DOMAIN ms /\ ms[Len(s) + i] = b[i]
    BY <1>3, <1>4
<1>7. \A n \in DOMAIN ms :
        IF n <= Len(s) THEN n \in 1 .. Len(s) /\ n - 0 = n /\ ms[n] = a[n]
        ELSE n - Len(s) \in 1 .. Len(t) /\ ms[n] = b[n - Len(s)]
    BY <1>3, <1>4
<1>8. Tells(ms, s, "proposal")
  <2>1. \A i \in DOMAIN s :
          /\ 0 + i \in DOMAIN ms /\ ms[0 + i].to = s[i]
          /\ ReplyList(ms[0 + i].id) = "proposal" /\ ReplyIndex(ms[0 + i].id) + 1 = i
      BY <1>1, <1>3, <1>5
  <2>2. \A n \in DOMAIN ms : ReplyList(ms[n].id) = "proposal" => n - 0 \in DOMAIN s
      BY <1>2, <1>3, <1>7
  <2> QED
      BY <2>1, <2>2 DEF Tells
<1>9. Tells(ms, t, "vote")
  <2>1. \A i \in DOMAIN t :
          /\ Len(s) + i \in DOMAIN ms /\ ms[Len(s) + i].to = t[i]
          /\ ReplyList(ms[Len(s) + i].id) = "vote"
          /\ ReplyIndex(ms[Len(s) + i].id) + 1 = i
      BY <1>2, <1>3, <1>6
  <2>2. \A n \in DOMAIN ms : ReplyList(ms[n].id) = "vote" => n - Len(s) \in DOMAIN t
      BY <1>1, <1>3, <1>7
  <2> QED
      BY <1>3, <2>1, <2>2 DEF Tells
<1> QED
    BY <1>4, <1>8, <1>9 DEF ms, a, b

-----------------------------------------------------------------------------
(* The hooks of each step.                                                 *)

ReceiversGood == GoodHooks(hooks)

LEMMA ListsTyped ==
  ASSUME NEW h, GoodHooks(h), NEW list \in Lists
  PROVE  h[list] \in Seq(Receiver) /\ Distinct(h[list])
BY DEF GoodHooks, HookLists, Lists

LEMMA AddedGood ==
  ASSUME NEW h, GoodHooks(h), NEW list \in Lists, NEW r \in Receiver,
         CanAddHook(h[list], r)
  PROVE  GoodHooks([h EXCEPT ![list] = AddHook(h[list], r)])
<1> DEFINE s == h[list]
           t == Append(s, r)
<1>1. s \in Seq(Receiver) /\ Distinct(s)
    BY ListsTyped
<1>2. \A i \in 1 .. Len(s) : s[i] # r
    BY <1>1 DEF CanAddHook, Contains
<1>3. /\ t \in Seq(Receiver) /\ DOMAIN t = DOMAIN s \cup {Len(s) + 1}
      /\ t[Len(s) + 1] = r /\ \A i \in DOMAIN s : t[i] = s[i]
      /\ DOMAIN s = 1 .. Len(s)
    BY <1>1
<1> HIDE DEF t, s
<1>4. Distinct(t)
    BY <1>1, <1>2, <1>3 DEF Distinct
<1>5. GoodHooks([h EXCEPT ![list] = t])
    BY <1>3, <1>4, ListWritten
<1> QED
    BY <1>5 DEF AddHook, t, s

LEMMA RemovedGood ==
  ASSUME NEW h, GoodHooks(h), NEW list \in Lists, NEW r \in Receiver,
         CanRemoveHook(h[list], r)
  PROVE  GoodHooks([h EXCEPT ![list] = RemoveHook(h[list], r)])
<1> DEFINE s == h[list]
           i == CHOOSE j \in DOMAIN s : s[j] = r
           t == RemoveAt(s, i)
<1>1. s \in Seq(Receiver) /\ Distinct(s)
    BY ListsTyped
<1>2. i \in 1 .. Len(s)
  <2>1. \E j \in DOMAIN s : s[j] = r
      BY <1>1 DEF CanRemoveHook, Contains
  <2> QED
      BY <1>1, <2>1
<1> HIDE DEF i, s
<1>3. t \in Seq(Receiver) /\ Distinct(t)
    BY <1>1, <1>2, RemoveAtIs, RemoveAtDistinct
<1> HIDE DEF t
<1>4. GoodHooks([h EXCEPT ![list] = t])
    BY <1>3, ListWritten
<1> QED
    BY <1>4 DEF RemoveHook, t, i, s

\* What the messages of the DAO make of the hooks.
LEMMA CalledHooks ==
  ASSUME ReceiversGood, NEW m \in Message, NEW after \in Called(Admin, m)
  PROVE  /\ GoodHooks(after.hooks)
         /\ m.call \in {"none", "update_config", "allow", "disallow"} => after.hooks = hooks
<1> DEFINE adm == Admin
<1>1. /\ adm = [config |-> adm.config, allowed |-> adm.allowed, hooks |-> adm.hooks]
      /\ GoodHooks(adm.hooks) /\ adm.hooks = hooks /\ after \in Called(adm, m)
    BY DEF Admin, ReceiversGood
<1> HIDE DEF adm
<1>2. CASE m.call = "none"
    BY <1>1, <1>2 DEF Called
<1>3. CASE m.call = "update_config"
  <2>1. after = [adm EXCEPT !.config = Configured(m.config)]
      BY <1>1, <1>3 DEF Called, UpdateConfig, When
  <2> QED
      BY <1>1, <2>1
<1>4. CASE m.call = "allow"
  <2>1. after = [adm EXCEPT !.allowed = @ \cup {m.address}]
      BY <1>1, <1>4 DEF Called, RegisterAllowed, When
  <2> QED
      BY <1>1, <2>1
<1>5. CASE m.call = "disallow"
  <2>1. after = [adm EXCEPT !.allowed = @ \ {m.address}]
      BY <1>1, <1>5 DEF Called, DeregisterAllowed, When
  <2> QED
      BY <1>1, <2>1
<1>6. CASE m.call \in {"add_proposal_hook", "add_vote_hook"}
  <2>0. m.receiver \in Receiver
      BY <1>6 DEF Message, NoMessage
  <2>1. \E list \in Lists : after \in AddHookTo(adm, list, m.receiver)
      BY <1>1, <1>6 DEF Called, Lists
  <2>2. PICK list \in Lists :
          /\ CanAddHook(adm.hooks[list], m.receiver)
          /\ after = [adm EXCEPT !.hooks[list] = AddHook(@, m.receiver)]
      BY <2>1 DEF AddHookTo, When
  <2>3. after.hooks = [adm.hooks EXCEPT ![list] = AddHook(adm.hooks[list], m.receiver)]
      BY <1>1, <2>2
  <2> QED
      BY <1>1, <1>6, <2>0, <2>2, <2>3, AddedGood
<1>7. CASE m.call \in {"remove_proposal_hook", "remove_vote_hook"}
  <2>0. m.receiver \in Receiver
      BY <1>7 DEF Message, NoMessage
  <2>1. \E list \in Lists : after \in RemoveHookFrom(adm, list, m.receiver)
      BY <1>1, <1>7 DEF Called, Lists
  <2>2. PICK list \in Lists :
          /\ CanRemoveHook(adm.hooks[list], m.receiver)
          /\ after = [adm EXCEPT !.hooks[list] = RemoveHook(@, m.receiver)]
      BY <2>1 DEF RemoveHookFrom, When
  <2>3. after.hooks = [adm.hooks EXCEPT ![list] = RemoveHook(adm.hooks[list], m.receiver)]
      BY <1>1, <2>2
  <2> QED
      BY <1>1, <1>7, <2>0, <2>2, <2>3, RemovedGood
<1>8. m.call \in {"none", "update_config", "add_proposal_hook", "add_vote_hook",
                  "remove_proposal_hook", "remove_vote_hook", "allow", "disallow"}
    BY DEF Message, NoMessage
<1> QED
    BY <1>2, <1>3, <1>4, <1>5, <1>6, <1>7, <1>8

\* What a handler tells the receivers of a change of status.
LEMMA StatusMsgsAre ==
  ASSUME NEW h, GoodHooks(h), NEW old, NEW new
  PROVE  /\ StatusMsgs(h, old, new) \in Seq(SubMsg)
         /\ old # new => Tells(StatusMsgs(h, old, new), h["proposal"], "proposal")
<1>1. h.proposal \in Seq(Receiver) /\ h.proposal = h["proposal"] /\ "proposal" \in Lists
    BY ListsTyped DEF Lists
<1> QED
    BY <1>1, SubMsgsAre, OneListTold DEF StatusMsgs

LEMMA VoteMsgsAre ==
  ASSUME NEW h, GoodHooks(h), NEW old, NEW new
  PROVE  LET ms == StatusMsgs(h, old, new) \o SubMsgs(h.vote, "vote")
         IN  /\ ms \in Seq(SubMsg)
             /\ old # new => Tells(ms, h["proposal"], "proposal")
             /\ Tells(ms, h["vote"], "vote")
<1> DEFINE b == SubMsgs(h.vote, "vote")
<1>1. /\ h.proposal \in Seq(Receiver) /\ h.vote \in Seq(Receiver)
      /\ "vote" \in Lists
    BY ListsTyped DEF Lists
<1>2. b \in Seq(SubMsg) /\ Tells(b, h["vote"], "vote")
    BY <1>1, SubMsgsAre, OneListTold
<1>3. CASE old = new
  <2>1. StatusMsgs(h, old, new) = <<>>
      BY <1>3 DEF StatusMsgs
  <2>2. <<>> \o b = b
    <3> HIDE DEF b
    <3> QED
        BY <1>2
  <2> QED
      BY <1>2, <1>3, <2>1, <2>2
<1>4. CASE old # new
  <2>1. StatusMsgs(h, old, new) = SubMsgs(h.proposal, "proposal")
      BY <1>4 DEF StatusMsgs
  <2> QED
      BY <1>1, <1>4, <2>1, TwoListsTold
<1> QED
    BY <1>3, <1>4

\* A list with at most one failing receiver, and the place of that one.
LEMMA OneFailingPlace ==
  ASSUME ReceiversGood, NEW list \in Lists, Cardinality(Failing(list)) <= 1
  PROVE  \A i, j \in Places(hooks[list], broken) : i = j
<1> DEFINE s == hooks[list]
<1>1. s \in Seq(Receiver) /\ Distinct(s)
    BY ListsTyped DEF ReceiversGood
<1>2. IsFiniteSet(ToSet(s))
  <2>1. s \in Surjection(1 .. Len(s), ToSet(s))
      BY <1>1 DEF Surjection, ToSet
  <2>2. IsFiniteSet(1 .. Len(s))
      BY <1>1, FS_Interval
  <2> HIDE DEF s
  <2> QED
      BY <2>1, <2>2, FS_Surjection
<1>3. IsFiniteSet(Failing(list))
    BY <1>2, FS_Subset DEF Failing
<1> SUFFICES ASSUME NEW i \in Places(s, broken), NEW j \in Places(s, broken), i # j
             PROVE  FALSE
    OBVIOUS
<1>4. s[i] \in Failing(list) /\ s[j] \in Failing(list) /\ s[i] # s[j]
    BY <1>1 DEF Places, Failing, ToSet, Distinct
<1> HIDE DEF s
<1>5. /\ IsFiniteSet({s[i]}) /\ Cardinality({s[i]}) = 1
      /\ IsFiniteSet({s[i]} \cup {s[j]})
      /\ Cardinality({s[i]} \cup {s[j]}) = 2
  <2>1. IsFiniteSet({s[i]}) /\ Cardinality({s[i]}) = 1
      BY FS_Singleton
  <2>2. \A x : x \notin {s[i]} =>
              /\ IsFiniteSet({s[i]} \cup {x})
              /\ Cardinality({s[i]} \cup {x}) = Cardinality({s[i]}) + 1
      BY <2>1, FS_AddElement
  <2>3. s[j] \notin {s[i]}
      BY <1>4
  <2>4. /\ IsFiniteSet({s[i]} \cup {s[j]})
        /\ Cardinality({s[i]} \cup {s[j]}) = Cardinality({s[i]}) + 1
      BY <2>2, <2>3
  <2> QED
      BY <2>1, <2>4
<1>6. {s[i]} \cup {s[j]} \in SUBSET Failing(list)
    BY <1>4
<1>7. 2 <= Cardinality(Failing(list)) /\ Cardinality(Failing(list)) \in Nat
    BY <1>3, <1>5, <1>6, FS_Subset, FS_CardinalityType
<1> QED
    BY <1>7

\* What the step of a handler makes of the hooks.
FailureRemoved(list) ==
  Notified(list) /\ ~DaoChangesHooks /\ Cardinality(Failing(list)) <= 1
    => hooks'[list] = WithoutFailing(list)

HooksKept == GoodHooks(hooks') /\ \A list \in Lists : FailureRemoved(list)

LEMMA HookedKeeps ==
  ASSUME ReceiversGood, NEW start, GoodHooks(start), NEW msgs \in Seq(SubMsg),
         Hooked(start, msgs)
  PROVE  GoodHooks(hooks')
BY OneReply DEF Hooked

LEMMA HookedRemoves ==
  ASSUME ReceiversGood, NEW msgs \in Seq(SubMsg), Hooked(hooks, msgs),
         NEW list \in Lists, Tells(msgs, hooks[list], list),
         Cardinality(Failing(list)) <= 1
  PROVE  hooks'[list] = WithoutFailing(list)
<1>1. \A i, j \in Places(hooks[list], broken) : i = j
    BY OneFailingPlace
<1>2. /\ Dispatch(hooks, msgs, broken) # Panicked
      /\ hooks' = Dispatch(hooks, msgs, broken) /\ GoodHooks(hooks)
    BY DEF Hooked, ReceiversGood
<1>3. Dispatch(hooks, msgs, broken)[list]
        = IF Places(hooks[list], broken) = {} THEN hooks[list]
          ELSE RemoveAt(hooks[list], CHOOSE i \in Places(hooks[list], broken) : TRUE)
    BY <1>1, <1>2, OneOfListRemoved
<1> QED
    BY <1>2, <1>3 DEF WithoutFailing, Places

\* Nobody is told anything.
LEMMA QuietKeeps ==
  ASSUME GoodHooks(hooks'), UNCHANGED <<proposals, ballots>>
  PROVE  HooksKept
BY DEF HooksKept, FailureRemoved, Notified, Ids, Lists

LEMMA ProposeHooks ==
  ASSUME CoreInv, ReceiversGood, NEW sender \in Address, NEW m \in Messages,
         Propose(sender, m)
  PROVE  HooksKept
<1> DEFINE msgs == SubMsgs(hooks.proposal, "proposal")
<1>1. /\ hooks["proposal"] \in Seq(Receiver) /\ hooks.proposal = hooks["proposal"]
      /\ "proposal" \in Lists
    BY ListsTyped DEF ReceiversGood, Lists
<1>2. msgs \in Seq(SubMsg) /\ Tells(msgs, hooks["proposal"], "proposal")
    BY <1>1, SubMsgsAre, OneListTold
<1>3. Hooked(hooks, msgs) /\ UNCHANGED ballots
    BY DEF Propose
<1> HIDE DEF msgs
<1>4. GoodHooks(hooks')
    BY <1>2, <1>3, HookedKeeps DEF ReceiversGood
<1>5. FailureRemoved("proposal")
    BY <1>1, <1>2, <1>3, HookedRemoves DEF FailureRemoved
<1>6. FailureRemoved("vote")
    BY <1>3 DEF FailureRemoved, Notified
<1> QED
    BY <1>4, <1>5, <1>6 DEF HooksKept, Lists

LEMMA CastVoteHooks ==
  ASSUME CoreInv, ReceiversGood, NEW sender \in Address, NEW id \in Ids, NEW vote \in Vote,
         CastVote(sender, id, vote)
  PROVE  HooksKept
<1>1. PICK status :
        /\ \E rec : /\ rec.status = status
                    /\ proposals' = [proposals EXCEPT ![id] = rec]
        /\ Hooked(hooks, StatusMsgs(hooks, proposals[id].status, status)
                           \o SubMsgs(hooks.vote, "vote"))
  <2> DEFINE p      == proposals[id]
             ballot == [power |-> PowerOf(p, sender), vote |-> vote]
             old    == {ballots[k] : k \in DOMAIN ballots \cap {<<id, sender>>}}
             voted  == [p EXCEPT !.votes = VotesAfter(@, old, ballot)]
             status == CurrentStatus(voted, height)
             rec    == [voted EXCEPT !.status = status]
  <2>1. /\ proposals' = [proposals EXCEPT ![id] = rec]
        /\ Hooked(hooks, StatusMsgs(hooks, p.status, status) \o SubMsgs(hooks.vote, "vote"))
      BY DEF CastVote
  <2>2. rec.status = status
    <3>1. p \in ProposalRecord
        BY ProposalTyped DEF CoreInv
    <3>2. DOMAIN voted = DOMAIN p /\ "status" \in DOMAIN p
        BY <3>1 DEF ProposalRecord
    <3> HIDE DEF voted, status
    <3> QED
        BY <3>2
  <2> HIDE DEF rec, status
  <2> QED
      BY <2>1, <2>2
<1>2. PICK rec : rec.status = status /\ proposals' = [proposals EXCEPT ![id] = rec]
    BY <1>1
<1> DEFINE msgs == StatusMsgs(hooks, proposals[id].status, status)
                     \o SubMsgs(hooks.vote, "vote")
<1>3. /\ msgs \in Seq(SubMsg) /\ Tells(msgs, hooks["vote"], "vote")
      /\ proposals[id].status # status => Tells(msgs, hooks["proposal"], "proposal")
    BY VoteMsgsAre DEF ReceiversGood
<1>4. Hooked(hooks, msgs)
    BY <1>1
<1> HIDE DEF msgs
<1>5. GoodHooks(hooks')
    BY <1>3, <1>4, HookedKeeps DEF ReceiversGood
<1>6. FailureRemoved("vote")
    BY <1>3, <1>4, HookedRemoves DEF FailureRemoved, Lists
<1>7. Notified("proposal") => proposals[id].status # status
  <2>1. proposals \in Seq(ProposalRecord)
      BY DEF CoreInv, CoreTyped, StateTyped
  <2>2. /\ DOMAIN proposals' = Ids /\ proposals'[id] = rec
        /\ \A j \in Ids : j # id => proposals'[j] = proposals[j]
      BY <1>2, <2>1 DEF Ids
  <2> QED
      BY <1>2, <2>2 DEF Notified
<1>8. FailureRemoved("proposal")
    BY <1>3, <1>4, <1>7, HookedRemoves DEF FailureRemoved, Lists
<1> QED
    BY <1>5, <1>6, <1>8 DEF HooksKept, Lists

LEMMA ExecuteHooks ==
  ASSUME CoreInv, ReceiversGood, NEW sender \in Address, NEW id \in Ids,
         Execute(sender, id)
  PROVE  HooksKept
<1> DEFINE p == proposals[id]
           msgs == StatusMsgs(hooks, p.status, "executed")
<1>1. /\ p \in ProposalRecord /\ p.msgs \in Message /\ proposals \in Seq(ProposalRecord)
      /\ id \in 1 .. Len(proposals)
    BY ProposalTyped, RecordFields DEF CoreInv, CoreTyped, StateTyped
<1>2. PICK after \in Called(Admin, p.msgs) : Hooked(after.hooks, msgs)
    BY DEF Execute
<1>3. /\ proposals' = [proposals EXCEPT ![id].status = "executed"]
      /\ UNCHANGED ballots /\ p.status # "executed"
    BY StatusMoves DEF Execute, Executable
<1>4. GoodHooks(after.hooks)
    BY <1>1, <1>2, CalledHooks
<1>5. msgs \in Seq(SubMsg) /\ Tells(msgs, hooks["proposal"], "proposal")
    BY <1>3, StatusMsgsAre DEF ReceiversGood
<1>6. proposals'[id].status = "executed"
    BY <1>1, <1>3 DEF ProposalRecord
<1>7. ~DaoChangesHooks => after.hooks = hooks
  <2>1. ~DaoChangesHooks => p.msgs.call \in {"none", "update_config", "allow", "disallow"}
      BY <1>3, <1>6 DEF DaoChangesHooks
  <2> QED
      BY <1>1, <1>2, <2>1, CalledHooks
<1> HIDE DEF msgs, p
<1>8. GoodHooks(hooks')
    BY <1>2, <1>4, <1>5, HookedKeeps
<1>9. FailureRemoved("proposal")
  <2> SUFFICES ASSUME ~DaoChangesHooks, Cardinality(Failing("proposal")) <= 1
               PROVE  hooks'["proposal"] = WithoutFailing("proposal")
      BY DEF FailureRemoved
  <2>1. Hooked(hooks, msgs)
      BY <1>2, <1>7
  <2> QED
      BY <1>5, <2>1, HookedRemoves DEF Lists
<1>10. FailureRemoved("vote")
    BY <1>3 DEF FailureRemoved, Notified
<1> QED
    BY <1>8, <1>9, <1>10 DEF HooksKept, Lists

LEMMA CloseHooks ==
  ASSUME CoreInv, ReceiversGood, NEW sender \in Address, NEW id \in Ids,
         Close(sender, id)
  PROVE  HooksKept
<1> DEFINE msgs == StatusMsgs(hooks, "rejected", "closed")
<1>1. Hooked(hooks, msgs) /\ UNCHANGED ballots
    BY DEF Close
<1>2. msgs \in Seq(SubMsg) /\ Tells(msgs, hooks["proposal"], "proposal")
    BY StatusMsgsAre DEF ReceiversGood
<1> HIDE DEF msgs
<1>3. GoodHooks(hooks')
    BY <1>1, <1>2, HookedKeeps DEF ReceiversGood
<1>4. FailureRemoved("proposal")
    BY <1>1, <1>2, HookedRemoves DEF FailureRemoved, Lists
<1>5. FailureRemoved("vote")
    BY <1>1 DEF FailureRemoved, Notified
<1> QED
    BY <1>3, <1>4, <1>5 DEF HooksKept, Lists

LEMMA DaoCallHooks ==
  ASSUME ReceiversGood, NEW sender \in Dao, NEW m \in Messages, DaoCall(sender, m)
  PROVE  HooksKept
<1>1. PICK after \in Called(Admin, m) : hooks' = after.hooks
    BY DEF DaoCall, SetAdmin
<1>2. GoodHooks(hooks')
    BY <1>1, CalledHooks, ProposalAssumption
<1> QED
    BY <1>2, QuietKeeps DEF DaoCall

LEMMA HooksSteps == CoreInv /\ ReceiversGood /\ [Next]_vars => HooksKept
<1> SUFFICES ASSUME CoreInv, ReceiversGood, [Next]_vars
             PROVE  HooksKept
    OBVIOUS
<1>1. CASE UNCHANGED <<hooks, proposals, ballots>>
  <2>1. GoodHooks(hooks')
      BY <1>1 DEF ReceiversGood
  <2> QED
      BY <1>1, <2>1, QuietKeeps
<1>2. CASE NextBlock \/ Elsewhere \/ UNCHANGED vars
    BY <1>1, <1>2 DEF NextBlock, Elsewhere, vars, admin
<1>3. CASE \E sender \in Address, m \in Messages : Propose(sender, m)
    BY <1>3, ProposeHooks
<1>4. CASE \E sender \in Address, id \in Ids, vote \in Vote : CastVote(sender, id, vote)
    BY <1>4, CastVoteHooks
<1>5. CASE \E sender \in Address, id \in Ids : Execute(sender, id)
    BY <1>5, ExecuteHooks
<1>6. CASE \E sender \in Address, id \in Ids : Close(sender, id)
    BY <1>6, CloseHooks
<1>7. CASE \E sender \in Dao, m \in Messages : DaoCall(sender, m)
    BY <1>7, DaoCallHooks
<1> QED
    BY <1>2, <1>3, <1>4, <1>5, <1>6, <1>7 DEF Next

LEMMA ReceiversHold == Spec => []ReceiversGood
<1>1. Init => ReceiversGood
  <2>1. <<>> \in Seq(Receiver) /\ Distinct(<<>>)
      BY DEF Distinct
  <2> QED
      BY <2>1 DEF Init, NoHooks, ReceiversGood, GoodHooks, HookLists, Lists
<1>2. CoreInv /\ ReceiversGood /\ [Next]_vars => ReceiversGood'
    BY HooksSteps DEF HooksKept, ReceiversGood
<1> QED
    BY <1>1, <1>2, CoreHolds, PTL DEF Spec

(* Every variable keeps its type, whatever the members, the DAO, the       *)
(* receivers and the voting module do (state.rs:12-63).                    *)
THEOREM TypesRight == Spec => []TypeOK
<1>1. CoreInv /\ ReceiversGood => TypeOK
  <2>1. ReceiversGood => hooks.proposal \in Seq(Receiver) /\ hooks.vote \in Seq(Receiver)
      BY DEF ReceiversGood, GoodHooks, HookLists
  <2> QED
      BY <2>1 DEF CoreInv, CoreTyped, AnswersTyped, StateTyped, TypeOK
<1> QED
    BY <1>1, CoreHolds, ReceiversHold, PTL

(* A handler leaves the receivers that did not error in the list, in their *)
(* order, as long as no more than one of the list errors                   *)
(* (contract.rs:795).                                                      *)
THEOREM FailingReceiverLeaves == Spec => OneFailureIsRemoved
<1> DEFINE OneRemoved ==
             \A list \in {"proposal", "vote"} :
               Notified(list) /\ ~DaoChangesHooks /\ Cardinality(Failing(list)) <= 1
                 => hooks'[list] = WithoutFailing(list)
<1>1. CoreInv /\ ReceiversGood /\ [Next]_vars => [OneRemoved]_vars
    BY HooksSteps DEF HooksKept, FailureRemoved, Lists
<1> QED
    BY <1>1, CoreHolds, ReceiversHold, PTL DEF Spec, OneFailureIsRemoved


-----------------------------------------------------------------------------
(* Lists that are read by pages.                                           *)

\* The first keys after c, and some if there are any.
FirstAfter(keys, c, page) ==
  /\ page \subseteq keys /\ \A k \in page : c < k
  /\ page = {} => \A k \in keys : k <= c
  /\ page # {} => /\ Max(page) \in page /\ \A k \in page : k <= Max(page)
                 /\ \A k \in keys : c < k /\ k <= Max(page) => k \in page

\* They are what a page has.
LEMMA OnePage ==
  ASSUME NEW top \in Nat, NEW keys, keys \subseteq 1 .. top, NEW c \in Nat,
         NEW limit \in Nat \ {0}
  PROVE  FirstAfter(keys, c, PageAfter(keys, c, limit))
<1> PICK page : page = PageAfter(keys, c, limit)
    OBVIOUS
<1> DEFINE Before(k) == {j \in keys : c < j /\ j < k}
<1>1. /\ page = {k \in keys : c < k /\ Cardinality(Before(k)) < limit}
      /\ page \in SUBSET keys /\ \A k \in page : c < k
    BY DEF PageAfter
<1>2. \A k : IsFiniteSet(Before(k)) /\ Cardinality(Before(k)) \in Nat
  <2>1. IsFiniteSet(keys)
    <3>1. IsFiniteSet(1 .. top)
        BY FS_Interval
    <3> QED
        BY <3>1, FS_Subset
  <2>2. \A k : Before(k) \subseteq keys
      OBVIOUS
  <2> HIDE DEF Before
  <2> QED
      BY <2>1, <2>2, FS_Subset, FS_CardinalityType
<1>3. ASSUME page = {}, NEW k \in keys, c < k
      PROVE  FALSE
  <2> DEFINE B == {j \in keys : c < j}
  <2>1. B \subseteq Nat /\ k \in B
    <3>1. k \in B
        BY <1>3
    <3>2. B \subseteq keys
        OBVIOUS
    <3>3. keys \subseteq Nat
        OBVIOUS
    <3> QED
        BY <3>1, <3>2, <3>3
  <2>2. PICK j \in B : \A i \in B : j <= i
    <3> HIDE DEF B
    <3> QED
        BY <2>1, LeastNatural
  <2>3. Before(j) = {}
    <3> SUFFICES ASSUME NEW i \in Before(j) PROVE FALSE
        OBVIOUS
    <3>1. i \in B /\ i < j /\ i \in Nat /\ j \in Nat
        BY <2>1
    <3>2. j <= i
        BY <2>2, <3>1
    <3> QED
        BY <3>1, <3>2
  <2>4. Cardinality(Before(j)) = 0
      BY <2>3, FS_EmptySet
  <2>5. j \in page
      BY <1>1, <2>4
  <2> QED
      BY <1>3, <2>5
<1>4. page # {} => Max(page) \in page /\ \A k \in page : k <= Max(page)
  <2>1. page \in SUBSET (1 .. top)
      BY <1>1
  <2> QED
      BY <2>1, Greatest
<1>5. ASSUME NEW m \in page, NEW k \in keys, c < k, k <= m
      PROVE  k \in page
  <2>1. m \in Nat /\ k \in Nat
      BY <1>1
  <2>2. Before(k) \subseteq Before(m)
    <3> SUFFICES ASSUME NEW j \in keys, c < j, j < k PROVE j < m
        OBVIOUS
    <3>1. j \in Nat
        OBVIOUS
    <3> QED
        BY <1>5, <2>1, <3>1
  <2>3. Cardinality(Before(k)) <= Cardinality(Before(m))
    <3> HIDE DEF Before
    <3> QED
        BY <1>2, <2>2, FS_Subset
  <2>4. Cardinality(Before(m)) < limit
      BY <1>1
  <2>5. Cardinality(Before(k)) < limit
    <3>1. Cardinality(Before(k)) \in Nat /\ Cardinality(Before(m)) \in Nat
        BY <1>2
    <3> HIDE DEF Before
    <3> QED
        BY <2>3, <2>4, <3>1
  <2> QED
      BY <1>1, <1>5, <2>5
<1>6. ASSUME page = {} PROVE \A k \in keys : k <= c
  <2>1. \A k \in keys : k \in Nat /\ (k <= c \/ c < k)
      OBVIOUS
  <2> QED
      BY <1>3, <1>6, <2>1
<1>7. FirstAfter(keys, c, page)
    BY <1>1, <1>4, <1>5, <1>6 DEF FirstAfter
<1> QED
    BY <1>7

\* Reading on from c, when r is what reading on from later keys gives.
ReadOn(keys, limit, c, r) ==
  IF PageAfter(keys, c, limit) = {} THEN <<>>
  ELSE <<PageAfter(keys, c, limit)>> \o r[Max(PageAfter(keys, c, limit))]

Reads(keys, limit, lo, top, r) == r = [c \in lo .. top |-> ReadOn(keys, limit, c, r)]

LEMMA PageAhead ==
  ASSUME NEW top \in Nat, NEW keys \in SUBSET (1 .. top), NEW c \in 0 .. top,
         NEW limit \in Nat \ {0}, PageAfter(keys, c, limit) # {}
  PROVE  Max(PageAfter(keys, c, limit)) \in (c + 1) .. top
<1> PICK page : page = PageAfter(keys, c, limit)
    OBVIOUS
<1>1. Max(page) \in keys /\ c < Max(page)
  <2>1. c \in Nat /\ keys \subseteq 1 .. top
      OBVIOUS
  <2>2. FirstAfter(keys, c, page)
      BY <2>1, OnePage
  <2> QED
      BY <2>2 DEF FirstAfter
<1>2. Max(page) \in 1 .. top
    BY <1>1
<1> QED
    BY <1>1, <1>2

LEMMA ReadsExist ==
  ASSUME NEW top \in Nat, NEW keys \in SUBSET (1 .. top), NEW limit \in Nat \ {0}
  PROVE  \E r : Reads(keys, limit, 0, top, r)
<1> DEFINE Bad == {n \in Nat : n <= top /\ ~\E r : Reads(keys, limit, top - n, top, r)}
<1>1. Bad = {}
  <2> SUFFICES ASSUME Bad # {}
               PROVE  FALSE
      OBVIOUS
  <2>1. PICK n \in Bad : \A m \in Bad : n <= m
      BY LeastNatural
  <2> DEFINE lo == top - n
             r0 == [c \in {} |-> <<>>]
  <2>2. PICK p : \A c \in (lo + 1) .. top : p[c] = ReadOn(keys, limit, c, p)
    <3>1. CASE n = 0
        BY <3>1
    <3>2. CASE n # 0
      <4>1. n - 1 \in Nat /\ n - 1 \notin Bad /\ n - 1 <= top /\ top - (n - 1) = lo + 1
          BY <2>1, <3>2
      <4>2. PICK p : Reads(keys, limit, lo + 1, top, p)
          BY <4>1
      <4> QED
          BY <4>2 DEF Reads
    <3> QED
        BY <3>1, <3>2
  <2> DEFINE q == [c \in lo .. top |-> ReadOn(keys, limit, c, p)]
  <2>3. lo \in Nat /\ lo \in 0 .. top
      OBVIOUS
  <2> HIDE DEF lo
  <2>4. \A c \in (lo + 1) .. top : q[c] = p[c]
      BY <2>2, <2>3
  <2>5. \A c \in lo .. top : ReadOn(keys, limit, c, p) = ReadOn(keys, limit, c, q)
    <3> TAKE c \in lo .. top
    <3>1. CASE PageAfter(keys, c, limit) = {}
        BY <3>1 DEF ReadOn
    <3>2. CASE PageAfter(keys, c, limit) # {}
      <4> PICK m : m = Max(PageAfter(keys, c, limit))
          OBVIOUS
      <4>1. c \in 0 .. top
          BY <2>3
      <4>2. m \in (c + 1) .. top
          BY <3>2, <4>1, PageAhead
      <4>3. m \in (lo + 1) .. top
          BY <2>3, <4>2
      <4>4. q[m] = p[m]
          BY <2>4, <4>3
      <4> QED
          BY <4>4 DEF ReadOn
    <3> QED
        BY <3>1, <3>2
  <2>6. Reads(keys, limit, lo, top, q)
      BY <2>5 DEF Reads
  <2> QED
      BY <2>6 DEF lo
<1>2. top \in Nat /\ top <= top /\ top - top = 0
    OBVIOUS
<1> QED
    BY <1>1, <1>2

\* From c on, s shows every key exactly once, in ascending order.
ListsFrom(keys, c, s) ==
  /\ s \in Seq(SUBSET keys)
  /\ \A i \in DOMAIN s : s[i] # {} /\ \A k \in s[i] : c < k
  /\ \A k \in keys : c < k => \E i \in DOMAIN s : k \in s[i]
  /\ \A i, j \in DOMAIN s : i < j => \A k \in s[i], l \in s[j] : k < l

\* One more page in front.
LEMMA ListsOn ==
  ASSUME NEW top \in Nat, NEW keys \in SUBSET (1 .. top), NEW c \in 0 .. top,
         NEW limit \in Nat \ {0}, NEW page, page = PageAfter(keys, c, limit), page # {},
         NEW t, ListsFrom(keys, Max(page), t)
  PROVE  ListsFrom(keys, c, <<page>> \o t)
<1> PICK s, m : s = <<page>> \o t /\ m = Max(page)
    OBVIOUS
<1>1. /\ page \in SUBSET keys /\ \A k \in page : c < k
      /\ m \in page /\ \A k \in page : k <= m
      /\ \A k \in keys : c < k /\ k <= m => k \in page
  <2>1. c \in Nat /\ keys \subseteq 1 .. top
      OBVIOUS
  <2>2. FirstAfter(keys, c, page)
      BY <2>1, OnePage
  <2> QED
      BY <2>2 DEF FirstAfter
<1>2. /\ c \in Nat /\ m \in Nat /\ c < m /\ keys \subseteq Nat
    BY <1>1
<1>3. /\ t \in Seq(SUBSET keys)
      /\ \A i \in DOMAIN t : t[i] # {} /\ \A k \in t[i] : m < k
      /\ \A k \in keys : m < k => \E i \in DOMAIN t : k \in t[i]
      /\ \A i, j \in DOMAIN t : i < j => \A k \in t[i], l \in t[j] : k < l
    BY DEF ListsFrom
<1>4. Len(t) \in Nat /\ DOMAIN t = 1 .. Len(t)
    BY <1>3
<1>5. /\ s \in Seq(SUBSET keys) /\ DOMAIN s = 1 .. Len(t) + 1
      /\ s[1] = page /\ \A i \in 1 .. Len(t) : s[i + 1] = t[i]
  <2>1. <<page>> \in Seq(SUBSET keys)
      BY <1>1
  <2> QED
      BY <1>3, <2>1
<1>6. \A i \in DOMAIN s : i # 1 => i - 1 \in DOMAIN t /\ s[i] = t[i - 1]
  <2> TAKE i \in DOMAIN s
  <2> HAVE i # 1
  <2>1. i - 1 \in 1 .. Len(t) /\ (i - 1) + 1 = i
      BY <1>4, <1>5
  <2> QED
      BY <1>4, <1>5, <2>1
<1>7. \A i \in DOMAIN s : s[i] \subseteq Nat
  <2>1. \A i \in DOMAIN s : s[i] \in SUBSET keys
      BY <1>5
  <2> QED
      BY <1>2, <2>1
<1>8. ASSUME NEW i \in DOMAIN s
      PROVE  s[i] # {} /\ \A k \in s[i] : c < k
  <2>1. CASE i = 1
      BY <1>1, <1>5, <2>1
  <2>2. CASE i # 1
    <3>1. t[i - 1] # {} /\ \A k \in t[i - 1] : m < k
        BY <1>3, <1>6, <2>2
    <3>2. s[i] = t[i - 1]
        BY <1>6, <2>2
    <3>3. \A k \in s[i] : k \in Nat /\ m < k
        BY <1>7, <3>1, <3>2
    <3> QED
        BY <1>2, <3>1, <3>2, <3>3
  <2> QED
      BY <2>1, <2>2
<1>9. ASSUME NEW k \in keys, c < k
      PROVE  \E i \in DOMAIN s : k \in s[i]
  <2>1. k \in Nat
      BY <1>2
  <2>2. CASE k <= m
    <3>1. 1 \in DOMAIN s
        BY <1>4, <1>5
    <3> QED
        BY <1>1, <1>5, <1>9, <2>2, <3>1
  <2>3. CASE m < k
    <3>1. PICK i \in DOMAIN t : k \in t[i]
        BY <1>3, <2>3
    <3>2. i + 1 \in DOMAIN s /\ s[i + 1] = t[i]
        BY <1>4, <1>5, <3>1
    <3> QED
        BY <3>1, <3>2
  <2> QED
      BY <1>2, <2>1, <2>2, <2>3
<1>10. ASSUME NEW i \in DOMAIN s, NEW j \in DOMAIN s, i < j, NEW k \in s[i], NEW l \in s[j]
       PROVE  k < l
  <2>1. j # 1 /\ i \in Nat /\ j \in Nat /\ j - 1 \in DOMAIN t /\ l \in t[j - 1]
      BY <1>4, <1>5, <1>6, <1>10
  <2>2. k \in Nat /\ l \in Nat
      BY <1>7
  <2>3. CASE i = 1
    <3>1. k <= m /\ m < l
        BY <1>1, <1>3, <1>5, <2>1, <2>3
    <3> QED
        BY <1>2, <2>2, <3>1
  <2>4. CASE i # 1
    <3>1. i - 1 \in DOMAIN t /\ k \in t[i - 1] /\ i - 1 < j - 1
        BY <1>6, <1>10, <2>1, <2>4
    <3> QED
        BY <1>3, <2>1, <3>1
  <2> QED
      BY <2>3, <2>4
<1>11. ListsFrom(keys, c, s)
    BY <1>5, <1>8, <1>9, <1>10 DEF ListsFrom
<1> QED
    BY <1>11

\* What is read from any bound on lists the keys after it.
LEMMA ReadsList ==
  ASSUME NEW top \in Nat, NEW keys \in SUBSET (1 .. top), NEW limit \in Nat \ {0},
         NEW r, Reads(keys, limit, 0, top, r), NEW c \in 0 .. top
  PROVE  ListsFrom(keys, c, r[c])
<1> DEFINE Bad == {n \in Nat : n <= top /\ ~ListsFrom(keys, top - n, r[top - n])}
<1>3. Bad = {}
  <2> SUFFICES ASSUME Bad # {}
               PROVE  FALSE
      OBVIOUS
  <2>1. PICK n \in Bad : \A m \in Bad : n <= m
      BY LeastNatural
  <2> PICK b : b = top - n
      OBVIOUS
  <2>2. b \in 0 .. top /\ ~ListsFrom(keys, b, r[b])
      OBVIOUS
  <2> PICK page : page = PageAfter(keys, b, limit)
      OBVIOUS
  <2>3. r[b] = ReadOn(keys, limit, b, r)
      BY <2>2 DEF Reads
  <2>4. CASE page = {}
    <3>1. r[b] = <<>>
        BY <2>3, <2>4 DEF ReadOn
    <3>2. \A k \in keys : k <= b
      <4>1. b \in Nat /\ keys \subseteq 1 .. top
          BY <2>2
      <4>2. FirstAfter(keys, b, page)
          BY <4>1, OnePage
      <4> QED
          BY <2>4, <4>2 DEF FirstAfter
    <3>3. \A k \in keys : ~(b < k)
        BY <2>2, <3>2
    <3>4. ListsFrom(keys, b, <<>>)
        BY <3>3 DEF ListsFrom
    <3> QED
        BY <2>2, <3>1, <3>4
  <2>5. CASE page # {}
    <3> PICK m : m = Max(page)
        OBVIOUS
    <3>1. m \in (b + 1) .. top
        BY <2>2, <2>5, PageAhead
    <3>2. top - m \in Nat /\ top - m <= top /\ ~(n <= top - m) /\ top - (top - m) = m
        BY <2>2, <3>1
    <3>3. ListsFrom(keys, m, r[m])
        BY <2>1, <3>2
    <3>4. r[b] = <<page>> \o r[m]
        BY <2>3, <2>5 DEF ReadOn
    <3>5. ListsFrom(keys, b, <<page>> \o r[m])
        BY <2>2, <2>5, <3>3, ListsOn
    <3> QED
        BY <2>2, <3>4, <3>5
  <2> QED
      BY <2>4, <2>5
<1>4. top - c \in Nat /\ top - c <= top /\ top - (top - c) = c
    OBVIOUS
<1>5. ListsFrom(keys, c, r[c])
    BY <1>3, <1>4
<1> QED
    BY <1>5

LEMMA ReadUpLists ==
  ASSUME NEW top \in Nat, NEW keys \in SUBSET (1 .. top), NEW limit \in Nat \ {0},
         NEW c \in 0 .. top
  PROVE  ListsFrom(keys, c, ReadUp(keys, limit, top)[c])
<1> DEFINE r == CHOOSE p : Reads(keys, limit, 0, top, p)
<1>1. ReadUp(keys, limit, top) = r
    BY DEF ReadUp, Reads, ReadOn
<1>2. Reads(keys, limit, 0, top, r)
    BY ReadsExist
<1> HIDE DEF r
<1> QED
    BY <1>1, <1>2, ReadsList

\* Pages that show keys of a set in ascending order, and among them those of shown.
Ascending(pages, keys, shown) ==
  /\ pages \in Seq(SUBSET keys)
  /\ \A i, j \in DOMAIN pages : i < j => \A k \in pages[i], l \in pages[j] : k < l
  /\ \A k \in shown : \E i \in DOMAIN pages : k \in pages[i]

\* The first i pages of a list, and the keys after them from another one.
LEMMA ListsJoined ==
  ASSUME NEW top \in Nat, NEW keys, keys \subseteq 1 .. top, NEW later, later \subseteq 1 .. top,
         NEW s, ListsFrom(keys, 0, s), NEW i \in 0 .. Len(s),
         NEW b, b = IF i = 0 THEN 0 ELSE Max(s[i]),
         NEW t, ListsFrom(later, b, t)
  PROVE  Ascending(SubSeq(s, 1, i) \o t, keys \cup later, keys \cap later)
<1> DEFINE all == SUBSET (keys \cup later)
<1>1. /\ s \in Seq(SUBSET keys) /\ t \in Seq(SUBSET later)
      /\ Len(s) \in Nat /\ DOMAIN s = 1 .. Len(s)
      /\ Len(t) \in Nat /\ DOMAIN t = 1 .. Len(t)
    BY DEF ListsFrom
<1>2. \A j \in DOMAIN s : s[j] \in SUBSET keys
    BY <1>1
<1>3. \A j \in DOMAIN t : t[j] \in SUBSET later
    BY <1>1
<1>4. i \in Nat /\ i <= Len(s) /\ keys \subseteq Nat /\ later \subseteq Nat
    BY <1>1
<1> PICK r, p : r = SubSeq(s, 1, i) /\ p = r \o t
    OBVIOUS
<1>5. Len(r) = i /\ DOMAIN r = 1 .. i /\ \A j \in 1 .. i : j \in DOMAIN s /\ r[j] = s[j]
  <2>1. r = [j \in 1 .. i |-> s[j]]
      BY <1>1, <1>4
  <2> QED
      BY <1>1, <1>4, <2>1
<1>6. r \in Seq(all) /\ t \in Seq(all)
  <2>1. r \in Seq(SUBSET keys)
      BY <1>1, <1>2, <1>5, <1>4
  <2> QED
      BY <1>1, <2>1
<1>7. /\ p \in Seq(all) /\ DOMAIN p = 1 .. (i + Len(t))
      /\ \A j \in 1 .. i : p[j] = r[j]
      /\ \A j \in 1 .. Len(t) : p[i + j] = t[j]
  <2> HIDE DEF all
  <2> QED
      BY <1>1, <1>4, <1>5, <1>6
<1>8. \A j \in DOMAIN p : \/ j \in 1 .. i /\ p[j] = s[j] /\ j \in DOMAIN s
                          \/ /\ j - i \in DOMAIN t /\ p[j] = t[j - i]
                             /\ j \in Nat /\ j > i
  <2> TAKE j \in DOMAIN p
  <2>1. j \in Nat /\ 1 <= j /\ j <= i + Len(t)
      BY <1>1, <1>4, <1>7
  <2>2. CASE j <= i
      BY <1>4, <1>5, <1>7, <2>1, <2>2
  <2>3. CASE j > i
    <3>1. j - i \in 1 .. Len(t) /\ i + (j - i) = j
        BY <1>1, <1>4, <2>1, <2>3
    <3> QED
        BY <1>1, <1>7, <2>1, <2>3, <3>1
  <2> QED
      BY <1>4, <2>1, <2>2, <2>3
<1>9. /\ b \in Nat
      /\ \A j \in 1 .. i : \A k \in s[j] : k <= b
      /\ i # 0 => i \in DOMAIN s /\ b \in s[i]
  <2>1. CASE i = 0
      BY <2>1
  <2>2. CASE i # 0
    <3>1. i \in DOMAIN s /\ b = Max(s[i])
        BY <1>1, <1>4, <2>2
    <3>2. s[i] # {} /\ s[i] \in SUBSET (1 .. top)
        BY <1>2, <3>1 DEF ListsFrom
    <3>3. b \in s[i] /\ \A k \in s[i] : k <= b
        BY <3>1, <3>2, Greatest
    <3>4. ASSUME NEW j \in 1 .. i, NEW k \in s[j]
          PROVE  k <= b
      <4>1. CASE j = i
          BY <3>3, <4>1
      <4>2. CASE j # i
        <5>1. j \in DOMAIN s /\ j < i
            BY <1>4, <1>5, <4>2
        <5>2. k < b
            BY <3>1, <3>3, <5>1 DEF ListsFrom
        <5>3. k \in Nat /\ b \in Nat
            BY <1>2, <1>4, <3>1, <3>3, <5>1
        <5> QED
            BY <5>2, <5>3
      <4> QED
          BY <4>1, <4>2
    <3> QED
        BY <3>1, <3>2, <3>3, <3>4
  <2> QED
      BY <2>1, <2>2
<1>10. \A j \in DOMAIN t : \A k \in t[j] : b < k
    BY DEF ListsFrom
<1>11. ASSUME NEW m \in DOMAIN p, NEW n \in DOMAIN p, m < n, NEW k \in p[m], NEW l \in p[n]
       PROVE  k < l
  <2>1. m \in Nat /\ n \in Nat
      BY <1>7
  <2>2. CASE n \in 1 .. i /\ p[n] = s[n] /\ n \in DOMAIN s
    <3>1. m \in 1 .. i /\ m \in DOMAIN s /\ p[m] = s[m]
        BY <1>5, <1>7, <1>11, <1>4, <2>1, <2>2
    <3> QED
        BY <1>11, <2>2, <3>1 DEF ListsFrom
  <2>3. CASE n - i \in DOMAIN t /\ p[n] = t[n - i] /\ n > i
    <3>1. b < l /\ l \in Nat
        BY <1>3, <1>4, <1>10, <2>3
    <3>2. CASE m \in 1 .. i /\ p[m] = s[m] /\ m \in DOMAIN s
      <4>1. k <= b /\ k \in Nat
          BY <1>2, <1>4, <1>9, <3>2
      <4> QED
          BY <1>9, <3>1, <4>1
    <3>3. CASE m - i \in DOMAIN t /\ p[m] = t[m - i]
      <4>1. m - i < n - i
          BY <1>4, <1>11, <2>1
      <4> QED
          BY <2>3, <3>3, <4>1 DEF ListsFrom
    <3> QED
        BY <1>8, <3>2, <3>3
  <2> QED
      BY <1>8, <2>2, <2>3
<1>12. ASSUME NEW k \in keys \cap later
       PROVE  \E j \in DOMAIN p : k \in p[j]
  <2>1. k \in Nat /\ 0 < k
      OBVIOUS
  <2>2. CASE k <= b
    <3>1. i # 0
        BY <2>1, <2>2, <1>9
    <3>2. PICK j \in DOMAIN s : k \in s[j]
        BY <2>1 DEF ListsFrom
    <3>3. j <= i
      <4> SUFFICES ASSUME j > i PROVE FALSE
          BY <1>1, <1>4
      <4>1. i < j /\ i \in DOMAIN s /\ b \in s[i]
          BY <1>1, <1>4, <1>9, <3>1
      <4>2. b < k
          BY <3>2, <4>1 DEF ListsFrom
      <4> QED
          BY <1>9, <2>1, <2>2, <4>2
    <3>4. j \in 1 .. i
        BY <1>1, <1>4, <3>3
    <3>5. j \in DOMAIN p /\ p[j] = s[j]
        BY <1>1, <1>4, <1>5, <1>7, <3>4
    <3> QED
        BY <3>2, <3>5
  <2>3. CASE b < k
    <3>1. PICK j \in DOMAIN t : k \in t[j]
        BY <2>3 DEF ListsFrom
    <3>2. i + j \in DOMAIN p /\ p[i + j] = t[j]
        BY <1>1, <1>4, <1>7, <3>1
    <3> QED
        BY <3>1, <3>2
  <2> QED
      BY <1>9, <2>1, <2>2, <2>3
<1>13. Ascending(p, keys \cup later, keys \cap later)
    BY <1>7, <1>11, <1>12 DEF Ascending
<1> QED
    BY <1>13

\* So whatever is read shows the keys that are there from the beginning to the end,
\* in ascending order.
LEMMA ReadingsAscend ==
  ASSUME NEW top \in Nat, NEW keys, keys \subseteq 1 .. top, NEW later, later \subseteq 1 .. top,
         NEW limit \in Nat \ {0}, NEW pages \in ReadingsUp(keys, later, limit, top)
  PROVE  Ascending(pages, keys \cup later, keys \cap later)
<1> PICK s, rest : s = ReadUp(keys, limit, top)[0] /\ rest = ReadUp(later, limit, top)
    OBVIOUS
<1>1. PICK i \in 0 .. Len(s) :
        pages = SubSeq(s, 1, i) \o rest[IF i = 0 THEN 0 ELSE Max(s[i])]
    BY DEF ReadingsUp
<1> PICK b : b = IF i = 0 THEN 0 ELSE Max(s[i])
    OBVIOUS
<1>2. ListsFrom(keys, 0, s)
    BY ReadUpLists
<1>3. b \in 0 .. top
  <2>1. CASE i = 0
      BY <2>1
  <2>2. CASE i # 0
    <3>1. s \in Seq(SUBSET keys)
        BY <1>2 DEF ListsFrom
    <3>2. i \in DOMAIN s
        BY <2>2, <3>1
    <3>3. s[i] # {} /\ s[i] \in SUBSET (1 .. top)
      <4>1. s[i] # {}
          BY <1>2, <3>2 DEF ListsFrom
      <4>2. s[i] \in SUBSET keys
          BY <3>1, <3>2
      <4> QED
          BY <4>1, <4>2
    <3>4. Max(s[i]) \in s[i]
        BY <3>3, Greatest
    <3> QED
        BY <2>2, <3>3, <3>4
  <2> QED
      BY <2>1, <2>2
<1>4. ListsFrom(later, b, rest[b])
    BY <1>3, ReadUpLists
<1>5. Ascending(SubSeq(s, 1, i) \o rest[b], keys \cup later, keys \cap later)
    BY <1>2, <1>4, ListsJoined
<1> QED
    BY <1>1, <1>5

\* A key of a list in ascending order is on one page.
LEMMA OnOnePage ==
  ASSUME NEW keys, keys \subseteq Nat, NEW shown, NEW pages, Ascending(pages, keys, shown),
         NEW i \in DOMAIN pages, NEW j \in DOMAIN pages, i # j
  PROVE  pages[i] \cap pages[j] = {}
<1>1. /\ i \in Nat /\ j \in Nat
      /\ pages[i] \in SUBSET keys /\ pages[j] \in SUBSET keys
    BY DEF Ascending
<1>2. ASSUME NEW k \in pages[i], k \in pages[j]
      PROVE  FALSE
  <2>1. k \in Nat
      BY <1>1
  <2>2. i < j \/ j < i
      BY <1>1
  <2>3. k < k
      BY <1>2, <2>2 DEF Ascending
  <2> QED
      BY <2>1, <2>3
<1> QED
    BY <1>2

-----------------------------------------------------------------------------
(* Lists in descending order are lists in ascending order of the keys as   *)
(* they are counted from the top.                                          *)

\* The keys s as they are counted from the top, and pages of such.
Turned(s, top) == {k \in 1 .. top - 1 : top - k \in s}

TurnedPages(p, top) == [i \in DOMAIN p |-> Turned(p[i], top)]

\* Turned keys are keys, as many as before.
LEMMA TurnedIs ==
  ASSUME NEW top \in Nat \ {0}, NEW s, s \subseteq 1 .. top - 1
  PROVE  /\ Turned(s, top) \subseteq 1 .. top - 1
         /\ \A k \in s : top - k \in Turned(s, top)
         /\ \A k \in Turned(s, top) : top - k \in s
         /\ Turned(s, top) = {} <=> s = {}
         /\ IsFiniteSet(s) /\ IsFiniteSet(Turned(s, top))
         /\ Cardinality(Turned(s, top)) = Cardinality(s)
<1> PICK t : t = Turned(s, top)
    OBVIOUS
<1>1. t \subseteq 1 .. top - 1 /\ \A k \in t : top - k \in s
    BY DEF Turned
<1>2. \A k \in s : top - k \in t
  <2> TAKE k \in s
  <2>1. k \in 1 .. top - 1
      OBVIOUS
  <2>2. top - k \in 1 .. top - 1 /\ top - (top - k) = k
      BY <2>1
  <2> QED
      BY <2>2 DEF Turned
<1>3. t = {} <=> s = {}
    BY <1>1, <1>2
<1>4. IsFiniteSet(s)
  <2>1. top - 1 \in Int /\ IsFiniteSet(1 .. top - 1)
      BY FS_Interval
  <2> QED
      BY <2>1, FS_Subset
<1>5. IsFiniteSet(t) /\ Cardinality(t) = Cardinality(s)
  <2> DEFINE f == [k \in s |-> top - k]
  <2>1. f \in [s -> t]
      BY <1>2
  <2>2. \A k, l \in s : f[k] = f[l] => k = l
    <3> TAKE k, l \in s
    <3>1. k \in Nat /\ l \in Nat
        OBVIOUS
    <3> QED
        BY <3>1
  <2>3. \A l \in t : \E k \in s : f[k] = l
    <3> TAKE l \in t
    <3>1. l \in Nat /\ top - l \in s /\ top - (top - l) = l
        BY <1>1
    <3> QED
        BY <3>1
  <2> HIDE DEF f
  <2>4. f \in Bijection(s, t)
      BY <2>1, <2>2, <2>3 DEF Bijection, Injection, Surjection, IsInjective
  <2>5. ExistsBijection(s, t)
      BY <2>4 DEF ExistsBijection
  <2> QED
      BY <1>4, <2>5, FS_Bijection
<1> QED
    BY <1>1, <1>2, <1>3, <1>4, <1>5

\* Keys turned twice are as they were.
LEMMA TurnedTwice ==
  ASSUME NEW top \in Nat \ {0}, NEW s, s \subseteq 1 .. top - 1
  PROVE  Turned(Turned(s, top), top) = s
<1>1. ASSUME NEW k \in 1 .. top - 1
      PROVE  k \in Turned(Turned(s, top), top) <=> k \in s
  <2>1. top - k \in 1 .. top - 1 /\ top - (top - k) = k
      OBVIOUS
  <2>2. k \in Turned(Turned(s, top), top) <=> top - k \in Turned(s, top)
      BY DEF Turned
  <2>3. top - k \in Turned(s, top) <=> k \in s
      BY <2>1 DEF Turned
  <2> QED
      BY <2>2, <2>3
<1>2. Turned(Turned(s, top), top) \subseteq 1 .. top - 1
    BY DEF Turned
<1> QED
    BY <1>1, <1>2

\* A page before c, turned, is the page of the turned keys after c turned.
LEMMA TurnedPage ==
  ASSUME NEW top \in Nat \ {0}, NEW keys, keys \subseteq 1 .. top - 1, NEW c \in 1 .. top,
         NEW limit \in Nat \ {0}
  PROVE  Turned(PageBefore(keys, c, limit), top) = PageAfter(Turned(keys, top), top - c, limit)
<1> DEFINE Beside1(k) == {j \in keys : k < j /\ j < c}
           Beside2(k) == {j \in Turned(keys, top) : top - c < j /\ j < k}
<1>1. ASSUME NEW k \in 1 .. top - 1
      PROVE  Cardinality(Beside2(k)) = Cardinality(Beside1(top - k))
  <2>1. Beside1(top - k) \subseteq 1 .. top - 1
      OBVIOUS
  <2>2. Beside2(k) = Turned(Beside1(top - k), top)
    <3>1. ASSUME NEW j \in 1 .. top - 1
          PROVE  j \in Beside2(k) <=> j \in Turned(Beside1(top - k), top)
      <4>1. j \in Turned(keys, top) <=> top - j \in keys
          BY DEF Turned
      <4>2. top - c < j <=> top - j < c
          OBVIOUS
      <4>3. j < k <=> top - k < top - j
          OBVIOUS
      <4>4. j \in Turned(Beside1(top - k), top) <=> top - j \in Beside1(top - k)
          BY DEF Turned
      <4> QED
          BY <4>1, <4>2, <4>3, <4>4
    <3>2. Beside2(k) \subseteq 1 .. top - 1 /\ Turned(Beside1(top - k), top) \subseteq 1 .. top - 1
        BY DEF Turned
    <3> HIDE DEF Beside1, Beside2
    <3> QED
        BY <3>1, <3>2
  <2> HIDE DEF Beside1, Beside2
  <2> QED
      BY <2>1, <2>2, TurnedIs
<1>2. ASSUME NEW k \in 1 .. top - 1
      PROVE  k \in Turned(PageBefore(keys, c, limit), top)
               <=> k \in PageAfter(Turned(keys, top), top - c, limit)
  <2>1. k \in Turned(PageBefore(keys, c, limit), top)
          <=> top - k \in keys /\ top - k < c /\ Cardinality(Beside1(top - k)) < limit
      BY DEF Turned, PageBefore
  <2>2. k \in PageAfter(Turned(keys, top), top - c, limit)
          <=> k \in Turned(keys, top) /\ top - c < k /\ Cardinality(Beside2(k)) < limit
      BY DEF PageAfter
  <2>3. k \in Turned(keys, top) <=> top - k \in keys
      BY DEF Turned
  <2>4. top - c < k <=> top - k < c
      OBVIOUS
  <2> HIDE DEF Beside1, Beside2
  <2> QED
      BY <1>1, <2>1, <2>2, <2>3, <2>4
<1>3. /\ Turned(PageBefore(keys, c, limit), top) \subseteq 1 .. top - 1
      /\ PageAfter(Turned(keys, top), top - c, limit) \subseteq 1 .. top - 1
    BY DEF Turned, PageAfter
<1> QED
    BY <1>2, <1>3

\* The least key is the greatest of the turned ones, turned.
LEMMA TurnedMin ==
  ASSUME NEW top \in Nat \ {0}, NEW s, s \subseteq 1 .. top - 1, s # {}
  PROVE  Min(s) \in s /\ Min(s) = top - Max(Turned(s, top))
<1> PICK t, m : t = Turned(s, top) /\ m = Max(t)
    OBVIOUS
<1>1. /\ t \subseteq 1 .. top - 1 /\ t # {}
      /\ \A k \in s : top - k \in t
      /\ \A k \in t : top - k \in s
    BY TurnedIs
<1>2. m \in t /\ \A k \in t : k <= m
  <2>1. top - 1 \in Nat
      OBVIOUS
  <2> QED
      BY <1>1, <2>1, Greatest
<1>3. top - m \in s /\ m \in Nat
    BY <1>1, <1>2
<1>4. ASSUME NEW k \in s PROVE top - m <= k
  <2>1. top - k <= m /\ k \in Nat
      BY <1>1, <1>2
  <2> QED
      BY <1>3, <2>1
<1>5. Min(s) \in s /\ \A k \in s : Min(s) <= k
    BY <1>3, <1>4 DEF Min
<1>6. Min(s) <= top - m /\ top - m <= Min(s) /\ Min(s) \in Nat
  <2>1. Min(s) \in 1 .. top - 1
      BY <1>5
  <2> QED
      BY <1>3, <1>4, <1>5, <2>1
<1> QED
    BY <1>3, <1>5, <1>6

\* A sequence that is a and then b.
LEMMA SeqsJoined ==
  ASSUME NEW T, NEW a \in Seq(T), NEW b \in Seq(T), NEW c \in Seq(T),
         Len(c) = Len(a) + Len(b),
         \A i \in 1 .. Len(a) : c[i] = a[i],
         \A i \in 1 .. Len(b) : c[Len(a) + i] = b[i]
  PROVE  c = a \o b
<1>1. a \o b \in Seq(T) /\ Len(a \o b) = Len(c)
    OBVIOUS
<1>2. ASSUME NEW i \in 1 .. Len(c)
      PROVE  c[i] = (a \o b)[i]
  <2>1. Len(a) \in Nat /\ Len(b) \in Nat /\ i \in Nat
      OBVIOUS
  <2>2. CASE i <= Len(a)
    <3>1. (a \o b)[i] = a[i] /\ i \in 1 .. Len(a)
        BY <2>1, <2>2
    <3> QED
        BY <3>1
  <2>3. CASE i > Len(a)
    <3>1. i - Len(a) \in 1 .. Len(b) /\ Len(a) + (i - Len(a)) = i
        BY <2>1, <2>3
    <3>2. (a \o b)[i] = b[i - Len(a)]
        BY <2>1, <2>3, <3>1
    <3> QED
        BY <3>1, <3>2
  <2> QED
      BY <2>1, <2>2, <2>3
<1> QED
    BY <1>1, <1>2, SeqEqual

\* Turned pages are as many pages, each turned.
LEMMA TurnedSeq ==
  ASSUME NEW S, NEW s \in Seq(S), NEW top
  PROVE  /\ DOMAIN TurnedPages(s, top) = 1 .. Len(s)
         /\ Len(TurnedPages(s, top)) = Len(s)
         /\ TurnedPages(s, top) \in Seq({Turned(x, top) : x \in S})
<1>1. DOMAIN s = 1 .. Len(s) /\ Len(s) \in Nat /\ \A i \in 1 .. Len(s) : s[i] \in S
    OBVIOUS
<1> QED
    BY <1>1 DEF TurnedPages

\* The sequence s is one of pages out of S.
PagesOf(S, s) == s \in Seq(S)

\* Turning the pages of s and of t put together turns each.
TurnsJoined(s, t, top) == TurnedPages(s \o t, top) = TurnedPages(s, top) \o TurnedPages(t, top)

\* Pages, turned and put together.
LEMMA TurnedJoined ==
  ASSUME NEW S, NEW s, PagesOf(S, s), NEW t, PagesOf(S, t), NEW top
  PROVE  TurnsJoined(s, t, top)
<1>0. s \in Seq(S) /\ t \in Seq(S)
    BY DEF PagesOf
<1> DEFINE T == {Turned(x, top) : x \in S}
<1>1. \A p \in Seq(S) : /\ TurnedPages(p, top) \in Seq(T)
                        /\ Len(TurnedPages(p, top)) = Len(p)
                        /\ \A i \in 1 .. Len(p) : TurnedPages(p, top)[i] = Turned(p[i], top)
  <2> TAKE p \in Seq(S)
  <2>1. DOMAIN p = 1 .. Len(p) /\ Len(p) \in Nat /\ \A i \in 1 .. Len(p) : p[i] \in S
      OBVIOUS
  <2> QED
      BY <2>1 DEF TurnedPages
<1>2. s \o t \in Seq(S) /\ Len(s \o t) = Len(s) + Len(t)
    BY <1>0
<1> PICK a, b, c : a = TurnedPages(s, top) /\ b = TurnedPages(t, top) /\ c = TurnedPages(s \o t, top)
    OBVIOUS
<1>3. /\ a \in Seq(T) /\ b \in Seq(T) /\ c \in Seq(T)
      /\ Len(a) = Len(s) /\ Len(b) = Len(t) /\ Len(c) = Len(s) + Len(t)
      /\ \A i \in 1 .. Len(s) : a[i] = Turned(s[i], top)
      /\ \A i \in 1 .. Len(t) : b[i] = Turned(t[i], top)
      /\ \A i \in 1 .. Len(s) + Len(t) : c[i] = Turned((s \o t)[i], top)
    BY <1>0, <1>1, <1>2
<1>4. c = a \o b
  <2>1. \A i \in 1 .. Len(s) : c[i] = a[i]
    <3> TAKE i \in 1 .. Len(s)
    <3>1. i \in 1 .. Len(s) + Len(t) /\ (s \o t)[i] = s[i]
        BY <1>0
    <3> QED
        BY <1>3, <3>1
  <2>2. \A i \in 1 .. Len(t) : c[Len(s) + i] = b[i]
    <3> TAKE i \in 1 .. Len(t)
    <3>1. Len(s) + i \in 1 .. Len(s) + Len(t) /\ (s \o t)[Len(s) + i] = t[i]
        BY <1>0
    <3> QED
        BY <1>3, <3>1
  <2> PICK U : U = T
      OBVIOUS
  <2>3. a \in Seq(U) /\ b \in Seq(U) /\ c \in Seq(U)
      BY <1>3
  <2>4. /\ Len(c) = Len(a) + Len(b)
        /\ \A i \in 1 .. Len(a) : c[i] = a[i]
        /\ \A i \in 1 .. Len(b) : c[Len(a) + i] = b[i]
      BY <1>3, <2>1, <2>2
  <2> QED
      BY ONLY <2>3, <2>4, SeqsJoined
<1> QED
    BY <1>3, <1>4 DEF TurnsJoined

\* Reading on downwards from c, when r is what reading on from earlier keys gives.
DownOn(keys, limit, c, r) ==
  IF PageBefore(keys, c, limit) = {} THEN <<>>
  ELSE <<PageBefore(keys, c, limit)>> \o r[Min(PageBefore(keys, c, limit))]

ReadsDown(keys, limit, top, r) == r = [c \in 1 .. top |-> DownOn(keys, limit, c, r)]

\* What is read downwards from c, page being its first and tp that page turned.
Behind(top, keys, c, page, tp) ==
  /\ page \in SUBSET keys /\ tp = Turned(page, top) /\ Turned(tp, top) = page
  /\ tp = {} <=> page = {}
  /\ page # {} => /\ Min(page) \in 1 .. c - 1 /\ Max(tp) = top - Min(page)
                 /\ Max(tp) \in (top - c + 1) .. top - 1

\* A page read downwards is turned a page read upwards.
LEMMA PageBehind ==
  ASSUME NEW top \in Nat \ {0}, NEW keys, keys \subseteq 1 .. top - 1, NEW c \in 1 .. top,
         NEW limit \in Nat \ {0}
  PROVE  Behind(top, keys, c, PageBefore(keys, c, limit),
                PageAfter(Turned(keys, top), top - c, limit))
<1> PICK page, tp : /\ page = PageBefore(keys, c, limit)
                    /\ tp = PageAfter(Turned(keys, top), top - c, limit)
    OBVIOUS
<1>1. page \in SUBSET keys /\ \A k \in page : k < c
    BY DEF PageBefore
<1>2. tp = Turned(page, top)
    BY TurnedPage
<1>3. page \subseteq 1 .. top - 1
    BY <1>1
<1>4. Turned(tp, top) = page /\ (tp = {} <=> page = {})
    BY <1>2, <1>3, TurnedTwice, TurnedIs
<1>5. ASSUME page # {}
      PROVE  /\ Min(page) \in 1 .. c - 1 /\ Max(tp) = top - Min(page)
             /\ Max(tp) \in (top - c + 1) .. top - 1
  <2>1. Min(page) \in page /\ Min(page) = top - Max(tp)
      BY <1>2, <1>3, <1>5, TurnedMin
  <2>2. tp # {} /\ tp \in SUBSET (1 .. top - 1) /\ top - 1 \in Nat
      BY <1>2, <1>3, <1>4, <1>5, TurnedIs
  <2>3. Max(tp) \in tp
      BY <2>2, Greatest
  <2>4. Max(tp) \in Nat /\ Min(page) \in Nat /\ 1 <= Min(page) /\ Min(page) < c
      BY <1>1, <1>3, <2>1, <2>2, <2>3
  <2> QED
      BY <2>1, <2>4
<1>6. Behind(top, keys, c, page, tp)
    BY <1>1, <1>2, <1>4, <1>5 DEF Behind
<1> QED
    BY <1>6

\* Turning a page and t behind it turns the page and t.
TurnsOn(page, t, top) ==
  TurnedPages(<<page>> \o t, top) = <<Turned(page, top)>> \o TurnedPages(t, top)

\* One page and those behind it, turned.
LEMMA TurnedCons ==
  ASSUME NEW S, NEW top, NEW page \in S, NEW t, PagesOf(S, t)
  PROVE  TurnsOn(page, t, top)
<1>1. PagesOf(S, <<page>>)
    BY DEF PagesOf
<1>2. TurnedPages(<<page>>, top) = <<Turned(page, top)>>
    BY DEF TurnedPages
<1>3. TurnedPages(<<page>> \o t, top) = TurnedPages(<<page>>, top) \o TurnedPages(t, top)
  <2> PICK p : p = <<page>>
      OBVIOUS
  <2>1. TurnsJoined(p, t, top)
      BY <1>1, TurnedJoined
  <2> QED
      BY <2>1 DEF TurnsJoined
<1> QED
    BY <1>2, <1>3 DEF TurnsOn

\* No pages turned are none.
LEMMA TurnedNone == ASSUME NEW top PROVE TurnedPages(<<>>, top) = <<>>
BY DEF TurnedPages

\* There is what is read downwards, from every key: what is read upwards, turned.
LEMMA ReadsDownExist ==
  ASSUME NEW top \in Nat \ {0}, NEW keys, keys \subseteq 1 .. top - 1, NEW limit \in Nat \ {0}
  PROVE  \E r : ReadsDown(keys, limit, top, r)
<1> PICK n, tks : n = top - 1 /\ tks = Turned(keys, top)
    OBVIOUS
<1>1. n \in Nat /\ tks \in SUBSET (1 .. n)
    BY DEF Turned
<1>2. PICK q : Reads(tks, limit, 0, n, q)
    BY <1>1, ReadsExist
<1>3. ASSUME NEW d \in 0 .. n
      PROVE  q[d] \in Seq(SUBSET tks)
  <2>1. ListsFrom(tks, d, q[d])
      BY <1>1, <1>2, ReadsList
  <2> QED
      BY <2>1 DEF ListsFrom
<1> DEFINE r == [c \in 1 .. top |-> TurnedPages(q[top - c], top)]
<1>4. ASSUME NEW c \in 1 .. top
      PROVE  TurnedPages(q[top - c], top) = DownOn(keys, limit, c, r)
  <2> PICK page, d, tp : /\ page = PageBefore(keys, c, limit) /\ d = top - c
                         /\ tp = PageAfter(tks, d, limit)
      OBVIOUS
  <2>1. /\ Turned(tp, top) = page /\ (tp = {} <=> page = {})
        /\ page # {} => /\ Min(page) \in 1 .. c - 1 /\ Max(tp) = top - Min(page)
                        /\ Max(tp) \in (top - c + 1) .. top - 1
    <3>1. Behind(top, keys, c, page, tp)
        BY PageBehind
    <3> QED
        BY <3>1 DEF Behind
  <2>2. d \in 0 .. n /\ q[d] = ReadOn(tks, limit, d, q)
      BY <1>2 DEF Reads
  <2>3. CASE page = {}
    <3>1. q[d] = <<>>
        BY <2>1, <2>2, <2>3 DEF ReadOn
    <3> QED
        BY <2>3, <3>1, TurnedNone DEF DownOn
  <2>4. CASE page # {}
    <3> PICK m : m = Max(tp)
        OBVIOUS
    <3>1. q[d] = <<tp>> \o q[m]
        BY <2>1, <2>2, <2>4 DEF ReadOn
    <3>2. m \in 0 .. n /\ top - Min(page) = m /\ Min(page) \in 1 .. top
        BY <2>1, <2>4
    <3>3. r[Min(page)] = TurnedPages(q[m], top)
        BY <3>2
    <3>4. TurnedPages(q[d], top) = <<page>> \o TurnedPages(q[m], top)
      <4>1. PagesOf(SUBSET tks, q[m]) /\ tp \in SUBSET tks
          BY <1>3, <3>2 DEF PageAfter, PagesOf
      <4>2. TurnsOn(tp, q[m], top)
          BY <4>1, TurnedCons
      <4> QED
          BY <2>1, <3>1, <4>2 DEF TurnsOn
    <3> HIDE DEF r
    <3> QED
        BY <2>4, <3>3, <3>4 DEF DownOn
  <2> QED
      BY <2>3, <2>4
<1>5. r = [c \in 1 .. top |-> DownOn(keys, limit, c, r)]
  <2> PICK f : f = [c \in 1 .. top |-> DownOn(keys, limit, c, r)]
      OBVIOUS
  <2>1. \A c \in 1 .. top : r[c] = f[c]
      BY <1>4
  <2> QED
      BY <2>1
<1> QED
    BY <1>5 DEF ReadsDown

\* Turned, what is read downwards lists the turned keys.
LEMMA ReadDownLists ==
  ASSUME NEW top \in Nat \ {0}, NEW keys, keys \subseteq 1 .. top - 1, NEW limit \in Nat \ {0},
         NEW c \in 1 .. top
  PROVE  /\ ReadDown(keys, limit, top)[c] \in Seq(SUBSET keys)
         /\ ListsFrom(Turned(keys, top), top - c, TurnedPages(ReadDown(keys, limit, top)[c], top))
<1> DEFINE r == CHOOSE p : ReadsDown(keys, limit, top, p)
           tks == Turned(keys, top)
           Right(b) == /\ r[b] \in Seq(SUBSET keys)
                       /\ ListsFrom(tks, top - b, TurnedPages(r[b], top))
           Bad == {b \in Nat : b \in 1 .. top /\ ~Right(b)}
<1>1. ReadDown(keys, limit, top) = r
    BY DEF ReadDown, ReadsDown, DownOn
<1>2. ReadsDown(keys, limit, top, r)
    BY ReadsDownExist
<1>3. tks \subseteq 1 .. top - 1 /\ top - 1 \in Nat
    BY DEF Turned
<1> HIDE DEF r, tks
<1>4. Bad = {}
  <2> SUFFICES ASSUME Bad # {}
               PROVE  FALSE
      OBVIOUS
  <2>0. Bad \subseteq Nat
      OBVIOUS
  <2>1. PICK b \in Bad : \A m \in Bad : b <= m
    <3> HIDE DEF Bad
    <3> QED
        BY <2>0, LeastNatural
  <2>2. b \in 1 .. top /\ ~Right(b)
      OBVIOUS
  <2> PICK page, d, tp : /\ page = PageBefore(keys, b, limit) /\ d = top - b
                         /\ tp = PageAfter(tks, d, limit)
      OBVIOUS
  <2>3. /\ page \in SUBSET keys /\ tp = Turned(page, top) /\ (tp = {} <=> page = {})
        /\ page # {} => /\ Min(page) \in 1 .. b - 1 /\ Max(tp) = top - Min(page)
                        /\ Max(tp) \in (top - b + 1) .. top - 1
    <3>1. Behind(top, keys, b, page, tp)
        BY <2>2, PageBehind DEF tks
    <3> QED
        BY <3>1 DEF Behind
  <2>4. r[b] = DownOn(keys, limit, b, r)
      BY <1>2, <2>2 DEF ReadsDown
  <2>5. d \in 0 .. top - 1
      BY <2>2
  <2>6. CASE page = {}
    <3>1. r[b] = <<>>
        BY <2>4, <2>6 DEF DownOn
    <3>2. TurnedPages(r[b], top) = <<>>
        BY <3>1, TurnedNone
    <3>3. \A k \in tks : ~(d < k)
      <4>1. d \in Nat
          BY <2>5
      <4>2. FirstAfter(tks, d, tp)
          BY <1>3, <4>1, OnePage
      <4>3. \A k \in tks : k <= d /\ k \in Nat
          BY <1>3, <2>3, <2>6, <4>2 DEF FirstAfter
      <4> QED
          BY <4>1, <4>3
    <3>4. ListsFrom(tks, d, <<>>)
        BY <3>3 DEF ListsFrom
    <3>5. Right(b)
        BY <3>1, <3>2, <3>4
    <3> QED
        BY <2>2, <3>5
  <2>7. CASE page # {}
    <3> PICK m, x : m = Min(page) /\ x = Max(tp)
        OBVIOUS
    <3>1. m \in 1 .. b - 1 /\ x = top - m /\ tp # {} /\ m \in 1 .. top
        BY <2>2, <2>3, <2>7
    <3>2. Right(m)
      <4>1. m \in Nat /\ ~(b <= m)
          BY <2>2, <3>1
      <4>2. m \notin Bad
          BY <2>1, <4>1
      <4> QED
          BY <3>1, <4>1, <4>2
    <3>3. r[b] = <<page>> \o r[m]
        BY <2>4, <2>7 DEF DownOn
    <3> PICK t : t = TurnedPages(r[m], top)
        OBVIOUS
    <3>4. ListsFrom(tks, Max(tp), t)
        BY <3>1, <3>2
    <3>5. ListsFrom(tks, d, <<tp>> \o t)
      <4> PICK n : n = top - 1
          OBVIOUS
      <4>1. n \in Nat /\ tks \in SUBSET (1 .. n) /\ d \in 0 .. n
          BY <1>3, <2>5
      <4> QED
          BY <3>1, <3>4, <4>1, ListsOn
    <3>6. TurnedPages(r[b], top) = <<tp>> \o t
      <4>1. PagesOf(SUBSET keys, r[m]) /\ page \in SUBSET keys
          BY <2>3, <3>2 DEF PagesOf
      <4>2. TurnsOn(page, r[m], top)
          BY <4>1, TurnedCons
      <4> QED
          BY <2>3, <3>3, <4>2 DEF TurnsOn
    <3>7. r[b] \in Seq(SUBSET keys)
      <4>1. <<page>> \in Seq(SUBSET keys) /\ r[m] \in Seq(SUBSET keys)
          BY <2>3, <3>2
      <4> QED
          BY <3>3, <4>1
    <3>8. Right(b)
        BY <3>5, <3>6, <3>7
    <3> QED
        BY <2>2, <3>8
  <2> QED
      BY <2>6, <2>7
<1>5. Right(c)
    BY <1>4
<1> QED
    BY <1>1, <1>5 DEF tks

\* Turned, the pages ascend.
Descends(pages, keys, later, top) ==
  /\ Ascending(TurnedPages(pages, top),
               Turned(keys, top) \cup Turned(later, top),
               Turned(keys, top) \cap Turned(later, top))
  /\ DOMAIN TurnedPages(pages, top) = DOMAIN pages

\* So turned, whatever is read downwards ascends.
LEMMA ReadingsDescend ==
  ASSUME NEW top \in Nat \ {0}, NEW keys, keys \subseteq 1 .. top - 1,
         NEW later, later \subseteq 1 .. top - 1,
         NEW limit \in Nat \ {0}, NEW pages \in ReadingsDown(keys, later, limit, top)
  PROVE  Descends(pages, keys, later, top)
<1> PICK s, rest : s = ReadDown(keys, limit, top)[top] /\ rest = ReadDown(later, limit, top)
    OBVIOUS
<1>1. PICK i \in 0 .. Len(s) :
        pages = SubSeq(s, 1, i) \o rest[IF i = 0 THEN top ELSE Min(s[i])]
    BY DEF ReadingsDown
<1> PICK b, ts, tks, tls : /\ b = IF i = 0 THEN top ELSE Min(s[i])
                           /\ ts = TurnedPages(s, top)
                           /\ tks = Turned(keys, top) /\ tls = Turned(later, top)
    OBVIOUS
<1>2. s \in Seq(SUBSET keys) /\ ListsFrom(tks, 0, ts)
  <2>1. top \in 1 .. top /\ top - top = 0
      OBVIOUS
  <2> QED
      BY <2>1, ReadDownLists
<1>3. Len(s) \in Nat /\ DOMAIN s = 1 .. Len(s) /\ i \in Nat /\ i <= Len(s)
    BY <1>2
<1>4. Len(ts) = Len(s) /\ \A j \in 1 .. Len(s) : ts[j] = Turned(s[j], top)
  <2>1. Len(ts) = Len(s)
      BY <1>2, TurnedSeq
  <2> QED
      BY <1>3, <2>1 DEF TurnedPages
<1>5. /\ b \in 1 .. top
      /\ top - b = IF i = 0 THEN 0 ELSE Max(ts[i])
  <2>1. CASE i = 0
      BY <2>1
  <2>2. CASE i # 0
    <3>1. i \in 1 .. Len(s) /\ s[i] \in SUBSET keys
        BY <1>2, <1>3, <2>2
    <3> PICK page, tp : page = s[i] /\ tp = ts[i]
        OBVIOUS
    <3>2. tp = Turned(page, top) /\ page \subseteq 1 .. top - 1
        BY <1>4, <3>1
    <3>3. page # {}
      <4>1. tp # {}
          BY <1>2, <1>3, <1>4, <3>1 DEF ListsFrom
      <4> QED
          BY <3>2, <4>1, TurnedIs
    <3>4. Min(page) \in page /\ Min(page) = top - Max(tp)
        BY <3>2, <3>3, TurnedMin
    <3>5. Max(tp) \in Int
      <4>1. tp \in SUBSET (1 .. top - 1) /\ tp # {} /\ top - 1 \in Nat
          BY <3>2, <3>3, TurnedIs
      <4>2. Max(tp) \in tp
          BY <4>1, Greatest
      <4> QED
          BY <4>1, <4>2
    <3> QED
        BY <2>2, <3>2, <3>4, <3>5
  <2> QED
      BY <2>1, <2>2
<1> PICK t, tt : t = rest[b] /\ tt = TurnedPages(rest[b], top)
    OBVIOUS
<1>6. t \in Seq(SUBSET later) /\ ListsFrom(tls, top - b, tt)
    BY <1>5, ReadDownLists
<1>7. Ascending(SubSeq(ts, 1, i) \o tt, tks \cup tls, tks \cap tls)
  <2> PICK n, e : n = top - 1 /\ e = top - b
      OBVIOUS
  <2>1. /\ n \in Nat /\ tks \subseteq 1 .. n /\ tls \subseteq 1 .. n
        /\ i \in 0 .. Len(ts) /\ e = IF i = 0 THEN 0 ELSE Max(ts[i])
      BY <1>3, <1>4, <1>5, TurnedIs
  <2> QED
      BY <1>2, <1>6, <2>1, ListsJoined
<1>8. TurnedPages(pages, top) = SubSeq(ts, 1, i) \o tt /\ DOMAIN TurnedPages(pages, top) = DOMAIN pages
  <2> PICK h, all : h = SubSeq(s, 1, i) /\ all = SUBSET (keys \cup later)
      OBVIOUS
  <2>1. /\ h \in Seq(all) /\ t \in Seq(all)
        /\ h = [j \in 1 .. i |-> s[j]]
    <3>1. h = [j \in 1 .. i |-> s[j]]
        BY <1>2, <1>3
    <3>2. \A j \in 1 .. i : s[j] \in SUBSET keys
        BY <1>2, <1>3
    <3> QED
        BY <1>3, <1>6, <3>1, <3>2
  <2>2. TurnedPages(h, top) = SubSeq(ts, 1, i)
    <3>1. SubSeq(ts, 1, i) = [j \in 1 .. i |-> ts[j]]
      <4>1. ts \in Seq({Turned(x, top) : x \in SUBSET keys})
          BY <1>2, TurnedSeq
      <4> QED
          BY <1>3, <1>4, <4>1
    <3>2. TurnedPages(h, top) = [j \in 1 .. i |-> Turned(s[j], top)]
        BY <2>1 DEF TurnedPages
    <3>3. \A j \in 1 .. i : ts[j] = Turned(s[j], top)
        BY <1>3, <1>4
    <3> QED
        BY <3>1, <3>2, <3>3
  <2>3. TurnedPages(h \o t, top) = TurnedPages(h, top) \o TurnedPages(t, top)
    <3>1. PagesOf(all, h) /\ PagesOf(all, t)
        BY <2>1 DEF PagesOf
    <3>2. TurnsJoined(h, t, top)
        BY <3>1, TurnedJoined
    <3> QED
        BY <3>2 DEF TurnsJoined
  <2> QED
      BY <1>1, <2>2, <2>3 DEF TurnedPages
<1> QED
    BY <1>7, <1>8 DEF Descends

\* What pages in ascending order show, they show once.
LEMMA ShownOnce ==
  ASSUME NEW keys, keys \subseteq Nat, NEW shown, NEW pages, Ascending(pages, keys, shown)
  PROVE  EachOnce(shown, pages)
<1> SUFFICES ASSUME NEW k \in shown
             PROVE  Cardinality({i \in DOMAIN pages : k \in pages[i]}) = 1
    BY DEF EachOnce
<1>1. PICK i \in DOMAIN pages : k \in pages[i]
    BY DEF Ascending
<1>2. ASSUME NEW j \in DOMAIN pages, k \in pages[j]
      PROVE  j = i
  <2> SUFFICES ASSUME i # j PROVE FALSE
      OBVIOUS
  <2>1. pages[i] \cap pages[j] = {}
      BY OnOnePage
  <2> QED
      BY <1>1, <1>2, <2>1
<1>3. {j \in DOMAIN pages : k \in pages[j]} = {i}
    BY <1>1, <1>2
<1> QED
    BY <1>3, FS_Singleton

(* Read by pages, while keys come and go, each key that stays is listed    *)
(* exactly once, in either order and from whatever limit: the ranges after *)
(* or before the last key of a page (klmd-custom-proposal contract.rs:700, *)
(* 719 and 754, as in the other contracts).                                *)
THEOREM EachListedOnce ==
  ASSUME NEW top \in Nat, NEW keys, keys \subseteq 1 .. top, NEW later, later \subseteq 1 .. top,
         NEW limit \in Nat \ {0},
         NEW pages \in ReadingsUp(keys, later, limit, top)
                         \cup ReadingsDown(keys, later, limit, top + 1)
  PROVE  EachOnce(keys \cap later, pages)
<1>1. CASE pages \in ReadingsUp(keys, later, limit, top)
  <2>1. Ascending(pages, keys \cup later, keys \cap later)
      BY <1>1, ReadingsAscend
  <2>2. keys \cup later \subseteq Nat
      OBVIOUS
  <2> QED
      BY <2>1, <2>2, ShownOnce
<1>2. CASE pages \in ReadingsDown(keys, later, limit, top + 1)
  <2> PICK n : n = top + 1
      OBVIOUS
  <2>1. n \in Nat \ {0} /\ keys \subseteq 1 .. n - 1 /\ later \subseteq 1 .. n - 1
      OBVIOUS
  <2> PICK p, tks, tls : /\ p = TurnedPages(pages, n)
                         /\ tks = Turned(keys, n) /\ tls = Turned(later, n)
      OBVIOUS
  <2>2. Ascending(p, tks \cup tls, tks \cap tls) /\ DOMAIN p = DOMAIN pages
    <3>1. pages \in ReadingsDown(keys, later, limit, n)
        BY <1>2
    <3>2. Descends(pages, keys, later, n)
        BY <2>1, <3>1, ReadingsDescend
    <3> QED
        BY <3>2 DEF Descends
  <2>3. tks \cup tls \subseteq Nat
    <3>1. tks \subseteq 1 .. n - 1 /\ tls \subseteq 1 .. n - 1
        BY <2>1, TurnedIs
    <3> QED
        BY <3>1
  <2>4. EachOnce(tks \cap tls, p)
      BY <2>2, <2>3, ShownOnce
  <2> SUFFICES ASSUME NEW k \in keys \cap later
               PROVE  Cardinality({i \in DOMAIN pages : k \in pages[i]}) = 1
      BY DEF EachOnce
  <2> PICK l : l = n - k
      OBVIOUS
  <2>5. l \in tks \cap tls /\ l \in 1 .. n - 1 /\ n - l = k
    <3>1. k \in 1 .. n - 1 /\ l \in 1 .. n - 1 /\ n - l = k
        BY <2>1
    <3> QED
        BY <3>1 DEF Turned
  <2>6. \A i \in DOMAIN pages : l \in p[i] <=> k \in pages[i]
      BY <2>5 DEF TurnedPages, Turned
  <2>7. {i \in DOMAIN p : l \in p[i]} = {i \in DOMAIN pages : k \in pages[i]}
      BY <2>2, <2>6
  <2> QED
      BY <2>4, <2>5, <2>7 DEF EachOnce
<1> QED
    BY <1>1, <1>2


-----------------------------------------------------------------------------
(* What a list of the votes adds up to.                                    *)

\* What page i lists of f.
OnPage(f, page) == [a \in Address |-> IF Rank[a] \in page THEN f[a] ELSE 0]

\* What is listed on the pages of D.
Shown(pages, D) == {a \in Address : \E i \in D : Rank[a] \in pages[i]}

\* Pages that have no key in common list each value once.
LEMMA PagesAdd ==
  ASSUME NEW pages, IsFiniteSet(DOMAIN pages),
         \A i, j \in DOMAIN pages : i # j => pages[i] \cap pages[j] = {},
         NEW f, \A a \in Address : f[a] \in Nat,
         NEW F, DOMAIN F = DOMAIN pages,
         \A i \in DOMAIN pages : F[i] = SumFunction(OnPage(f, pages[i]))
  PROVE  SumFunction(F) = SumFunctionOnSet(f, Shown(pages, DOMAIN pages))
<1> DEFINE dom == DOMAIN pages
           On(i) == {a \in Address : Rank[a] \in pages[i]}
           Bad == {D \in SUBSET dom : SumFunctionOnSet(F, D) # SumFunctionOnSet(f, Shown(pages, D))}
<1>1. /\ IsFiniteSet(Address) /\ \A s \in SUBSET Address : IsFiniteSet(s)
      /\ \A s \in SUBSET Address : SumFunctionOnSet(f, s) \in Nat
  <2>1. IsFiniteSet(Address) /\ \A s \in SUBSET Address : IsFiniteSet(s)
      BY FS_Subset, ProposalAssumption
  <2>2. ASSUME NEW s \in SUBSET Address
        PROVE  SumFunctionOnSet(f, s) \in Nat
      BY <2>1, SumIsNat
  <2> QED
      BY <2>1, <2>2
<1>2. ASSUME NEW i \in dom
      PROVE  F[i] = SumFunctionOnSet(f, On(i)) /\ F[i] \in Nat
  <2> DEFINE g == OnPage(f, pages[i])
             T == On(i)
  <2>1. /\ DOMAIN g = Address /\ T \in SUBSET Address
        /\ \A a \in Address : g[a] = IF a \in T THEN f[a] ELSE 0
      BY DEF OnPage
  <2>2. F[i] = SumFunctionOnSet(g, Address)
      BY <2>1 DEF SumFunction
  <2> HIDE DEF g, T
  <2>3. SumFunctionOnSet(g, Address) = SumFunctionOnSet(g, T)
    <3>1. \A a \in Address : g[a] \in Int
        BY <2>1
    <3>2. \A a \in Address \ T : g[a] = 0
        BY <2>1
    <3> QED
        BY <1>1, <2>1, <3>1, <3>2, SumOutside
  <2>4. SumFunctionOnSet(g, T) = SumFunctionOnSet(f, T)
    <3>1. \A a \in T : g[a] = f[a]
        BY <2>1
    <3> QED
        BY <1>1, <2>1, <3>1, SumOfSame
  <2>5. SumFunctionOnSet(f, T) \in Nat
      BY <1>1, <2>1
  <2> QED
      BY <2>2, <2>3, <2>4, <2>5 DEF T
<1>3. Bad = {}
  <2> SUFFICES ASSUME Bad # {}
               PROVE  FALSE
      OBVIOUS
  <2>0. Bad \subseteq SUBSET dom
      OBVIOUS
  <2>1. PICK D \in Bad : \A E \in Bad : E \subseteq D => E = D
    <3> HIDE DEF Bad
    <3> QED
        BY <2>0, LeastSubset
  <2>2. /\ D \in SUBSET dom /\ IsFiniteSet(D)
        /\ SumFunctionOnSet(F, D) # SumFunctionOnSet(f, Shown(pages, D))
      BY FS_Subset
  <2>3. CASE D = {}
    <3>1. Shown(pages, D) = {}
        BY <2>3 DEF Shown
    <3> QED
        BY <2>2, <2>3, <3>1, SumOfNone
  <2>4. CASE D # {}
    <3>1. PICK i \in D : TRUE
        BY <2>4
    <3> DEFINE E == D \ {i}
               rest == Shown(pages, E)
               here == On(i)
    <3>2. E \in SUBSET dom /\ E # D /\ E \subseteq D /\ i \in dom
        BY <2>2, <3>1
    <3>3. SumFunctionOnSet(F, E) = SumFunctionOnSet(f, rest)
        BY <2>1, <3>2
    <3>4. SumFunctionOnSet(F, D) = F[i] + SumFunctionOnSet(F, E)
      <4>1. \A j \in D : F[j] \in Int
        <5> TAKE j \in D
        <5>1. j \in dom
            BY <2>2
        <5>2. F[j] \in Nat
            BY <1>2, <5>1
        <5> QED
            BY <5>2
      <4> QED
          BY <2>2, <3>1, <4>1, SumWithout
    <3>5. Shown(pages, D) = here \cup rest /\ here \cap rest = {}
      <4>1. Shown(pages, D) = here \cup rest
          BY <3>1 DEF Shown
      <4>2. \A j \in E : pages[i] \cap pages[j] = {}
          BY <3>2
      <4> QED
          BY <4>1, <4>2 DEF Shown
    <3>6. here \in SUBSET Address /\ rest \in SUBSET Address
        BY DEF Shown
    <3>7. SumFunctionOnSet(f, Shown(pages, D))
            = SumFunctionOnSet(f, here) + SumFunctionOnSet(f, rest)
      <4> HIDE DEF here, rest
      <4>1. \A a \in here \cup rest : f[a] \in Int
          BY <3>6
      <4>2. IsFiniteSet(here) /\ IsFiniteSet(rest)
          BY <1>1, <3>6
      <4>3. SumFunctionOnSet(f, here \cup rest)
              = SumFunctionOnSet(f, here) + SumFunctionOnSet(f, rest)
          BY <3>5, <4>1, <4>2, SumOfDisjoint
      <4> QED
          BY <3>5, <4>3
    <3>8. F[i] = SumFunctionOnSet(f, here)
        BY <1>2, <3>2
    <3> QED
        BY <2>2, <3>3, <3>4, <3>7, <3>8
  <2> QED
      BY <2>3, <2>4
<1>4. SumFunctionOnSet(F, dom) = SumFunctionOnSet(f, Shown(pages, dom))
    BY <1>3
<1> QED
    BY <1>4 DEF SumFunction

\* What is cast after the step, and with what powers.
CastAdds ==
  \A id \in Ids :
    Cast(proposals[id].votes) = SumFunctionOnSet(PowerIn(ballots, id), HasVoted(ballots, id))

PowersTyped == \A id : \A a \in Address : PowerIn(ballots, id)[a] \in Nat

LEMMA CastIsSumNext == CoreInv' => CastAdds' /\ PowersTyped'
<1>1. CoreInv => CastAdds /\ PowersTyped
    BY CastIsSum, BallotsTyped DEF CoreInv, CastAdds, PowersTyped
<1> QED
    BY <1>1, PTL

\* The list of what is said after the step by those who have voted then, some of them
\* before it.
LEMMA ListAddsUp ==
  ASSUME CoreInv, CoreInv', KeepsVotes, NEW id \in Ids, id \notin outdated,
         NEW limit \in Limits,
         NEW pages \in ReadingsUp(VotersOf(id), VotersOf(id)', limit, Cardinality(Address))
  PROVE  /\ Cast(proposals[id].votes) <= ListedPower(id, pages)'
         /\ ListedPower(id, pages)' <= Cast(proposals'[id].votes)
<1> DEFINE top == Cardinality(Address)
           keys == VotersOf(id)
           later == VotersOf(id)'
           V == HasVoted(ballots, id)
           W == HasVoted(ballots', id)
           f == PowerIn(ballots, id)
           g == PowerIn(ballots', id)
           F == [i \in DOMAIN pages |->
                   SumFunction([a \in Address |->
                     IF Rank[a] \in pages[i] THEN ballots'[<<id, a>>].power ELSE 0])]
           S == Shown(pages, DOMAIN pages)
<1>1. /\ top \in Nat /\ IsFiniteSet(Address) /\ limit \in Nat \ {0}
      /\ \A a \in Address : Rank[a] \in 1 .. top
      /\ \A a, b \in Address : Rank[a] = Rank[b] => a = b
    BY ProposalAssumption, FS_CardinalityType
<1>2. /\ keys \subseteq 1 .. top /\ later \subseteq 1 .. top
      /\ keys = {Rank[a] : a \in V} /\ later = {Rank[a] : a \in W}
    BY <1>1 DEF VotersOf, HasVoted
<1>3. V \subseteq W /\ W \subseteq Address /\ keys \subseteq later
    BY <1>2 DEF KeepsVotes, HasVoted
<1>4. Ascending(pages, later, keys)
  <2>1. Ascending(pages, keys \cup later, keys \cap later)
    <3> HIDE DEF top, keys, later
    <3> QED
        BY <1>1, <1>2, ReadingsAscend DEF keys, later, top
  <2>2. keys \cup later = later /\ keys \cap later = keys
      BY <1>3
  <2> QED
      BY <2>1, <2>2
<1>5. /\ IsFiniteSet(DOMAIN pages)
      /\ \A i \in DOMAIN pages : pages[i] \subseteq later
      /\ \A i, j \in DOMAIN pages : i # j => pages[i] \cap pages[j] = {}
  <2> HIDE DEF later, keys
  <2>1. later \subseteq Nat
      BY <1>2
  <2>2. pages \in Seq(SUBSET later)
      BY <1>4 DEF Ascending
  <2>3. \A i \in DOMAIN pages : pages[i] \in SUBSET later
      BY <2>2
  <2>4. IsFiniteSet(DOMAIN pages)
    <3>1. DOMAIN pages = 1 .. Len(pages) /\ Len(pages) \in Nat
        BY <2>2
    <3> QED
        BY <3>1, FS_Interval
  <2> QED
      BY <1>4, <2>1, <2>3, <2>4, OnOnePage
<1>6. \A a \in Address, i \in DOMAIN pages : Rank[a] \in pages[i] => a \in W
  <2> SUFFICES ASSUME NEW a \in Address, NEW i \in DOMAIN pages, Rank[a] \in pages[i]
               PROVE  a \in W
      OBVIOUS
  <2>1. PICK b \in W : Rank[a] = Rank[b]
      BY <1>2, <1>5
  <2> QED
      BY <1>1, <1>3, <2>1
<1>7. V \subseteq S /\ S \subseteq W
  <2>1. \A a \in V : \E i \in DOMAIN pages : Rank[a] \in pages[i]
      BY <1>2, <1>4 DEF Ascending
  <2> QED
      BY <1>3, <1>6, <2>1 DEF Shown
<1>8. /\ \A a \in Address : g[a] \in Nat
      /\ \A a \in V : f[a] = g[a]
  <2>1. \A a \in V : /\ <<id, a>> \in DOMAIN ballots /\ <<id, a>> \in DOMAIN ballots'
                     /\ ballots'[<<id, a>>].power = ballots[<<id, a>>].power
      BY DEF KeepsVotes, HasVoted
  <2>2. \A a \in V : f[a] = g[a]
      BY <2>1 DEF PowerIn, HasVoted
  <2> QED
      BY <2>2, CastIsSumNext DEF PowersTyped, PowerIn
<1>10. ListedPower(id, pages)' = SumFunction(F)
    BY DEF ListedPower
<1>11. \A i \in DOMAIN pages : F[i] = SumFunction(OnPage(g, pages[i]))
  <2> TAKE i \in DOMAIN pages
  <2>1. [a \in Address |-> IF Rank[a] \in pages[i] THEN ballots'[<<id, a>>].power ELSE 0]
          = OnPage(g, pages[i])
      BY <1>6 DEF OnPage, PowerIn, HasVoted
  <2> QED
      BY <2>1
<1>12. Cast(proposals[id].votes) = SumFunctionOnSet(f, V)
    BY CastIsSum
<1>13. Cast(proposals'[id].votes) = SumFunctionOnSet(g, W)
    BY CastIsSumNext DEF KeepsVotes, CastAdds, PowerIn, HasVoted
<1>14. DOMAIN F = DOMAIN pages
    OBVIOUS
<1> HIDE DEF f, g, F, S, V, W, keys, later, top
<1>15. SumFunction(F) = SumFunctionOnSet(g, S)
    BY <1>5, <1>8, <1>11, <1>14, PagesAdd DEF S
<1>16. SumFunctionOnSet(f, V) = SumFunctionOnSet(g, V)
  <2>1. IsFiniteSet(V)
      BY <1>1, <1>3, FS_Subset
  <2> QED
      BY <1>8, <2>1, SumOfSame
<1>17. SumFunctionOnSet(g, V) <= SumFunctionOnSet(g, S)
  <2>1. IsFiniteSet(S) /\ \A a \in S : g[a] \in Nat
      BY <1>1, <1>3, <1>7, <1>8, FS_Subset
  <2> QED
      BY <1>7, <2>1, SumOfPart
<1>18. SumFunctionOnSet(g, S) <= SumFunctionOnSet(g, W)
  <2>1. IsFiniteSet(W) /\ \A a \in W : g[a] \in Nat
      BY <1>1, <1>3, <1>8, FS_Subset
  <2> QED
      BY <1>7, <2>1, SumOfPart
<1> QED
    BY <1>10, <1>12, <1>13, <1>15, <1>16, <1>17, <1>18

(* A list of the votes adds up, however it is read by pages and whoever    *)
(* votes between two of them, as long as no power that was voted with is   *)
(* answered otherwise in the block of the proposal (contract.rs:326, 754). *)
THEOREM ListingsAddUp == Spec => ListedVotesAddUp
<1>1. CoreInv /\ CoreInv' /\ [Next]_vars
        => \A id \in Ids \ outdated, limit \in Limits :
             \A pages \in ReadingsUp(VotersOf(id), VotersOf(id)', limit, Cardinality(Address)) :
               /\ Cast(proposals[id].votes) <= ListedPower(id, pages)'
               /\ ListedPower(id, pages)' <= Cast(proposals'[id].votes)
    BY ListAddsUp, CoreKept
<1> QED
    BY <1>1, CoreHolds, PTL DEF Spec, ListedVotesAddUp
=============================================================================
