------------------------- MODULE ProposalLifecycle -------------------------
(***************************************************************************)
(* What klmd-custom-proposal promises of one proposal, said without        *)
(* voters, ballots, deposits, hooks or configuration: votes come in while  *)
(* the proposal is open, its threshold decides it, and once decided it is  *)
(* executed or closed, never both and never otherwise.                     *)
(*                                                                         *)
(* The total power is what the voting module said when the proposal was    *)
(* made; nothing keeps the votes from exceeding it, and then the tally may *)
(* panic, so that the proposal can be neither voted on nor settled.  What  *)
(* is said of decisions is said of votes within the total power.           *)
(***************************************************************************)
EXTENDS Tally

CONSTANTS
  Openings,     \* the proposals that can be made, with any status
  FirstTime,    \* the block height to begin with
  MaxTime       \* bound: the last block height

ASSUME LifecycleAssumption ==
  Openings \subseteq Tallied /\ FirstTime \in Nat /\ MaxTime \in Nat

VARIABLES
  now,      \* the block height
  prop      \* the proposal, or Absent

lcvars == <<now, prop>>

Absent == [status |-> "absent"]

LCTypeOK == now \in Nat /\ prop \in Tallied \cup {Absent}

LCInit == now = FirstTime /\ prop = Absent

\* The status is brought up to date at once: a proposal may expire in the
\* block that makes it, and nobody may have any voting power.
Create ==
  /\ prop = Absent
  /\ prop' \in Openings
  /\ prop'.votes = NoVotes
  /\ now <= prop'.expiration
  /\ prop'.min_voting_period <= prop'.expiration
  /\ prop'.status = CurrentStatus([prop' EXCEPT !.status = "open"], now)
  /\ UNCHANGED now

\* What the votes can become in one step: more of them or, when revoting is
\* allowed, others, and fewer if a voter has lost power meanwhile.
Revised(p) == {v \in Votes : Grown(p.votes, v) \/ p.allow_revoting}

\* The tally tells the status.
Decides(p, status) == StatusDefined(p, now) /\ CurrentStatus(p, now) = status

Voted ==
  /\ Decides(prop, "open")
  /\ \E v \in Revised(prop) :
       LET voted == [prop EXCEPT !.votes = v]
       IN  /\ StatusDefined(voted, now)
           /\ prop' = [voted EXCEPT !.status = CurrentStatus(voted, now)]
  /\ UNCHANGED now

Settle(decision, settled) ==
  /\ Decides(prop, decision)
  /\ prop' = [prop EXCEPT !.status = settled]
  /\ UNCHANGED now

Execute == Settle("passed", "executed")
Close == Settle("rejected", "closed")

Tick ==
  /\ now < MaxTime
  /\ now' = now + 1
  /\ UNCHANGED prop

LCNext == Create \/ Voted \/ Execute \/ Close \/ Tick

LCSpec == LCInit /\ [][LCNext]_lcvars

-----------------------------------------------------------------------------
Made == prop # Absent

\* There is a proposal, and no more is voted on it than its total power.
Sound == Made /\ Within(prop)

\* The percentages asked for are compared without rounding.
Exactly == Made => ExactThreshold(prop.threshold)

(* A proposal passes before it expires exactly when no further votes can   *)
(* make it fail, and from then on exactly when its threshold accepts the   *)
(* votes cast, as long as nothing is rounded (proposal.rs:123).            *)
PassedIsSure ==
  (/\ Sound /\ Exactly
   /\ ~Unsettled(prop, now) /\ Expired(prop.min_voting_period, now)) =>
    (IsPassed(prop, now) <=>
       IF Expired(prop.expiration, now)
       THEN Accepted(prop, prop.votes)
       ELSE SureToPass(prop))

(* A proposal is rejected before it expires exactly when no further votes  *)
(* can make it pass, whatever the percentage (proposal.rs:169).            *)
RejectedIsSure ==
  (Sound /\ ~Unsettled(prop, now) /\ ~Expired(prop.expiration, now)) =>
    (IsRejected(prop, now) <=> SureToFail(prop))

(* What is executed was accepted by its threshold, up to what rounding the *)
(* wanted amount forgives, and what is closed was not accepted, whatever   *)
(* was voted and whenever it was settled (contract.rs:262, 404; rounding:  *)
(* proposal.rs:64).                                                        *)
SettledRightly ==
  Sound => /\ prop.status = "executed" =>
                /\ NearlyAccepted(prop, prop.votes)
                /\ Exactly => Accepted(prop, prop.votes)
           /\ prop.status = "closed" => ~Accepted(prop, prop.votes)

(* The status that queries show is final once it is not open, also while   *)
(* nobody has stored it: neither later votes nor the passing of time       *)
(* change the outcome, as long as nothing is rounded (proposal.rs:93).     *)
After(status) ==
  CASE status = "passed"   -> {"passed", "executed"}
    [] status = "rejected" -> {"rejected", "closed"}
    [] status = "absent"   -> Status \cup {"absent"}
    [] status = "open"     -> Status
    [] OTHER               -> {status}

DecisionIsFinal ==
  [][(Exactly' /\ (Made' => Within(prop)'))
       => CurrentStatus(prop, now)' \in After(CurrentStatus(prop, now))]_lcvars
=============================================================================
