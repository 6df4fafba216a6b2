----------------------------- MODULE SetupProofs -----------------------------
(***************************************************************************)
(* For any messages, addresses and contracts that are there already: the   *)
(* instantiation of the voting module, with its submessages and replies,   *)
(* implements AtomicSetup, and what it leaves is in agreement.             *)
(*                                                                         *)
(* While the transaction runs, the invariant says how far it is: what is   *)
(* stored, what is still to run, and by which contracts the chain differs  *)
(* from the one before.  The rest follows when nothing is left to run.     *)
(***************************************************************************)
EXTENDS Setup, SequenceTheorems, TLAPS

Info == asked.msg.token_info
IsNew == Info.kind = "New"
NewStaking == IsNew \/ Info.staking.kind = "New"
NewVesting == IsNew \/ Info.vesting.kind = "New"

\* The messages that the transaction needs.
TheTokenMsg == TokenMsg(InitialSupply(Info))
TheStakingMsg ==
  StakingMsg(store.token, asked.dao,
             IF IsNew THEN Info.duration ELSE Info.staking.duration)
TheVestingMsg ==
  VestingMsg(store.token,
             OwnerOr(IF IsNew THEN Info.owner ELSE Info.vesting.owner, asked.dao))

\* The contract is made, but the module has not heard of it.
Due(id) == reply # Nobody /\ Head(pending).id = id
TokenAt == IF Due(0) THEN reply ELSE store.token
StakingAt == IF Due(1) THEN reply ELSE store.staking
VestingAt == IF Due(2) THEN reply ELSE store.vesting

TakenBefore ==
  DOMAIN before.tokens \cup DOMAIN before.stakings \cup DOMAIN before.vestings

Store ==
  [dao : Senders \cup {Nobody}, active_threshold : ActiveThreshold,
   token : Contract \cup {Nobody}, staking : Contract \cup {Nobody},
   vesting : Contract \cup {Nobody},
   duration : Duration, owner : Senders \cup {Nobody}]

-----------------------------------------------------------------------------
(* The parts of the invariant.                                             *)

\* What was asked for is stored, and passed the checks.
Started ==
  /\ asked \in AS!Request
  /\ store.dao = asked.dao
  /\ store.active_threshold = asked.msg.active_threshold
  /\ ValidPercentage(asked.msg.active_threshold, Unit)
  /\ IsNew => /\ Info.initial_balances > 0
              /\ store.duration = Info.duration
              /\ store.owner = OwnerOr(Info.owner, asked.dao)
  /\ store.token # Nobody => AS!Acceptable(asked.msg)

\* The addresses of contracts that are not new are stored from the start.
Linked ==
  /\ store.token = Nobody =>
       IsNew /\ store.staking = Nobody /\ store.vesting = Nobody
  /\ ~IsNew => store.token = Info.address
  /\ ~NewStaking => store.staking = Info.staking.address
  /\ ~NewVesting => store.vesting = Info.vesting.address

\* What is still to run is what has no address yet.
Waiting ==
  /\ store.token = Nobody => pending = <<TheTokenMsg>>
  /\ store.token # Nobody =>
       /\ store.staking = Nobody /\ store.vesting = Nobody =>
            pending = <<TheStakingMsg, TheVestingMsg>>
       /\ store.staking = Nobody /\ store.vesting # Nobody =>
            pending = <<TheStakingMsg>>
       /\ store.staking # Nobody /\ store.vesting = Nobody =>
            pending = <<TheVestingMsg>>
       /\ store.staking # Nobody /\ store.vesting # Nobody => pending = <<>>
  /\ reply # Nobody => pending # <<>>

\* The chain is the one before with the contracts made so far, at addresses
\* that nobody had.
OnChain ==
  /\ tokens = IF IsNew /\ TokenAt # Nobody
              THEN Put(before.tokens, TokenAt, InitialSupply(Info))
              ELSE before.tokens
  /\ stakings = IF NewStaking /\ StakingAt # Nobody
                THEN Put(before.stakings, StakingAt,
                         [token    |-> TheStakingMsg.token,
                          owner    |-> TheStakingMsg.owner,
                          duration |-> TheStakingMsg.duration])
                ELSE before.stakings
  /\ vestings = IF NewVesting /\ VestingAt # Nobody
                THEN Put(before.vestings, VestingAt,
                         [token |-> TheVestingMsg.token, owner |-> TheVestingMsg.owner])
                ELSE before.vestings

Fresh ==
  /\ IsNew /\ TokenAt # Nobody =>
       /\ TokenAt \notin TakenBefore
       /\ TokenAt \notin {StakingAt, VestingAt}
  /\ NewStaking /\ StakingAt # Nobody => StakingAt \notin TakenBefore
  /\ NewVesting /\ VestingAt # Nobody => VestingAt \notin TakenBefore
  /\ NewStaking /\ NewVesting /\ StakingAt # Nobody => StakingAt # VestingAt

Idle == store = EmptyStore /\ pending = <<>> /\ reply = Nobody

SInv ==
  /\ phase \in {"none", "running", "refused", "failed", "installed"}
  /\ store \in Store
  /\ reply \in Contract \cup {Nobody}
  /\ phase = "running" => Started /\ Linked /\ Waiting /\ OnChain /\ Fresh
  /\ phase \in {"none", "refused", "failed"} => Idle
  /\ ContractsAgree
  /\ ThresholdReachable
  /\ RefusedForReason

-----------------------------------------------------------------------------
LEMMA Pair == ASSUME NEW a, NEW b PROVE <<a>> \o <<b>> = <<a, b>>
<1> DEFINE S == {a, b}
           s == <<a>>
           t == <<b>>
           u == <<a, b>>
<1>1. s \in Seq(S) /\ t \in Seq(S) /\ u \in Seq(S)
    OBVIOUS
<1>2. Len(s) = 1 /\ Len(t) = 1 /\ s[1] = a /\ t[1] = b
    OBVIOUS
<1>3. Len(u) = 2 /\ u[1] = a /\ u[2] = b
    OBVIOUS
<1> HIDE DEF s, t, u, S
<1>4. /\ s \o t \in Seq(S) /\ Len(s \o t) = 2
      /\ \A i \in 1 .. 2 : (s \o t)[i] = IF i <= 1 THEN s[i] ELSE t[i - 1]
  <2>1. /\ s \o t \in Seq(S) /\ Len(s \o t) = Len(s) + Len(t)
        /\ \A i \in 1 .. Len(s) + Len(t) :
             (s \o t)[i] = IF i <= Len(s) THEN s[i] ELSE t[i - Len(s)]
      BY <1>1, ConcatProperties
  <2> QED
      BY <2>1, <1>2
<1>5. (s \o t)[1] = a /\ (s \o t)[2] = b
    BY <1>2, <1>4
<1>6. \A i \in 1 .. Len(s \o t) : (s \o t)[i] = u[i]
    BY <1>3, <1>4, <1>5
<1>7. s \o t = u
    BY <1>1, <1>3, <1>4, <1>6, SeqEqual
<1> QED
    BY <1>7 DEF s, t, u

\* What the messages of the transaction are made of.
LEMMA RequestFields ==
  ASSUME NEW a \in AS!Request
  PROVE  LET m == a.msg
             i == m.token_info
         IN  /\ a.dao \in Senders /\ m \in Messages
             /\ m.active_threshold \in ActiveThreshold
             /\ i.kind \in {"Existing", "New"}
             /\ i.kind = "Existing" =>
                  /\ i.address \in Contract
                  /\ i.staking.kind \in {"Existing", "New"}
                  /\ i.vesting.kind \in {"Existing", "New"}
                  /\ i.staking.kind = "Existing" => i.staking.address \in Contract
                  /\ i.vesting.kind = "Existing" => i.vesting.address \in Contract
             /\ i.kind = "New" =>
                  /\ i.initial_balances \in Nat
                  /\ i.initial_dao_balance \in Nat
                  /\ i.duration \in Duration
                  /\ i.owner \in Senders \cup {Nobody}
<1>1. a.dao \in Senders /\ a.msg \in Messages
    BY DEF AS!Request
<1>2. a.msg.active_threshold \in ActiveThreshold /\ a.msg.token_info \in TokenInfo
    BY <1>1, SetupAssumption DEF InstantiateMsg
<1> DEFINE i == a.msg.token_info
<1>3. CASE i \in [kind : {"Existing"}, address : Contract,
                  staking : StakingInfo, vesting : VestingInfo]
  <2>1. i.staking \in StakingInfo /\ i.vesting \in VestingInfo
      BY <1>3
  <2>2. /\ i.staking.kind \in {"Existing", "New"}
        /\ i.staking.kind = "Existing" => i.staking.address \in Contract
      BY <2>1 DEF StakingInfo
  <2>3. /\ i.vesting.kind \in {"Existing", "New"}
        /\ i.vesting.kind = "Existing" => i.vesting.address \in Contract
      BY <2>1 DEF VestingInfo
  <2> QED
      BY <1>1, <1>2, <1>3, <2>2, <2>3
<1>4. CASE i \in [kind : {"New"}, initial_balances : Nat, initial_dao_balance : Nat,
                  duration : Duration, owner : Senders \cup {Nobody}]
    BY <1>1, <1>2, <1>4
<1> QED
    BY <1>2, <1>3, <1>4 DEF TokenInfo

\* Only Commit changes what the abstract set-up sees of the chain.
Seen ==
  <<IF phase = "running" THEN before.tokens ELSE tokens,
    IF phase = "running" THEN before.stakings ELSE stakings,
    IF phase = "running" THEN before.vestings ELSE vestings>>

LEMMA AcceptableSame ==
  ASSUME UNCHANGED <<asked, Seen>>
  PROVE  AS!Acceptable(asked.msg)' <=> AS!Acceptable(asked.msg)
BY DEF Seen, AS!Acceptable, AS!OfToken

LEMMA StartInv == SUInit => SInv
<1> SUFFICES ASSUME SUInit
             PROVE  SInv
    OBVIOUS
<1>1. phase = "none" /\ reply = Nobody /\ pending = <<>> /\ store = EmptyStore
    BY DEF SUInit
<1>2. EmptyStore \in Store
    BY DEF EmptyStore, Store, ActiveThreshold, Duration
<1> QED
    BY <1>1, <1>2 DEF SInv, Idle, ContractsAgree, ThresholdReachable, RefusedForReason

-----------------------------------------------------------------------------
(* The steps.                                                              *)

\* The checks of instantiate say no more than the abstract ones.
LEMMA RefusedStep ==
  ASSUME SInv, NEW dao \in Senders, NEW m \in Messages,
         Instantiate(dao, m), ~Accepts(m)
  PROVE  SInv'
<1>1. /\ phase = "none" /\ phase' = "refused" /\ asked' = [dao |-> dao, msg |-> m]
      /\ UNCHANGED <<tokens, stakings, vestings, store, pending, reply>>
    BY DEF Instantiate, chain
<1>2. asked' \in AS!Request /\ asked'.msg = m
    BY <1>1 DEF AS!Request
<1>3. ~AS!Acceptable(asked.msg)'
  <2>1. m.token_info.kind = "New" => m.token_info.initial_balances \in Nat
      BY <1>2, RequestFields
  <2> QED
      BY <1>1, <1>2, <2>1
         DEF Accepts, AcceptsExisting, AS!Acceptable, AS!OfToken, AS!ValidCount,
             AS!ValidPercentage, ValidCount, ValidPercentage
<1>4. Idle'
    BY <1>1 DEF SInv, Idle
<1> QED
    BY <1>1, <1>3, <1>4 DEF SInv, ContractsAgree, ThresholdReachable, RefusedForReason

LEMMA ExistingStep ==
  ASSUME SInv, NEW dao \in Senders, NEW m \in Messages,
         Instantiate(dao, m), Accepts(m), m.token_info.kind = "Existing"
  PROVE  SInv'
<1> DEFINE i == m.token_info
           S == StakingMsg(i.address, dao, i.staking.duration)
           V == VestingMsg(i.address, OwnerOr(i.vesting.owner, dao))
<1>1. /\ phase = "none" /\ phase' = "running" /\ asked' = [dao |-> dao, msg |-> m]
      /\ before' = [tokens |-> tokens, stakings |-> stakings, vestings |-> vestings]
      /\ store' = StoreExisting(dao, i, m.active_threshold)
      /\ pending' = SubmessagesExisting(dao, i)
      /\ UNCHANGED <<tokens, stakings, vestings, reply>>
    BY DEF Instantiate, chain
<1>2. asked' \in AS!Request /\ asked'.msg = m /\ asked'.dao = dao
    BY <1>1 DEF AS!Request
<1>3. /\ m.active_threshold \in ActiveThreshold
      /\ i.kind = "Existing" /\ i.address \in Contract
      /\ i.staking.kind \in {"Existing", "New"} /\ i.vesting.kind \in {"Existing", "New"}
      /\ i.staking.kind = "Existing" => i.staking.address \in Contract
      /\ i.vesting.kind = "Existing" => i.vesting.address \in Contract
    BY <1>2, RequestFields
<1>4. Nobody \notin Contract
    BY SetupAssumption
<1>5. reply' = Nobody
    BY <1>1 DEF SInv, Idle
<1>6. /\ store'.dao = dao /\ store'.active_threshold = m.active_threshold
      /\ store'.token = i.address
      /\ store'.staking = IF i.staking.kind = "Existing" THEN i.staking.address ELSE Nobody
      /\ store'.vesting = IF i.vesting.kind = "Existing" THEN i.vesting.address ELSE Nobody
      /\ store'.duration = Nobody /\ store'.owner = Nobody
      /\ store' \in Store
    BY <1>1, <1>3 DEF StoreExisting, EmptyStore, Store, Duration
<1>7. AS!Acceptable(asked.msg)' /\ ValidPercentage(m.active_threshold, Unit)
    BY <1>1, <1>2, <1>3
       DEF Accepts, AcceptsExisting, AS!Acceptable, AS!OfToken, AS!ValidCount,
           AS!ValidPercentage, ValidCount, ValidPercentage
<1>8. Started'
    BY <1>2, <1>3, <1>6, <1>7 DEF Started, IsNew, Info
<1>9. Linked'
    BY <1>2, <1>3, <1>4, <1>6 DEF Linked, NewStaking, NewVesting, IsNew, Info
<1>10. Waiting'
  <2>1. TheStakingMsg' = S /\ TheVestingMsg' = V
      BY <1>2, <1>3, <1>6 DEF TheStakingMsg, TheVestingMsg, IsNew, Info
  <2>2. /\ store'.staking = Nobody <=> i.staking.kind = "New"
        /\ store'.vesting = Nobody <=> i.vesting.kind = "New"
        /\ store'.token # Nobody
      BY <1>3, <1>4, <1>6
  <2>3. pending' = (IF i.staking.kind = "New" THEN <<S>> ELSE <<>>)
                     \o (IF i.vesting.kind = "New" THEN <<V>> ELSE <<>>)
      BY <1>1 DEF SubmessagesExisting
  <2> HIDE DEF S, V
  <2>4. <<S>> \o <<V>> = <<S, V>>
      BY Pair
  <2>5. <<S>> \o <<>> = <<S>> /\ <<>> \o <<V>> = <<V>> /\ <<>> \o <<>> = <<>>
      OBVIOUS
  <2> QED
      BY <1>5, <2>1, <2>2, <2>3, <2>4, <2>5 DEF Waiting
<1>11. OnChain' /\ Fresh'
  <2>1. /\ ~IsNew'
        /\ NewStaking' <=> i.staking.kind = "New"
        /\ NewVesting' <=> i.vesting.kind = "New"
      BY <1>2, <1>3 DEF IsNew, NewStaking, NewVesting, Info
  <2>2. StakingAt' = store'.staking /\ VestingAt' = store'.vesting
      BY <1>5 DEF StakingAt, VestingAt, Due
  <2>3. /\ NewStaking' => StakingAt' = Nobody
        /\ NewVesting' => VestingAt' = Nobody
      BY <1>6, <2>1, <2>2
  <2>4. before'.tokens = tokens' /\ before'.stakings = stakings' /\ before'.vestings = vestings'
      BY <1>1
  <2>5. OnChain'
      BY <2>1, <2>3, <2>4 DEF OnChain
  <2>6. Fresh'
      BY <2>1, <2>3 DEF Fresh
  <2> QED
      BY <2>5, <2>6
<1> QED
    BY <1>1, <1>5, <1>6, <1>8, <1>9, <1>10, <1>11
       DEF SInv, ContractsAgree, ThresholdReachable, RefusedForReason

LEMMA NewStep ==
  ASSUME SInv, NEW dao \in Senders, NEW m \in Messages,
         Instantiate(dao, m), Accepts(m), m.token_info.kind = "New"
  PROVE  SInv'
<1> DEFINE i == m.token_info
<1>1. /\ phase = "none" /\ phase' = "running" /\ asked' = [dao |-> dao, msg |-> m]
      /\ before' = [tokens |-> tokens, stakings |-> stakings, vestings |-> vestings]
      /\ store' = StoreNew(dao, i, m.active_threshold)
      /\ pending' = <<TokenMsg(InitialSupply(i))>>
      /\ UNCHANGED <<tokens, stakings, vestings, reply>>
    BY DEF Instantiate, chain
<1>2. asked' \in AS!Request /\ asked'.msg = m /\ asked'.dao = dao
    BY <1>1 DEF AS!Request
<1>3. /\ m.active_threshold \in ActiveThreshold
      /\ i.initial_balances \in Nat /\ i.duration \in Duration
      /\ i.owner \in Senders \cup {Nobody}
    BY <1>2, RequestFields
<1>4. reply' = Nobody
    BY <1>1 DEF SInv, Idle
<1>5. /\ store'.dao = dao /\ store'.active_threshold = m.active_threshold
      /\ store'.token = Nobody /\ store'.staking = Nobody /\ store'.vesting = Nobody
      /\ store'.duration = i.duration /\ store'.owner = OwnerOr(i.owner, dao)
      /\ store' \in Store
  <2>1. OwnerOr(i.owner, dao) \in Senders \cup {Nobody}
      BY <1>3 DEF OwnerOr
  <2> QED
      BY <1>1, <1>3, <2>1 DEF StoreNew, EmptyStore, Store
<1>6. ValidPercentage(m.active_threshold, Unit) /\ i.initial_balances > 0
    BY <1>3 DEF Accepts
<1>7. Started'
    BY <1>2, <1>5, <1>6 DEF Started, IsNew, Info
<1>8. Linked'
    BY <1>2, <1>5 DEF Linked, NewStaking, NewVesting, IsNew, Info
<1>9. Waiting'
    BY <1>1, <1>2, <1>4, <1>5 DEF Waiting, TheTokenMsg, Info
<1>10. OnChain' /\ Fresh'
  <2>1. TokenAt' = Nobody /\ StakingAt' = Nobody /\ VestingAt' = Nobody
      BY <1>4, <1>5 DEF TokenAt, StakingAt, VestingAt, Due
  <2>2. before'.tokens = tokens' /\ before'.stakings = stakings' /\ before'.vestings = vestings'
      BY <1>1
  <2>3. OnChain'
      BY <2>1, <2>2 DEF OnChain
  <2>4. Fresh'
      BY <2>1 DEF Fresh
  <2> QED
      BY <2>3, <2>4
<1> QED
    BY <1>1, <1>4, <1>5, <1>7, <1>8, <1>9, <1>10
       DEF SInv, ContractsAgree, ThresholdReachable, RefusedForReason

\* The first of what is still to run tells how far the transaction is.
LEMMA NextToRun ==
  ASSUME SInv, phase = "running", pending # <<>>
  PROVE  /\ Head(pending).id \in {0, 1, 2}
         /\ Head(pending).id = 0 =>
              /\ store.token = Nobody /\ store.staking = Nobody
              /\ store.vesting = Nobody /\ IsNew
              /\ Head(pending) = TheTokenMsg /\ Tail(pending) = <<>>
         /\ Head(pending).id = 1 =>
              /\ store.token # Nobody /\ store.staking = Nobody /\ NewStaking
              /\ Head(pending) = TheStakingMsg
              /\ store.vesting = Nobody => Tail(pending) = <<TheVestingMsg>>
              /\ store.vesting # Nobody => Tail(pending) = <<>>
         /\ Head(pending).id = 2 =>
              /\ store.token # Nobody /\ store.staking # Nobody
              /\ store.vesting = Nobody /\ NewVesting
              /\ Head(pending) = TheVestingMsg /\ Tail(pending) = <<>>
<1>1. Started /\ Linked /\ Waiting
    BY DEF SInv
<1>2. TheTokenMsg.id = 0 /\ TheStakingMsg.id = 1 /\ TheVestingMsg.id = 2
    BY DEF TheTokenMsg, TokenMsg, INSTANTIATE_TOKEN_REPLY_ID,
           TheStakingMsg, StakingMsg, INSTANTIATE_STAKING_REPLY_ID,
           TheVestingMsg, VestingMsg, INSTANTIATE_VESTING_REPLY_ID
<1>3. ~NewStaking => store.staking # Nobody
  <2>1. asked \in AS!Request
      BY <1>1 DEF Started
  <2>2. ~NewStaking => Info.staking.address \in Contract
      BY <2>1, RequestFields DEF NewStaking, IsNew, Info
  <2> QED
      BY <1>1, <2>2, SetupAssumption DEF Linked
<1>4. ~NewVesting => store.vesting # Nobody
  <2>1. asked \in AS!Request
      BY <1>1 DEF Started
  <2>2. ~NewVesting => Info.vesting.address \in Contract
      BY <2>1, RequestFields DEF NewVesting, IsNew, Info
  <2> QED
      BY <1>1, <2>2, SetupAssumption DEF Linked
<1>5. CASE store.token = Nobody
  <2>1. pending = <<TheTokenMsg>> /\ store.staking = Nobody /\ store.vesting = Nobody /\ IsNew
      BY <1>1, <1>5 DEF Waiting, Linked
  <2>2. Head(pending) = TheTokenMsg /\ Tail(pending) = <<>>
    <3> HIDE DEF TheTokenMsg
    <3> QED
        BY <2>1
  <2> QED
      BY <1>2, <1>5, <2>1, <2>2
<1>6. CASE store.token # Nobody /\ store.staking = Nobody
  <2>1. /\ Head(pending) = TheStakingMsg
        /\ store.vesting = Nobody => Tail(pending) = <<TheVestingMsg>>
        /\ store.vesting # Nobody => Tail(pending) = <<>>
    <3> HIDE DEF TheStakingMsg, TheVestingMsg
    <3>1. CASE store.vesting = Nobody
      <4>1. pending = <<TheStakingMsg, TheVestingMsg>>
          BY <1>1, <1>6, <3>1 DEF Waiting
      <4> QED
          BY <3>1, <4>1
    <3>2. CASE store.vesting # Nobody
      <4>1. pending = <<TheStakingMsg>>
          BY <1>1, <1>6, <3>2 DEF Waiting
      <4> QED
          BY <3>2, <4>1
    <3> QED
        BY <3>1, <3>2
  <2> QED
      BY <1>2, <1>3, <1>6, <2>1
<1>7. CASE store.token # Nobody /\ store.staking # Nobody
  <2>1. store.vesting = Nobody /\ pending = <<TheVestingMsg>>
      BY <1>1, <1>7 DEF Waiting
  <2>2. Head(pending) = TheVestingMsg /\ Tail(pending) = <<>>
    <3> HIDE DEF TheVestingMsg
    <3> QED
        BY <2>1
  <2> QED
      BY <1>2, <1>4, <1>7, <2>1, <2>2
<1> QED
    BY <1>5, <1>6, <1>7

\* Addresses that were taken stay so, and those of new contracts are taken.
LEMMA TakenStays ==
  ASSUME SInv, phase = "running"
  PROVE  /\ TakenBefore \subseteq Taken
         /\ IsNew /\ TokenAt # Nobody => TokenAt \in Taken
         /\ NewStaking /\ StakingAt # Nobody => StakingAt \in Taken
         /\ NewVesting /\ VestingAt # Nobody => VestingAt \in Taken
<1>1. OnChain
    BY DEF SInv
<1>2. /\ DOMAIN before.tokens \subseteq DOMAIN tokens
      /\ IsNew /\ TokenAt # Nobody => TokenAt \in DOMAIN tokens
    BY <1>1 DEF OnChain, Put
<1>3. /\ DOMAIN before.stakings \subseteq DOMAIN stakings
      /\ NewStaking /\ StakingAt # Nobody => StakingAt \in DOMAIN stakings
    BY <1>1 DEF OnChain, Put
<1>4. /\ DOMAIN before.vestings \subseteq DOMAIN vestings
      /\ NewVesting /\ VestingAt # Nobody => VestingAt \in DOMAIN vestings
    BY <1>1 DEF OnChain, Put
<1> QED
    BY <1>2, <1>3, <1>4 DEF TakenBefore, Taken

LEMMA RunStep ==
  ASSUME SInv, NEW c \in Contract, RunSubmessage(c)
  PROVE  SInv'
<1>1. /\ phase = "running" /\ phase' = "running" /\ pending # <<>>
      /\ reply = Nobody /\ reply' = c /\ c \notin Taken /\ c # Nobody
      /\ UNCHANGED <<asked, before, store, pending>>
    BY SetupAssumption DEF RunSubmessage
<1>2. Started /\ Linked /\ Waiting /\ OnChain /\ Fresh
    BY <1>1 DEF SInv
<1>3. TokenAt = store.token /\ StakingAt = store.staking /\ VestingAt = store.vesting
    BY <1>1 DEF TokenAt, StakingAt, VestingAt, Due
<1>4. /\ TokenAt' = IF Head(pending).id = 0 THEN c ELSE store.token
      /\ StakingAt' = IF Head(pending).id = 1 THEN c ELSE store.staking
      /\ VestingAt' = IF Head(pending).id = 2 THEN c ELSE store.vesting
    BY <1>1 DEF TokenAt, StakingAt, VestingAt, Due
<1>5. /\ IsNew' = IsNew /\ NewStaking' = NewStaking /\ NewVesting' = NewVesting
      /\ Info' = Info /\ TakenBefore' = TakenBefore
      /\ TheTokenMsg' = TheTokenMsg /\ TheStakingMsg' = TheStakingMsg
      /\ TheVestingMsg' = TheVestingMsg
    BY <1>1 DEF IsNew, NewStaking, NewVesting, Info, TakenBefore,
                TheTokenMsg, TheStakingMsg, TheVestingMsg
<1>6. Started'
  <2>1. AS!Acceptable(asked.msg)' <=> AS!Acceptable(asked.msg)
      BY <1>1, AcceptableSame DEF Seen
  <2> QED
      BY <1>1, <1>2, <1>5, <2>1 DEF Started
<1>7. Linked' /\ Waiting'
    BY <1>1, <1>2, <1>5 DEF Linked, Waiting
<1>8. /\ c \notin TakenBefore
      /\ IsNew => c # store.token
      /\ NewStaking => c # store.staking
      /\ NewVesting => c # store.vesting
    BY <1>1, <1>3, TakenStays
<1>9. OnChain' /\ Fresh'
  <2>1. CASE Head(pending).id = 0
    <3>1. /\ store.token = Nobody /\ store.staking = Nobody /\ store.vesting = Nobody
          /\ IsNew /\ Head(pending) = TheTokenMsg
        BY <1>1, <2>1, NextToRun
    <3>2. TokenAt' = c /\ StakingAt' = Nobody /\ VestingAt' = Nobody
        BY <1>4, <2>1, <3>1
    <3>3. /\ tokens' = Put(tokens, c, InitialSupply(Info))
          /\ UNCHANGED <<stakings, vestings>>
      <4>1. /\ tokens' = Put(tokens, c, Head(pending).supply)
            /\ UNCHANGED <<stakings, vestings>>
          BY <2>1 DEF RunSubmessage, INSTANTIATE_TOKEN_REPLY_ID,
                      INSTANTIATE_STAKING_REPLY_ID, INSTANTIATE_VESTING_REPLY_ID
      <4>2. TheTokenMsg.supply = InitialSupply(Info)
          BY DEF TheTokenMsg, TokenMsg
      <4> QED
          BY <3>1, <4>1, <4>2
    <3>4. OnChain'
        BY <1>1, <1>2, <1>3, <1>5, <3>1, <3>2, <3>3 DEF OnChain
    <3>5. Fresh'
        BY <1>1, <1>5, <1>8, <3>2 DEF Fresh
    <3> QED
        BY <3>4, <3>5
  <2>2. CASE Head(pending).id = 1
    <3>1. /\ store.token # Nobody /\ store.staking = Nobody /\ NewStaking
          /\ Head(pending) = TheStakingMsg
        BY <1>1, <2>2, NextToRun
    <3>2. TokenAt' = TokenAt /\ StakingAt' = c /\ VestingAt' = VestingAt
        BY <1>3, <1>4, <2>2
    <3>3. /\ stakings' = Put(stakings, c,
                             [token    |-> TheStakingMsg.token,
                              owner    |-> TheStakingMsg.owner,
                              duration |-> TheStakingMsg.duration])
          /\ UNCHANGED <<tokens, vestings>>
      <4>1. /\ stakings' = Put(stakings, c,
                               [token    |-> Head(pending).token,
                                owner    |-> Head(pending).owner,
                                duration |-> Head(pending).duration])
            /\ UNCHANGED <<tokens, vestings>>
          BY <2>2 DEF RunSubmessage, INSTANTIATE_TOKEN_REPLY_ID,
                      INSTANTIATE_STAKING_REPLY_ID, INSTANTIATE_VESTING_REPLY_ID
      <4> QED
          BY <3>1, <4>1
    <3>4. OnChain'
        BY <1>1, <1>2, <1>3, <1>5, <3>1, <3>2, <3>3 DEF OnChain
    <3>5. Fresh'
        BY <1>1, <1>2, <1>3, <1>5, <1>8, <3>2 DEF Fresh
    <3> QED
        BY <3>4, <3>5
  <2>3. CASE Head(pending).id = 2
    <3>1. /\ store.token # Nobody /\ store.vesting = Nobody /\ NewVesting
          /\ Head(pending) = TheVestingMsg
        BY <1>1, <2>3, NextToRun
    <3>2. TokenAt' = TokenAt /\ StakingAt' = StakingAt /\ VestingAt' = c
        BY <1>3, <1>4, <2>3
    <3>3. /\ vestings' = Put(vestings, c,
                             [token |-> TheVestingMsg.token,
                              owner |-> TheVestingMsg.owner])
          /\ UNCHANGED <<tokens, stakings>>
      <4>1. /\ vestings' = Put(vestings, c,
                               [token |-> Head(pending).token,
                                owner |-> Head(pending).owner])
            /\ UNCHANGED <<tokens, stakings>>
          BY <2>3 DEF RunSubmessage, INSTANTIATE_TOKEN_REPLY_ID,
                      INSTANTIATE_STAKING_REPLY_ID, INSTANTIATE_VESTING_REPLY_ID
      <4> QED
          BY <3>1, <4>1
    <3>4. OnChain'
        BY <1>1, <1>2, <1>3, <1>5, <3>1, <3>2, <3>3 DEF OnChain
    <3>5. Fresh'
        BY <1>1, <1>2, <1>3, <1>5, <1>8, <3>2 DEF Fresh
    <3> QED
        BY <3>4, <3>5
  <2> QED
      BY <1>1, <2>1, <2>2, <2>3, NextToRun
<1> QED
    BY <1>1, <1>6, <1>7, <1>9
       DEF SInv, ContractsAgree, ThresholdReachable, RefusedForReason

\* A transaction that is rolled back leaves nothing, and was refused only for
\* a reason.
LEMMA RollBackStep ==
  ASSUME SInv, phase = "running", NEW outcome \in {"refused", "failed"},
         RollBack(outcome),
         outcome = "refused" => ~AS!Acceptable(asked.msg)
  PROVE  SInv'
<1>1. /\ phase' = outcome /\ tokens' = before.tokens
      /\ stakings' = before.stakings /\ vestings' = before.vestings
      /\ store' = EmptyStore /\ pending' = <<>> /\ reply' = Nobody
      /\ UNCHANGED <<asked, before>>
    BY DEF RollBack
<1>2. EmptyStore \in Store
    BY DEF EmptyStore, Store, ActiveThreshold, Duration
<1>3. AS!Acceptable(asked.msg)' <=> AS!Acceptable(asked.msg)
    BY <1>1, AcceptableSame DEF Seen
<1> QED
    BY <1>1, <1>2, <1>3
       DEF SInv, Idle, ContractsAgree, ThresholdReachable, RefusedForReason

\* A reply comes when its submessage has run.
LEMMA AReply ==
  ASSUME SInv, NEW id \in {0, 1, 2}, ReplyDue(id)
  PROVE  /\ phase = "running" /\ reply \in Contract /\ reply # Nobody
         /\ pending # <<>> /\ Head(pending).id = id /\ Due(id)
         /\ Started /\ Linked /\ Waiting /\ OnChain /\ Fresh
BY DEF ReplyDue, SInv, Due, Waiting

LEMMA TokenStep ==
  ASSUME SInv, ReplyToken
  PROVE  SInv'
<1>1. ReplyDue(0)
    BY DEF ReplyToken, INSTANTIATE_TOKEN_REPLY_ID
<1>2. /\ phase = "running" /\ reply \in Contract /\ reply # Nobody
      /\ pending # <<>> /\ Head(pending).id = 0
      /\ Started /\ Linked /\ Waiting /\ OnChain /\ Fresh
    BY <1>1, AReply
<1>3. /\ store.token = Nobody /\ store.staking = Nobody /\ store.vesting = Nobody
      /\ IsNew /\ Tail(pending) = <<>>
    BY <1>2, NextToRun
<1>4. TokenAt = reply /\ StakingAt = Nobody /\ VestingAt = Nobody
    BY <1>2, <1>3 DEF TokenAt, StakingAt, VestingAt, Due
<1>5. tokens[reply] = InitialSupply(Info)
    BY <1>2, <1>3, <1>4 DEF OnChain, Put
<1>6. asked \in AS!Request
    BY <1>2 DEF Started
<1>7. ValidCount(store.active_threshold, tokens[reply])
        <=> AS!Acceptable(asked.msg)
  <2>1. Info.kind = "New" /\ Info.initial_balances > 0
      BY <1>2, <1>3 DEF Started, IsNew
  <2>2. AS!Acceptable(asked.msg)
          <=> AS!ValidCount(asked.msg.active_threshold,
                            Info.initial_balances + Info.initial_dao_balance)
      BY <1>2, <2>1
         DEF Started, AS!Acceptable, AS!ValidPercentage, ValidPercentage, Info
  <2> QED
      BY <1>2, <1>5, <2>2 DEF Started, AS!ValidCount, ValidCount, InitialSupply
<1>8. CASE ValidCount(store.active_threshold, tokens[reply])
  <2>1. /\ store' = [store EXCEPT !.token = reply]
        /\ pending' = <<StakingMsg(reply, store.dao, store.duration),
                       VestingMsg(reply, OwnerOr(store.owner, store.dao))>>
                        \o Tail(pending)
        /\ reply' = Nobody
        /\ UNCHANGED <<phase, asked, before, tokens, stakings, vestings>>
      BY <1>3, <1>8 DEF ReplyToken, Answered, chain
  <2>2. /\ store' \in Store /\ store'.token = reply
        /\ store'.dao = store.dao /\ store'.active_threshold = store.active_threshold
        /\ store'.staking = Nobody /\ store'.vesting = Nobody
        /\ store'.duration = store.duration /\ store'.owner = store.owner
      BY <1>2, <1>3, <2>1 DEF SInv, Store
  <2>3. Info' = Info /\ IsNew' = IsNew /\ NewStaking' /\ NewVesting'
      BY <1>3, <2>1 DEF Info, IsNew, NewStaking, NewVesting
  <2>4. Started'
    <3>1. AS!Acceptable(asked.msg)'
        BY <1>7, <1>8, <2>1, AcceptableSame DEF Seen
    <3> QED
        BY <1>2, <2>1, <2>2, <2>3, <3>1 DEF Started
  <2>5. Linked'
      BY <1>2, <1>3, <2>2, <2>3 DEF Linked
  <2>6. Waiting'
    <3>1. /\ TheStakingMsg' = StakingMsg(reply, store.dao, store.duration)
          /\ TheVestingMsg' = VestingMsg(reply, OwnerOr(store.owner, store.dao))
        BY <1>2, <1>3, <2>1, <2>2, <2>3
           DEF Started, TheStakingMsg, TheVestingMsg, OwnerOr
    <3>2. pending' = <<TheStakingMsg', TheVestingMsg'>>
      <4>1. pending' = <<TheStakingMsg', TheVestingMsg'>> \o <<>>
          BY <1>3, <2>1, <3>1
      <4> HIDE DEF TheStakingMsg, TheVestingMsg
      <4> QED
          BY <4>1
    <3> QED
        BY <1>2, <2>1, <2>2, <3>2 DEF Waiting
  <2>7. TokenAt' = reply /\ StakingAt' = Nobody /\ VestingAt' = Nobody
      BY <2>1, <2>2 DEF TokenAt, StakingAt, VestingAt, Due
  <2>8. OnChain' /\ Fresh'
    <3>1. OnChain'
        BY <1>2, <1>3, <1>4, <2>1, <2>3, <2>7 DEF OnChain
    <3>2. TakenBefore' = TakenBefore
        BY <2>1 DEF TakenBefore
    <3>3. Fresh'
        BY <1>2, <1>3, <1>4, <2>3, <2>7, <3>2 DEF Fresh
    <3> QED
        BY <3>1, <3>3
  <2> QED
      BY <1>2, <2>1, <2>2, <2>4, <2>5, <2>6, <2>8
         DEF SInv, ContractsAgree, ThresholdReachable, RefusedForReason
<1>9. CASE ~ValidCount(store.active_threshold, tokens[reply])
  <2>1. RollBack("refused")
      BY <1>9 DEF ReplyToken
  <2> QED
      BY <1>2, <1>7, <1>9, <2>1, RollBackStep
<1> QED
    BY <1>8, <1>9

LEMMA StakingStep ==
  ASSUME SInv, ReplyStaking
  PROVE  SInv'
<1>1. ReplyDue(1)
    BY DEF ReplyStaking, INSTANTIATE_STAKING_REPLY_ID
<1>2. /\ phase = "running" /\ reply \in Contract /\ reply # Nobody
      /\ pending # <<>> /\ Head(pending).id = 1
      /\ Started /\ Linked /\ Waiting /\ OnChain /\ Fresh
    BY <1>1, AReply
<1>3. /\ store.token # Nobody /\ store.staking = Nobody /\ NewStaking
      /\ store.vesting = Nobody => Tail(pending) = <<TheVestingMsg>>
      /\ store.vesting # Nobody => Tail(pending) = <<>>
    BY <1>2, NextToRun
<1>4. TokenAt = store.token /\ StakingAt = reply /\ VestingAt = store.vesting
    BY <1>2 DEF TokenAt, StakingAt, VestingAt, Due
<1>5. /\ store' = [store EXCEPT !.staking = reply]
      /\ pending' = <<>> \o Tail(pending)
      /\ reply' = Nobody
      /\ UNCHANGED <<phase, asked, before, tokens, stakings, vestings>>
    BY <1>3 DEF ReplyStaking, Answered, chain
<1>6. /\ store' \in Store /\ store'.staking = reply
      /\ store'.dao = store.dao /\ store'.active_threshold = store.active_threshold
      /\ store'.token = store.token /\ store'.vesting = store.vesting
      /\ store'.duration = store.duration /\ store'.owner = store.owner
    BY <1>2, <1>5 DEF SInv, Store
<1>7. /\ Info' = Info /\ IsNew' = IsNew
      /\ NewStaking' = NewStaking /\ NewVesting' = NewVesting
      /\ TheStakingMsg' = TheStakingMsg /\ TheVestingMsg' = TheVestingMsg
      /\ TakenBefore' = TakenBefore
    BY <1>5, <1>6 DEF Info, IsNew, NewStaking, NewVesting, TheStakingMsg,
                      TheVestingMsg, TakenBefore
<1>8. Started'
  <2>1. AS!Acceptable(asked.msg)' <=> AS!Acceptable(asked.msg)
      BY <1>5, AcceptableSame DEF Seen
  <2> QED
      BY <1>2, <1>5, <1>6, <1>7, <2>1 DEF Started
<1>9. Linked'
    BY <1>2, <1>3, <1>6, <1>7 DEF Linked
<1>10. Waiting'
  <2> HIDE DEF TheStakingMsg, TheVestingMsg, TheTokenMsg
  <2>1. store.vesting = Nobody => pending' = <<TheVestingMsg>>
    <3>1. <<>> \o <<TheVestingMsg>> = <<TheVestingMsg>>
        OBVIOUS
    <3> QED
        BY <1>3, <1>5, <3>1
  <2>2. store.vesting # Nobody => pending' = <<>>
    <3>1. <<>> \o <<>> = <<>>
        OBVIOUS
    <3> QED
        BY <1>3, <1>5, <3>1
  <2> QED
      BY <1>2, <1>3, <1>5, <1>6, <1>7, <2>1, <2>2 DEF Waiting
<1>11. TokenAt' = TokenAt /\ StakingAt' = StakingAt /\ VestingAt' = VestingAt
    BY <1>4, <1>5, <1>6 DEF TokenAt, StakingAt, VestingAt, Due
<1>12. OnChain' /\ Fresh'
    BY <1>2, <1>5, <1>7, <1>11 DEF OnChain, Fresh
<1> QED
    BY <1>2, <1>5, <1>6, <1>8, <1>9, <1>10, <1>12
       DEF SInv, ContractsAgree, ThresholdReachable, RefusedForReason

LEMMA VestingStep ==
  ASSUME SInv, ReplyVesting
  PROVE  SInv'
<1>1. ReplyDue(2)
    BY DEF ReplyVesting, INSTANTIATE_VESTING_REPLY_ID
<1>2. /\ phase = "running" /\ reply \in Contract /\ reply # Nobody
      /\ pending # <<>> /\ Head(pending).id = 2
      /\ Started /\ Linked /\ Waiting /\ OnChain /\ Fresh
    BY <1>1, AReply
<1>3. /\ store.token # Nobody /\ store.staking # Nobody
      /\ store.vesting = Nobody /\ NewVesting /\ Tail(pending) = <<>>
    BY <1>2, NextToRun
<1>4. TokenAt = store.token /\ StakingAt = store.staking /\ VestingAt = reply
    BY <1>2 DEF TokenAt, StakingAt, VestingAt, Due
<1>5. /\ store' = [store EXCEPT !.vesting = reply]
      /\ pending' = <<>> \o Tail(pending)
      /\ reply' = Nobody
      /\ UNCHANGED <<phase, asked, before, tokens, stakings, vestings>>
    BY <1>3 DEF ReplyVesting, Answered, chain
<1>6. /\ store' \in Store /\ store'.vesting = reply
      /\ store'.dao = store.dao /\ store'.active_threshold = store.active_threshold
      /\ store'.token = store.token /\ store'.staking = store.staking
      /\ store'.duration = store.duration /\ store'.owner = store.owner
    BY <1>2, <1>5 DEF SInv, Store
<1>7. /\ Info' = Info /\ IsNew' = IsNew
      /\ NewStaking' = NewStaking /\ NewVesting' = NewVesting
      /\ TheStakingMsg' = TheStakingMsg /\ TheVestingMsg' = TheVestingMsg
      /\ TakenBefore' = TakenBefore
    BY <1>5, <1>6 DEF Info, IsNew, NewStaking, NewVesting, TheStakingMsg,
                      TheVestingMsg, TakenBefore
<1>8. Started'
  <2>1. AS!Acceptable(asked.msg)' <=> AS!Acceptable(asked.msg)
      BY <1>5, AcceptableSame DEF Seen
  <2> QED
      BY <1>2, <1>5, <1>6, <1>7, <2>1 DEF Started
<1>9. Linked'
    BY <1>2, <1>3, <1>6, <1>7 DEF Linked
<1>10. Waiting'
  <2>1. pending' = <<>>
    <3>1. <<>> \o <<>> = <<>>
        OBVIOUS
    <3> QED
        BY <1>3, <1>5, <3>1
  <2> QED
      BY <1>2, <1>3, <1>5, <1>6, <2>1 DEF Waiting
<1>11. TokenAt' = TokenAt /\ StakingAt' = StakingAt /\ VestingAt' = VestingAt
    BY <1>4, <1>5, <1>6 DEF TokenAt, StakingAt, VestingAt, Due
<1>12. OnChain' /\ Fresh'
    BY <1>2, <1>5, <1>7, <1>11 DEF OnChain, Fresh
<1> QED
    BY <1>2, <1>5, <1>6, <1>8, <1>9, <1>10, <1>12
       DEF SInv, ContractsAgree, ThresholdReachable, RefusedForReason

\* When nothing is left to run, the module has its three contracts, each one
\* that was there and is of the token, or one that is new and made for it.
LEMMA Finished ==
  ASSUME SInv, phase = "running", pending = <<>>
  PROVE  /\ Started /\ Linked /\ Fresh /\ AS!Acceptable(asked.msg)
         /\ store.token \in Contract /\ store.staking \in Contract
         /\ store.vesting \in Contract
         /\ TokenAt = store.token /\ StakingAt = store.staking
         /\ VestingAt = store.vesting
         /\ tokens = IF IsNew
                     THEN Put(before.tokens, store.token, InitialSupply(Info))
                     ELSE before.tokens
         /\ stakings = IF NewStaking
                       THEN Put(before.stakings, store.staking,
                                [token    |-> store.token,
                                 owner    |-> asked.dao,
                                 duration |-> IF IsNew THEN Info.duration
                                              ELSE Info.staking.duration])
                       ELSE before.stakings
         /\ vestings = IF NewVesting
                       THEN Put(before.vestings, store.vesting,
                                [token |-> store.token,
                                 owner |-> OwnerOr(IF IsNew THEN Info.owner
                                                   ELSE Info.vesting.owner,
                                                   asked.dao)])
                       ELSE before.vestings
<1>1. Started /\ Linked /\ Waiting /\ OnChain /\ Fresh /\ store \in Store
    BY DEF SInv
<1>2. reply = Nobody
    BY <1>1 DEF Waiting
<1>3. store.token # Nobody /\ store.staking # Nobody /\ store.vesting # Nobody
  <2> HIDE DEF TheTokenMsg, TheStakingMsg, TheVestingMsg
  <2>1. /\ <<TheTokenMsg>> # <<>> /\ <<TheStakingMsg>> # <<>>
        /\ <<TheVestingMsg>> # <<>> /\ <<TheStakingMsg, TheVestingMsg>> # <<>>
      OBVIOUS
  <2>2. store.token # Nobody
      BY <1>1, <2>1 DEF Waiting
  <2> QED
      BY <1>1, <2>1, <2>2 DEF Waiting
<1>4. TokenAt = store.token /\ StakingAt = store.staking /\ VestingAt = store.vesting
    BY <1>2 DEF TokenAt, StakingAt, VestingAt, Due
<1>5. store.token \in Contract /\ store.staking \in Contract /\ store.vesting \in Contract
    BY <1>1, <1>3 DEF Store
<1>6. AS!Acceptable(asked.msg)
    BY <1>1, <1>3 DEF Started
<1>7. /\ TheStakingMsg.token = store.token /\ TheStakingMsg.owner = asked.dao
      /\ TheStakingMsg.duration = IF IsNew THEN Info.duration ELSE Info.staking.duration
      /\ TheVestingMsg.token = store.token
      /\ TheVestingMsg.owner = OwnerOr(IF IsNew THEN Info.owner
                                       ELSE Info.vesting.owner, asked.dao)
    BY DEF TheStakingMsg, StakingMsg, TheVestingMsg, VestingMsg
<1>8. tokens = IF IsNew THEN Put(before.tokens, store.token, InitialSupply(Info))
               ELSE before.tokens
    BY <1>1, <1>3, <1>4 DEF OnChain
<1>9. stakings = IF NewStaking
                 THEN Put(before.stakings, store.staking,
                          [token    |-> TheStakingMsg.token,
                           owner    |-> TheStakingMsg.owner,
                           duration |-> TheStakingMsg.duration])
                 ELSE before.stakings
    BY <1>1, <1>3, <1>4 DEF OnChain
<1>10. vestings = IF NewVesting
                  THEN Put(before.vestings, store.vesting,
                           [token |-> TheVestingMsg.token,
                            owner |-> TheVestingMsg.owner])
                  ELSE before.vestings
    BY <1>1, <1>3, <1>4 DEF OnChain
<1> QED
    BY <1>1, <1>4, <1>5, <1>6, <1>7, <1>8, <1>9, <1>10

LEMMA CommitStep ==
  ASSUME SInv, Commit
  PROVE  SInv'
<1>1. /\ phase = "running" /\ pending = <<>> /\ phase' = "installed"
      /\ UNCHANGED <<asked, before, tokens, stakings, vestings, store, pending, reply>>
    BY DEF Commit, chain
<1>2. /\ Started /\ Linked /\ AS!Acceptable(asked.msg)
      /\ store.token \in Contract /\ store.staking \in Contract
      /\ store.vesting \in Contract
    BY <1>1, Finished
<1>3. asked \in AS!Request
    BY <1>2 DEF Started
<1>4. /\ Info.kind \in {"Existing", "New"}
      /\ ~IsNew => /\ Info.staking.kind \in {"Existing", "New"}
                   /\ Info.vesting.kind \in {"Existing", "New"}
    BY <1>3, RequestFields DEF Info, IsNew
<1>5. store.staking \in DOMAIN stakings /\ stakings[store.staking].token = store.token
  <2>1. CASE NewStaking
      BY <1>1, <2>1, Finished DEF Put
  <2>2. CASE ~NewStaking
    <3>1. stakings = before.stakings
        BY <1>1, <2>2, Finished
    <3>2. Info.kind = "Existing" /\ Info.staking.kind = "Existing"
        BY <1>4, <2>2 DEF NewStaking, IsNew
    <3>3. AS!OfToken(before.stakings, Info.staking.address, Info.address)
        BY <1>1, <1>2, <3>2 DEF AS!Acceptable, Info
    <3>4. store.staking = Info.staking.address /\ store.token = Info.address
        BY <1>2, <2>2 DEF Linked, NewStaking
    <3> QED
        BY <3>1, <3>3, <3>4 DEF AS!OfToken
  <2> QED
      BY <2>1, <2>2
<1>6. store.vesting \in DOMAIN vestings /\ vestings[store.vesting].token = store.token
  <2>1. CASE NewVesting
      BY <1>1, <2>1, Finished DEF Put
  <2>2. CASE ~NewVesting
    <3>1. vestings = before.vestings
        BY <1>1, <2>2, Finished
    <3>2. Info.kind = "Existing" /\ Info.vesting.kind = "Existing"
        BY <1>4, <2>2 DEF NewVesting, IsNew
    <3>3. AS!OfToken(before.vestings, Info.vesting.address, Info.address)
        BY <1>1, <1>2, <3>2 DEF AS!Acceptable, Info
    <3>4. store.vesting = Info.vesting.address /\ store.token = Info.address
        BY <1>2, <2>2 DEF Linked, NewVesting
    <3> QED
        BY <3>1, <3>3, <3>4 DEF AS!OfToken
  <2> QED
      BY <2>1, <2>2
<1>7. ContractsAgree'
    BY <1>1, <1>2, <1>5, <1>6, SetupAssumption DEF ContractsAgree
<1>8. ThresholdReachable'
  <2> SUFFICES ASSUME store.active_threshold.kind = "AbsoluteCount"
               PROVE  /\ store.token \in DOMAIN tokens
                      /\ store.active_threshold.count <= tokens[store.token]
      BY <1>1 DEF ThresholdReachable
  <2>1. store.active_threshold = asked.msg.active_threshold
      BY <1>2 DEF Started
  <2>2. CASE IsNew
    <3>1. AS!ValidCount(asked.msg.active_threshold, InitialSupply(Info))
        BY <1>2, <2>2 DEF AS!Acceptable, IsNew, Info, InitialSupply
    <3>2. tokens = Put(before.tokens, store.token, InitialSupply(Info))
        BY <1>1, <2>2, Finished
    <3> QED
        BY <2>1, <3>1, <3>2 DEF AS!ValidCount, Put
  <2>3. CASE ~IsNew
    <3>1. tokens = before.tokens /\ store.token = Info.address
        BY <1>1, <1>2, <2>3, Finished DEF Linked
    <3>2. /\ Info.address \in DOMAIN before.tokens
          /\ AS!ValidCount(asked.msg.active_threshold, before.tokens[Info.address])
        BY <1>1, <1>2, <1>4, <2>1, <2>3 DEF AS!Acceptable, IsNew, Info
    <3> QED
        BY <2>1, <3>1, <3>2 DEF AS!ValidCount
  <2> QED
      BY <2>2, <2>3
<1> QED
    BY <1>1, <1>7, <1>8 DEF SInv, RefusedForReason

LEMMA InvariantKept == SInv /\ [SUNext]_suvars => SInv'
<1> SUFFICES ASSUME SInv, [SUNext]_suvars
             PROVE  SInv'
    OBVIOUS
<1>1. ASSUME NEW dao \in Senders, NEW m \in Messages, Instantiate(dao, m)
      PROVE  SInv'
  <2>1. m.token_info.kind \in {"Existing", "New"}
    <3>1. [dao |-> dao, msg |-> m] \in AS!Request
        BY DEF AS!Request
    <3> QED
        BY <3>1, RequestFields
  <2> QED
      BY <1>1, <2>1, RefusedStep, ExistingStep, NewStep
<1>2. ASSUME NEW c \in Contract, RunSubmessage(c)
      PROVE  SInv'
    BY <1>2, RunStep
<1>3. CASE Fail
  <2>1. phase = "running" /\ RollBack("failed")
      BY <1>3 DEF Fail
  <2> QED
      BY <2>1, RollBackStep
<1>4. CASE ReportError
  <2>1. /\ phase \in {"refused", "failed"} /\ phase' = "none"
        /\ UNCHANGED <<tokens, stakings, vestings, store, pending, reply>>
      BY <1>4 DEF ReportError, chain
  <2> QED
      BY <2>1 DEF SInv, Idle, ContractsAgree, ThresholdReachable, RefusedForReason
<1>5. CASE UNCHANGED suvars
  <2>1. UNCHANGED <<phase, asked, before, tokens, stakings, vestings, store, pending, reply>>
      BY <1>5 DEF suvars, chain
  <2>2. AS!Acceptable(asked.msg)' <=> AS!Acceptable(asked.msg)
      BY <2>1, AcceptableSame DEF Seen
  <2>3. /\ Started' <=> Started
        /\ Linked' <=> Linked
        /\ Waiting' <=> Waiting
        /\ OnChain' <=> OnChain
        /\ Fresh' <=> Fresh
    <3>1. /\ TokenAt' = TokenAt /\ StakingAt' = StakingAt /\ VestingAt' = VestingAt
          /\ Info' = Info /\ IsNew' = IsNew /\ TakenBefore' = TakenBefore
          /\ NewStaking' = NewStaking /\ NewVesting' = NewVesting
          /\ TheTokenMsg' = TheTokenMsg /\ TheStakingMsg' = TheStakingMsg
          /\ TheVestingMsg' = TheVestingMsg
        BY <2>1 DEF TokenAt, StakingAt, VestingAt, Due, Info, IsNew, TakenBefore,
                    NewStaking, NewVesting, TheTokenMsg, TheStakingMsg, TheVestingMsg
    <3> QED
        BY <2>1, <2>2, <3>1 DEF Started, Linked, Waiting, OnChain, Fresh
  <2> QED
      BY <2>1, <2>2, <2>3
         DEF SInv, Idle, ContractsAgree, ThresholdReachable, RefusedForReason
<1> QED
    BY <1>1, <1>2, <1>3, <1>4, <1>5, TokenStep, StakingStep, VestingStep, CommitStep
       DEF SUNext

LEMMA Invariance == SUSpec => []SInv
BY StartInv, InvariantKept, PTL DEF SUSpec

-----------------------------------------------------------------------------
(* The voting module that came to be has a token, a staking and a vesting  *)
(* contract, and those two are of that token (instantiate, and the replies *)
(* of contract.rs), for any messages and contracts.                        *)
THEOREM LinksAgree == SUSpec => []ContractsAgree
BY Invariance, PTL DEF SInv

(* A count that was accepted can be reached by the supply of the token,    *)
(* whether the token was there or is new.                                  *)
THEOREM CountReachable == SUSpec => []ThresholdReachable
BY Invariance, PTL DEF SInv

(* No reply is ever the reason of a refusal but the one about a token that *)
(* is too small, which the message itself tells.                           *)
THEOREM RefusedWithReason == SUSpec => []RefusedForReason
BY Invariance, PTL DEF SInv

-----------------------------------------------------------------------------
(* The steps of the transaction and those of the abstract set-up.          *)

Installed == IF phase = "installed" THEN Links ELSE Nobody

\* A step that the abstract set-up does not see.
LEMMA Unseen ==
  ASSUME UNCHANGED <<asked, Installed, Seen>>
  PROVE  UNCHANGED AS!asvars
BY DEF AS!asvars, Installed, Seen

LEMMA RollBackUnseen ==
  ASSUME NEW outcome \in {"refused", "failed"},
         phase = "running", RollBack(outcome)
  PROVE  UNCHANGED AS!asvars
<1>1. UNCHANGED <<asked, Installed, Seen>>
    BY DEF RollBack, Installed, Seen
<1> QED
    BY <1>1, Unseen

LEMMA AnsweredUnseen ==
  ASSUME phase = "running", NEW submessages, Answered(submessages)
  PROVE  UNCHANGED AS!asvars
<1>1. UNCHANGED <<asked, Installed, Seen>>
    BY DEF Answered, chain, Installed, Seen
<1> QED
    BY <1>1, Unseen

LEMMA CommitInstalls ==
  ASSUME SInv, Commit
  PROVE  AS!Install
<1>1. /\ phase = "running" /\ pending = <<>> /\ phase' = "installed"
      /\ UNCHANGED <<asked, before, tokens, stakings, vestings, store, pending, reply>>
    BY DEF Commit, chain
<1>2. /\ Started /\ Linked /\ Fresh /\ AS!Acceptable(asked.msg)
      /\ store.token \in Contract /\ store.staking \in Contract
      /\ store.vesting \in Contract
      /\ TokenAt = store.token /\ StakingAt = store.staking
      /\ VestingAt = store.vesting
    BY <1>1, Finished
<1>3. /\ asked \in AS!Request /\ store.dao = asked.dao
      /\ store.active_threshold = asked.msg.active_threshold
    BY <1>2 DEF Started
<1>4. Links \in [dao : {asked.dao}, active_threshold : {asked.msg.active_threshold},
                 token : Contract, staking : Contract, vesting : Contract]
    BY <1>2, <1>3 DEF Links
<1>5. /\ Links.token = store.token /\ Links.staking = store.staking
      /\ Links.vesting = store.vesting
    BY DEF Links
<1>6. Links' = Links
    BY <1>1 DEF Links
<1>7. store.token # Nobody /\ store.staking # Nobody /\ store.vesting # Nobody
    BY <1>2, SetupAssumption
<1>8. /\ IF IsNew THEN store.token \notin TakenBefore ELSE store.token = Info.address
      /\ IF NewStaking THEN store.staking \notin TakenBefore
         ELSE store.staking = Info.staking.address
      /\ IF NewVesting THEN store.vesting \notin TakenBefore
         ELSE store.vesting = Info.vesting.address
      /\ IsNew => store.token \notin {store.staking, store.vesting}
      /\ NewStaking /\ NewVesting => store.staking # store.vesting
    BY <1>2, <1>7 DEF Linked, Fresh
<1>9. /\ tokens' = IF IsNew
                   THEN Put(before.tokens, store.token,
                            Info.initial_balances + Info.initial_dao_balance)
                   ELSE before.tokens
      /\ stakings' = IF NewStaking
                     THEN Put(before.stakings, store.staking,
                              [token    |-> store.token,
                               owner    |-> asked.dao,
                               duration |-> IF IsNew THEN Info.duration
                                            ELSE Info.staking.duration])
                     ELSE before.stakings
      /\ vestings' = IF NewVesting
                     THEN Put(before.vestings, store.vesting,
                              [token |-> store.token,
                               owner |-> OwnerOr(IF IsNew THEN Info.owner
                                                 ELSE Info.vesting.owner,
                                                 asked.dao)])
                     ELSE before.vestings
    BY <1>1, Finished DEF InitialSupply
<1> QED
    BY <1>1, <1>2, <1>3, <1>4, <1>5, <1>6, <1>8, <1>9
       DEF AS!Install, AS!Taken, AS!Put, Put, OwnerOr, Info, IsNew,
           NewStaking, NewVesting, TakenBefore

LEMMA SetupStep == SInv /\ [SUNext]_suvars => [AS!Ask \/ AS!Install]_(AS!asvars)
<1> SUFFICES ASSUME SInv, [SUNext]_suvars
             PROVE  AS!Ask \/ AS!Install \/ UNCHANGED AS!asvars
    OBVIOUS
<1>1. ASSUME NEW dao \in Senders, NEW m \in Messages, Instantiate(dao, m)
      PROVE  AS!Ask
  <2>1. /\ phase = "none" /\ phase' \in {"running", "refused"}
        /\ asked' = [dao |-> dao, msg |-> m]
        /\ before' = [tokens |-> tokens, stakings |-> stakings, vestings |-> vestings]
        /\ UNCHANGED <<tokens, stakings, vestings>>
      BY <1>1 DEF Instantiate, chain
  <2>2. asked' \in AS!Request
      BY <2>1 DEF AS!Request
  <2> QED
      BY <2>1, <2>2 DEF AS!Ask
<1>2. ASSUME NEW c \in Contract, RunSubmessage(c)
      PROVE  UNCHANGED AS!asvars
  <2>1. UNCHANGED <<asked, Installed, Seen>>
      BY <1>2 DEF RunSubmessage, Installed, Seen
  <2> QED
      BY <2>1, Unseen
<1>3. CASE ReplyToken
    BY <1>3, RollBackUnseen, AnsweredUnseen DEF ReplyToken, ReplyDue
<1>4. CASE ReplyStaking
    BY <1>4, RollBackUnseen, AnsweredUnseen DEF ReplyStaking, ReplyDue
<1>5. CASE ReplyVesting
    BY <1>5, RollBackUnseen, AnsweredUnseen DEF ReplyVesting, ReplyDue
<1>6. CASE Fail
    BY <1>6, RollBackUnseen DEF Fail
<1>7. CASE ReportError
  <2>1. /\ phase \in {"refused", "failed"} /\ phase' = "none" /\ asked' = Nobody
        /\ UNCHANGED <<tokens, stakings, vestings>>
      BY <1>7 DEF ReportError, chain
  <2> QED
      BY <2>1 DEF AS!Ask
<1>8. CASE UNCHANGED suvars
  <2>1. UNCHANGED <<asked, Installed, Seen>>
      BY <1>8 DEF suvars, chain, Installed, Seen, Links
  <2> QED
      BY <2>1, Unseen
<1> QED
    BY <1>1, <1>2, <1>3, <1>4, <1>5, <1>6, <1>7, <1>8, CommitInstalls DEF SUNext

(* The transaction of instantiate, its submessages and its replies         *)
(* implements the set-up in one step.                                      *)
THEOREM Atomic == SUSpec => SetupIsAtomic
<1>1. SUInit => asked = Nobody /\ Installed = Nobody
    BY DEF SUInit, Installed
<1> QED
    BY <1>1, SetupStep, Invariance, PTL DEF SUSpec, SetupIsAtomic, AS!ASSpec, Installed
=============================================================================
