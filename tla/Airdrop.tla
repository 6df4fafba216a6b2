------------------------------ MODULE Airdrop ------------------------------
(***************************************************************************)
(* klmd-airdrop: the owner registers the Merkle root of a list of          *)
(* recipients for each stage, and whoever proves to be listed claims the   *)
(* amount of its entry, once for each stage.                               *)
(*                                                                         *)
(* The lists, their roots and the proofs are what the helpers of the       *)
(* airdrop make (MerkleTree), the contract hashes in the same way.  Times  *)
(* are block heights, 0 stands for a start that is not given.              *)
(***************************************************************************)
EXTENDS StorageMap, MerkleTree

CONSTANTS
  Address,
  NoOwner,        \* the owner was given up
  Lists,          \* the lists of recipients that are tried: their entries, in
                  \* the order of the leaves of their tree
  Proofs,         \* the proofs that claimants try
  Amounts,        \* the amounts that claimants try
  Expirations,    \* the expirations that are tried
  Starts,         \* the starts that are tried
  MaxStage,       \* u8::MAX
  FundAmounts,    \* external: what the contract is sent
  MaxFunds,       \* bound: what it is sent in all
  MaxTime         \* bound: the last block

Never == -1       \* Expiration::Never

ASSUME AirdropAssumption ==
  /\ IsFiniteSet(Address) /\ NoOwner \notin Address
  /\ Lists \subseteq Seq([address : Address, amount : Nat]) \ {<<>>}
  /\ \A proof \in Proofs : proof \in Seq(ToSet(proof))
  /\ Amounts \subseteq Nat /\ FundAmounts \subseteq Nat
  /\ Expirations \subseteq Nat \cup {Never} /\ Starts \subseteq Nat
  /\ MaxStage \in Nat /\ MaxFunds \in Nat /\ MaxTime \in Nat

VARIABLES
  now,              \* env.block
  owner,            \* CONFIG.owner
  latest_stage,     \* LATEST_STAGE
  stages,           \* MERKLE_ROOT, STAGE_EXPIRATION and STAGE_START, with the
                    \* list that the root was made of (history)
  claim,            \* CLAIM, a map to true: its keys
  already_claimed,  \* ALREADY_CLAIMED, 0 for a stage without
  balance, funded,  \* external: tokens the contract holds, and got in all
  received          \* history: what was paid, by address and stage

vars == <<now, owner, latest_stage, stages, claim, already_claimed,
          balance, funded, received>>

Stage == 1 .. MaxStage

TypeOK ==
  /\ now \in Nat /\ balance \in Nat /\ funded \in Nat
  /\ owner \in Address \cup {NoOwner}
  /\ latest_stage \in 0 .. MaxStage
  /\ stages \in [1 .. latest_stage ->
                   [list : Lists, expires : Nat \cup {Never}, start : Nat]]
  /\ claim \subseteq Address \X Stage
  /\ already_claimed \in [Stage -> Nat]
  /\ received \in [Address \X Stage -> Nat]

-----------------------------------------------------------------------------
\* What the helpers make of each list: its root, which is registered, and
\* the proofs of its entries, which they claim with.
MerkleRoot == [list \in Lists |-> GetMerkleRoot(Leaves(list))]
MerkleProof ==
  [list \in Lists |->
     [e \in ToSet(list) |-> GetMerkleProof(Leaves(list), Leaf(e.address, e.amount))]]

\* The root that a proof leads to.
RootOf(sender, amount, proof) == FoldLeft(Node, Leaf(sender, amount), proof)

Init ==
  /\ now = 0
  /\ owner \in Address
  /\ latest_stage = 0
  /\ stages = <<>>
  /\ claim = {}
  /\ already_claimed = [s \in Stage |-> 0]
  /\ balance = 0 /\ funded = 0
  /\ received = [k \in Address \X Stage |-> 0]

\* execute_update_config.
UpdateConfig(sender, new_owner) ==
  /\ sender = owner
  /\ owner' = new_owner
  /\ UNCHANGED <<now, latest_stage, stages, claim, already_claimed,
                 balance, funded, received>>

\* Mutant of NextStage: the stage is only advanced once.
NextStageStuck(s) == 1

NextStage(s) == s + 1

\* execute_register_merkle_root: the stage is a u8, whose overflow panics.
RegisterMerkleRoot(sender, list, expires, start) ==
  LET stage == NextStage(latest_stage)
  IN  /\ sender = owner
      /\ latest_stage < MaxStage
      /\ latest_stage' = stage
      /\ stages' = Put(stages, stage, [list |-> list, expires |-> expires, start |-> start])
      /\ UNCHANGED <<now, owner, claim, already_claimed, balance, funded, received>>

\* Mutant of Paid: the total is that of the latest claim.
PaidLast(stage, amount) == [already_claimed EXCEPT ![stage] = amount]

Paid(stage, amount) == [already_claimed EXCEPT ![stage] = @ + amount]

\* Mutant of ClaimKey: a claim is recorded for the latest stage.
ClaimKeyLatest(sender, stage) == <<sender, latest_stage>>

ClaimKey(sender, stage) == <<sender, stage>>

\* When execute_claim goes through: the token refuses to move 0, or more
\* than there is.
MayClaim(sender, stage, amount, proof) ==
  /\ stage \in DOMAIN stages
  /\ stages[stage].start <= now
  /\ stages[stage].expires = Never \/ now < stages[stage].expires
  /\ <<sender, stage>> \notin claim
  /\ RootOf(sender, amount, proof) = MerkleRoot[stages[stage].list]
  /\ 0 < amount /\ amount <= balance

Claim(sender, stage, amount, proof) ==
  /\ MayClaim(sender, stage, amount, proof)
  /\ claim' = claim \cup {ClaimKey(sender, stage)}
  /\ already_claimed' = Paid(stage, amount)
  /\ balance' = balance - amount
  /\ received' = [received EXCEPT ![<<sender, stage>>] = @ + amount]
  /\ UNCHANGED <<now, owner, latest_stage, stages, funded>>

\* External: tokens are sent to the contract.
Fund(amount) ==
  /\ funded + amount <= MaxFunds
  /\ balance' = balance + amount
  /\ funded' = funded + amount
  /\ UNCHANGED <<now, owner, latest_stage, stages, claim, already_claimed, received>>

NextBlock ==
  /\ now < MaxTime
  /\ now' = now + 1
  /\ UNCHANGED <<owner, latest_stage, stages, claim, already_claimed,
                 balance, funded, received>>

Next ==
  \/ NextBlock
  \/ \E amount \in FundAmounts : Fund(amount)
  \/ \E sender \in Address, new_owner \in Address \cup {NoOwner} :
       UpdateConfig(sender, new_owner)
  \/ \E sender \in Address, list \in Lists, expires \in Expirations, start \in Starts :
       RegisterMerkleRoot(sender, list, expires, start)
  \/ \E sender \in Address, stage \in Stage, amount \in Amounts, proof \in Proofs :
       Claim(sender, stage, amount, proof)

Spec == Init /\ [][Next]_vars
-----------------------------------------------------------------------------
(* Of each stage an address gets nothing, or the amount of one of its      *)
(* entries in the list of that stage, whatever it proves, however often    *)
(* and in whatever order of stages it claims (contract.rs:131-187).        *)
ClaimedAsListed ==
  \A a \in Address, s \in Stage :
    IF <<a, s>> \in claim
    THEN [address |-> a, amount |-> received[<<a, s>>]] \in ToSet(stages[s].list)
    ELSE received[<<a, s>>] = 0

(* AlreadyClaimed of a stage is what was paid for it, and all stages       *)
(* together were paid out of what the contract was sent (contract.rs:190). *)
ClaimsAddUp ==
  /\ \A s \in Stage :
       already_claimed[s] = SumFunction([a \in Address |-> received[<<a, s>>]])
  /\ balance + SumFunction(already_claimed) = funded

(* A stage keeps its root, its start and its expiration once it is         *)
(* registered, and a contract without an owner gets no further stages      *)
(* (contract.rs:90; msg.rs:18).                                            *)
StagesStay ==
  [][/\ \A s \in DOMAIN stages : s \in DOMAIN stages' /\ stages'[s] = stages[s]
     /\ owner = NoOwner => owner' = NoOwner /\ stages' = stages]_vars

(* Whoever is listed can claim with the proof that the helpers give out,   *)
(* while the stage runs, until it has claimed of that stage and as long as *)
(* the tokens last: the trees of the helpers and the hashing of the        *)
(* contract agree, whatever the place in the tree, and no other stage and  *)
(* no other claimant comes in between (airdrop.ts:17; contract.rs:152,     *)
(* 164).                                                                   *)
ListedMayClaim ==
  \A s \in DOMAIN stages : \A e \in ToSet(stages[s].list) :
    ( /\ stages[s].start <= now
      /\ stages[s].expires = Never \/ now < stages[s].expires
      /\ received[<<e.address, s>>] = 0
      /\ 0 < e.amount /\ e.amount <= balance )
    => MayClaim(e.address, s, e.amount, MerkleProof[stages[s].list][e])
=============================================================================
