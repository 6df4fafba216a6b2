----------------------------- MODULE MerkleTree -----------------------------
(***************************************************************************)
(* The Merkle tree of a list of recipients, as the command line helpers of *)
(* klmd-airdrop build it with merkletreejs.                                *)
(*                                                                         *)
(* A hash is a term that shows what was hashed: SHA-256 taken as free of   *)
(* collisions.  The two hashes of a pair are sorted before they are        *)
(* hashed, so that the term of a pair is the set of them.  The leaves are  *)
(* sorted as well: a list may come in any order of them.                   *)
(***************************************************************************)
EXTENDS Integers, FiniteSetsExt, SequencesExt

\* The hash of an entry, and of a pair of hashes.
Leaf(address, amount) == [leaf |-> <<address, amount>>]
Node(h, g) == [node |-> {h, g}]

\* The leaves of a list of entries, given in their order.
Leaves(list) == [i \in DOMAIN list |-> Leaf(list[i].address, list[i].amount)]

\* The layer above: neighbours are hashed, a last one without a neighbour is
\* taken as it is.
Above(layer) ==
  [i \in 1 .. (Len(layer) + 1) \div 2 |->
     IF 2 * i <= Len(layer) THEN Node(layer[2 * i - 1], layer[2 * i])
     ELSE layer[2 * i - 1]]

\* All layers, from the leaves up to the root alone.
Layers(leaves) ==
  LET up[k \in 0 .. Len(leaves)] == IF k = 0 THEN leaves ELSE Above(up[k - 1])
      top == CHOOSE k \in 0 .. Len(leaves) :
               Len(up[k]) = 1 /\ \A j \in 0 .. (k - 1) : Len(up[j]) > 1
  IN  [k \in 1 .. top + 1 |-> up[k - 1]]

\* getMerkleRoot.
GetMerkleRoot(leaves) == Last(Layers(leaves))[1]

\* Mutant of Beside: the last node of a layer is paired with itself.
BesideOrSelf(layer, i) ==
  IF i % 2 = 0 THEN <<layer[i - 1]>>
  ELSE IF i < Len(layer) THEN <<layer[i + 1]>> ELSE <<layer[i]>>

\* The neighbour of node i, none for a last one without.
Beside(layer, i) ==
  IF i % 2 = 0 THEN <<layer[i - 1]>>
  ELSE IF i < Len(layer) THEN <<layer[i + 1]>> ELSE <<>>

\* getMerkleProof, of the first leaf with that hash: the neighbours on the
\* way up.
GetMerkleProof(leaves, leaf) ==
  LET first == CHOOSE i \in DOMAIN leaves :
                 leaves[i] = leaf /\ \A j \in 1 .. (i - 1) : leaves[j] # leaf
      layers == Layers(leaves)
      way[k \in 0 .. Len(layers)] ==
        IF k = 0 THEN [at |-> first, proof |-> <<>>]
        ELSE [at    |-> (way[k - 1].at + 1) \div 2,
              proof |-> way[k - 1].proof \o Beside(layers[k], way[k - 1].at)]
  IN  way[Len(layers)].proof
=============================================================================
