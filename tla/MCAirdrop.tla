----------------------------- MODULE MCAirdrop -----------------------------
(* A small instance of Airdrop for TLC.                                    *)
EXTENDS Airdrop

CONSTANTS alice, bob, nobody

MCAddress == {alice, bob}

Entry(a, n) == [address |-> a, amount |-> n]
A1 == Entry(alice, 1)
A2 == Entry(alice, 2)
B1 == Entry(bob, 1)
B2 == Entry(bob, 2)

\* A list of one entry, whose root is its hash, one that names alice twice,
\* and one of five rows, a row of which is repeated.
MCLists == {<<A1>>, <<A1, A2, B1>>, <<A2, B1, A1, A1, B2>>}

\* The proofs that the helpers give out, and all of at most two of
\* their hashes.
MCProofsOf(list) == {MerkleProof[list][e] : e \in ToSet(list)}
Hashes ==
  UNION {{MerkleRoot[list]} \cup UNION {ToSet(p) : p \in MCProofsOf(list)} : list \in MCLists}
MCProofs ==
  {<<>>} \cup {<<h>> : h \in Hashes} \cup {<<h, g>> : h, g \in Hashes}
    \cup UNION {MCProofsOf(list) : list \in MCLists}

MCExpirations == {2, Never}
=============================================================================
