--------------------------- MODULE AirdropProofs ---------------------------
(***************************************************************************)
(* Proofs about Airdrop, for any addresses, lists, proofs and bounds.      *)
(*                                                                         *)
(* First the trees: a hash shows what was hashed, so that a proof that     *)
(* leads from an entry to a root passes nodes of the layers on its way     *)
(* (LedToTree), and the proof that a tree gives out passes the node above  *)
(* the one before (OneWayOn).  The recursive functions that the trees and  *)
(* the folds are defined by exist, which is shown by looking at a least    *)
(* number of layers or elements for which they do not.                     *)
(*                                                                         *)
(* Then the contract, whose inductive invariant AInv says that what an     *)
(* address got of a stage is an entry of its list, and is not nothing.     *)
(***************************************************************************)
EXTENDS Airdrop, SumProofs


-----------------------------------------------------------------------------
(* What a proof makes of a hash: FoldLeft(Node, b, f) is a recursive       *)
(* function over the sets of positions of f, of which each takes its       *)
(* greatest position last.                                                 *)

Climbed(b, f, g, s) == IF s = {} THEN b ELSE Node(g[s \ {Max(s)}], f[Max(s)])

Climbs(b, f, n, g) == g = [s \in SUBSET (1 .. n) |-> Climbed(b, f, g, s)]

TheClimb(b, f, n) == CHOOSE g : Climbs(b, f, n, g)

\* What the first n elements of f make of b.
Climb(b, f, n) == TheClimb(b, f, n)[1 .. n]

LEMMA ClimbExists ==
  ASSUME NEW b, NEW f, NEW N \in Nat
  PROVE  \E g : Climbs(b, f, N, g)
<1> DEFINE Bad == {n \in Nat : ~\E g : Climbs(b, f, n, g)}
<1>1. Bad = {}
  <2> SUFFICES ASSUME Bad # {}
               PROVE  FALSE
      OBVIOUS
  <2>1. PICK n \in Bad : \A m \in Bad : n <= m
      BY LeastNatural
  <2>2. CASE n = 0
    <3>1. SUBSET (1 .. 0) = {{}}
        OBVIOUS
    <3>2. Climbs(b, f, 0, [s \in SUBSET (1 .. 0) |-> b])
        BY <3>1 DEF Climbs, Climbed
    <3> QED
        BY <2>2, <3>2
  <2>3. CASE n # 0
    <3>1. n \in Nat /\ n - 1 \in Nat /\ n - 1 \notin Bad
        BY <2>1, <2>3
    <3>2. PICK h : Climbs(b, f, n - 1, h)
        BY <3>1
    <3> DEFINE g == [s \in SUBSET (1 .. n) |-> Climbed(b, f, h, s)]
    <3>3. ASSUME NEW s \in SUBSET (1 .. n)
          PROVE  Climbed(b, f, h, s) = Climbed(b, f, g, s)
      <4>1. CASE s = {}
          BY <4>1 DEF Climbed
      <4>2. CASE s # {}
        <5> DEFINE t == s \ {Max(s)}
        <5>1. Max(s) \in s /\ \A x \in s : x <= Max(s)
            BY <3>1, <4>2, Greatest
        <5>2. t \in SUBSET (1 .. (n - 1))
          <6> SUFFICES ASSUME NEW x \in t PROVE x \in 1 .. (n - 1)
              OBVIOUS
          <6>1. x \in 1 .. n /\ Max(s) \in 1 .. n /\ x <= Max(s) /\ x # Max(s)
              BY <5>1
          <6> HIDE DEF t
          <6> QED
              BY ONLY <3>1, <6>1
        <5>3. t \in SUBSET (1 .. n)
            OBVIOUS
        <5>4. h[t] = Climbed(b, f, h, t)
            BY <3>2, <5>2 DEF Climbs
        <5>5. g[t] = Climbed(b, f, h, t)
            BY <5>3
        <5> QED
            BY <5>4, <5>5 DEF Climbed
      <4> QED
          BY <4>1, <4>2
    <3>4. Climbs(b, f, n, g)
        BY <3>3 DEF Climbs
    <3> QED
        BY <3>4
  <2> QED
      BY <2>2, <2>3
<1> QED
    BY <1>1

\* A climb takes one element after the other.
LEMMA ClimbSteps ==
  ASSUME NEW b, NEW f, NEW N \in Nat
  PROVE  /\ TheClimb(b, f, N)[1 .. 0] = b
         /\ \A k \in 1 .. N : TheClimb(b, f, N)[1 .. k] =
                                Node(TheClimb(b, f, N)[1 .. (k - 1)], f[k])
<1> DEFINE g == TheClimb(b, f, N)
<1>1. Climbs(b, f, N, g)
    BY ClimbExists DEF TheClimb
<1> HIDE DEF g
<1>2. \A s \in SUBSET (1 .. N) : g[s] = Climbed(b, f, g, s)
    BY <1>1 DEF Climbs
<1>3. g[1 .. 0] = b
    BY <1>2 DEF Climbed
<1>4. ASSUME NEW k \in 1 .. N
      PROVE  g[1 .. k] = Node(g[1 .. (k - 1)], f[k])
  <2>1. 1 .. k \in SUBSET (1 .. N) /\ 1 .. k # {} /\ k \in 1 .. k
      OBVIOUS
  <2>2. Max(1 .. k) \in 1 .. k /\ k <= Max(1 .. k)
      BY <2>1, Greatest
  <2>3. Max(1 .. k) = k
      BY <2>2
  <2>4. (1 .. k) \ {k} = 1 .. (k - 1)
      OBVIOUS
  <2> QED
      BY <1>2, <2>1, <2>3, <2>4 DEF Climbed
<1> QED
    BY <1>3, <1>4 DEF g

\* It depends on the elements that it takes only.
LEMMA ClimbAgrees ==
  ASSUME NEW b, NEW f, NEW e, NEW N \in Nat, NEW n \in 0 .. N,
         \A i \in 1 .. n : f[i] = e[i]
  PROVE  TheClimb(b, f, N)[1 .. n] = Climb(b, e, n)
<1> DEFINE g == TheClimb(b, f, N)
           h == TheClimb(b, e, n)
           Bad == {k \in 0 .. n : g[1 .. k] # h[1 .. k]}
<1>1. /\ g[1 .. 0] = b
      /\ \A k \in 1 .. N : g[1 .. k] = Node(g[1 .. (k - 1)], f[k])
    BY ClimbSteps
<1>2. /\ h[1 .. 0] = b
      /\ \A k \in 1 .. n : h[1 .. k] = Node(h[1 .. (k - 1)], e[k])
    BY ClimbSteps
<1> HIDE DEF g, h
<1>3. Bad = {}
  <2> SUFFICES ASSUME Bad # {}
               PROVE  FALSE
      OBVIOUS
  <2>1. PICK k \in Bad : \A m \in Bad : k <= m
    <3>1. Bad \subseteq Nat
        OBVIOUS
    <3> HIDE DEF Bad
    <3> QED
        BY <3>1, LeastNatural
  <2>2. k # 0
      BY <1>1, <1>2
  <2>3. k \in 1 .. n /\ k - 1 \in 0 .. n /\ k - 1 \notin Bad /\ k \in 1 .. N
      BY <2>1, <2>2
  <2>4. g[1 .. (k - 1)] = h[1 .. (k - 1)]
      BY <2>3
  <2> QED
      BY <1>1, <1>2, <2>1, <2>3, <2>4
<1>4. g[1 .. n] = h[1 .. n]
    BY <1>3
<1> QED
    BY <1>4 DEF g, h, Climb

LEMMA ClimbUnfolds ==
  ASSUME NEW b, NEW f, NEW n \in Nat
  PROVE  Climb(b, f, n) = IF n = 0 THEN b ELSE Node(Climb(b, f, n - 1), f[n])
<1>1. CASE n = 0
    BY <1>1, ClimbSteps DEF Climb
<1>2. CASE n # 0
  <2>1. n \in 1 .. n /\ n - 1 \in 0 .. n
      BY <1>2
  <2>2. TheClimb(b, f, n)[1 .. n] = Node(TheClimb(b, f, n)[1 .. (n - 1)], f[n])
      BY <2>1, ClimbSteps
  <2>3. TheClimb(b, f, n)[1 .. (n - 1)] = Climb(b, f, n - 1)
      BY <2>1, ClimbAgrees
  <2> QED
      BY <1>2, <2>2, <2>3 DEF Climb
<1> QED
    BY <1>1, <1>2

LEMMA FoldClimbs ==
  ASSUME NEW b, NEW S, NEW f \in Seq(S)
  PROVE  FoldLeft(Node, b, f) = Climb(b, f, Len(f))
<1>1. DOMAIN f = 1 .. Len(f)
    OBVIOUS
<1> QED
    BY <1>1 DEF FoldLeft, MapThenFoldSet, Climb, TheClimb, Climbs, Climbed

-----------------------------------------------------------------------------
(* The layers of the tree of a list of leaves.                             *)

IsLayer(l) == Len(l) \in Nat \ {0} /\ DOMAIN l = 1 .. Len(l)

Ups(leaves, n, u) ==
  u = [k \in 0 .. n |-> IF k = 0 THEN leaves ELSE Above(u[k - 1])]

LEMMA LayerAbove ==
  ASSUME NEW l, IsLayer(l)
  PROVE  /\ IsLayer(Above(l)) /\ Len(Above(l)) = (Len(l) + 1) \div 2
         /\ \A j \in 1 .. (Len(l) + 1) \div 2 :
              Above(l)[j] = IF 2 * j <= Len(l) THEN Node(l[2 * j - 1], l[2 * j])
                            ELSE l[2 * j - 1]
<1> DEFINE m == (Len(l) + 1) \div 2
           at(i) == IF 2 * i <= Len(l) THEN Node(l[2 * i - 1], l[2 * i]) ELSE l[2 * i - 1]
           a == [i \in 1 .. m |-> at(i)]
           T == {at(i) : i \in 1 .. m}
<1>1. Above(l) = a
    BY DEF Above
<1>2. m \in Nat \ {0}
    BY DEF IsLayer
<1> HIDE DEF m, at
<1>3. a \in [1 .. m -> T]
    OBVIOUS
<1> HIDE DEF T
<1>4. a \in Seq(T) /\ Len(a) = m
    BY <1>2, <1>3
<1>5. DOMAIN a = 1 .. m /\ \A j \in 1 .. m : a[j] = at(j)
    OBVIOUS
<1> QED
    BY <1>1, <1>2, <1>4, <1>5 DEF IsLayer, at, m

LEMMA UpExists ==
  ASSUME NEW leaves, NEW N \in Nat
  PROVE  \E u : Ups(leaves, N, u)
<1> DEFINE Bad == {n \in Nat : ~\E u : Ups(leaves, n, u)}
<1>1. Bad = {}
  <2> SUFFICES ASSUME Bad # {}
               PROVE  FALSE
      OBVIOUS
  <2>1. PICK n \in Bad : \A m \in Bad : n <= m
      BY LeastNatural
  <2>2. CASE n = 0
    <3>1. Ups(leaves, 0, [k \in 0 .. 0 |-> leaves])
        BY DEF Ups
    <3> QED
        BY <2>2, <3>1
  <2>3. CASE n # 0
    <3>1. n \in Nat /\ n - 1 \in Nat /\ n - 1 \notin Bad
        BY <2>1, <2>3
    <3>2. PICK p : Ups(leaves, n - 1, p)
        BY <3>1
    <3> DEFINE q == [k \in 0 .. n |-> IF k = 0 THEN leaves ELSE Above(p[k - 1])]
    <3>3. \A k \in 0 .. n - 1 : p[k] = IF k = 0 THEN leaves ELSE Above(p[k - 1])
        BY <3>2 DEF Ups
    <3>4. \A k \in 1 .. n : k - 1 \in 0 .. n - 1 /\ q[k - 1] = p[k - 1]
        BY <3>1, <3>3
    <3>5. q = [k \in 0 .. n |-> IF k = 0 THEN leaves ELSE Above(q[k - 1])]
      <4>1. \A k \in 0 .. n : k # 0 => k \in 1 .. n
          BY <3>1
      <4> QED
          BY <3>4, <4>1
    <3>6. Ups(leaves, n, q)
        BY <3>5 DEF Ups
    <3> QED
        BY <3>6
  <2> QED
      BY <2>2, <2>3
<1> QED
    BY <1>1

\* The layers of a tree, from the leaves u[0] up to the root, alone in u[top].
Tree(leaves, u, top) ==
  /\ top \in Nat
  /\ u[0] = leaves
  /\ \A k \in 1 .. top : u[k] = Above(u[k - 1])
  /\ \A k \in 0 .. top : IsLayer(u[k])
  /\ Len(u[top]) = 1
  /\ Layers(leaves) = [k \in 1 .. top + 1 |-> u[k - 1]]

LEMMA TreeExists ==
  ASSUME NEW leaves, IsLayer(leaves)
  PROVE  \E u, top : Tree(leaves, u, top)
<1> DEFINE n == Len(leaves)
           u == CHOOSE v : Ups(leaves, n, v)
           top == CHOOSE k \in 0 .. n : Len(u[k]) = 1 /\ \A j \in 0 .. (k - 1) : Len(u[j]) > 1
<1>1. Layers(leaves) = [k \in 1 .. top + 1 |-> u[k - 1]]
    BY DEF Layers, Ups
<1>2. n \in Nat \ {0}
    BY DEF IsLayer
<1>3. Ups(leaves, n, u)
    BY <1>2, UpExists
<1> HIDE DEF u
<1>4. /\ u[0] = leaves
      /\ \A k \in 1 .. n : u[k] = Above(u[k - 1])
    BY <1>2, <1>3 DEF Ups
\* A layer of several nodes has more than the layer above it.
<1> DEFINE Shrinks(k) == IsLayer(u[k]) /\ (Len(u[k]) = 1 \/ Len(u[k]) <= n - k)
           Bad == {k \in 0 .. n : ~Shrinks(k)}
<1> HIDE DEF top
<1>5. Bad = {}
  <2> SUFFICES ASSUME Bad # {}
               PROVE  FALSE
      OBVIOUS
  <2>1. PICK k \in Bad : \A m \in Bad : k <= m
    <3>1. Bad \subseteq Nat
        OBVIOUS
    <3> HIDE DEF Bad
    <3> QED
        BY <3>1, LeastNatural
  <2>2. k # 0
      BY <1>2, <1>4
  <2>3. k \in 1 .. n /\ k - 1 \in 0 .. n /\ k - 1 \notin Bad
      BY <1>2, <2>1, <2>2
  <2> DEFINE l == u[k - 1]
  <2>4. IsLayer(l) /\ (Len(l) = 1 \/ Len(l) <= n - (k - 1))
      BY <2>3
  <2> HIDE DEF l
  <2>5. IsLayer(Above(l)) /\ Len(Above(l)) = (Len(l) + 1) \div 2
      BY <2>4, LayerAbove
  <2>6. (Len(l) + 1) \div 2 = 1 \/ (Len(l) + 1) \div 2 <= n - k
    <3> DEFINE m == Len(l)
    <3>1. /\ m \in Nat \ {0} /\ k \in Nat /\ n \in Nat
          /\ m = 1 \/ m <= n - (k - 1)
        BY <1>2, <2>3, <2>4 DEF IsLayer
    <3> HIDE DEF m, n
    <3>2. (m + 1) \div 2 = 1 \/ (m + 1) \div 2 <= n - k
        BY ONLY <3>1
    <3> QED
        BY <3>2 DEF m
  <2> QED
      BY <1>4, <2>1, <2>3, <2>5, <2>6 DEF l
<1>6. \A k \in 0 .. n : IsLayer(u[k]) /\ (Len(u[k]) = 1 \/ Len(u[k]) <= n - k)
    BY <1>5
<1> DEFINE Alone == {k \in 0 .. n : Len(u[k]) = 1}
<1>7. n \in Alone
  <2>1. n \in 0 .. n
      BY <1>2
  <2>2. Len(u[n]) \in Nat \ {0} /\ (Len(u[n]) = 1 \/ Len(u[n]) <= n - n)
      BY <1>6, <2>1 DEF IsLayer
  <2> QED
      BY <1>2, <2>1, <2>2
<1>8. PICK k \in Alone : \A m \in Alone : k <= m
  <2>1. Alone \subseteq Nat /\ Alone # {}
      BY <1>7
  <2> HIDE DEF Alone
  <2> QED
      BY <2>1, LeastNatural
<1>9. k \in 0 .. n /\ Len(u[k]) = 1 /\ \A j \in 0 .. (k - 1) : Len(u[j]) > 1
  <2> SUFFICES ASSUME NEW j \in 0 .. (k - 1) PROVE Len(u[j]) > 1
      BY <1>8
  <2>1. j \in 0 .. n /\ j \notin Alone
      BY <1>2, <1>8
  <2>2. PICK m \in Nat \ {0} : m = Len(u[j])
      BY <1>6, <2>1 DEF IsLayer
  <2>3. m # 1
      BY <2>1, <2>2
  <2>4. m > 1
      BY <2>3
  <2> QED
      BY <2>2, <2>4
<1>10. top \in 0 .. n /\ Len(u[top]) = 1
    BY <1>9 DEF top
<1>11. top \in Nat /\ \A i \in 1 .. top : i \in 1 .. n
    BY <1>2, <1>10
<1>12. \A i \in 0 .. top : i \in 0 .. n
    BY <1>2, <1>10
<1>13. Tree(leaves, u, top)
    BY <1>1, <1>4, <1>6, <1>10, <1>11, <1>12 DEF Tree
<1> QED
    BY <1>13
LEMMA RootIsAlone ==
  ASSUME NEW leaves, NEW u, NEW top, Tree(leaves, u, top)
  PROVE  GetMerkleRoot(leaves) = u[top][1]
<1> DEFINE ls == [k \in 1 .. top + 1 |-> u[k - 1]]
           T == {u[k - 1] : k \in 1 .. top + 1}
<1>1. top \in Nat /\ Layers(leaves) = ls
    BY DEF Tree
<1>2. ls \in [1 .. top + 1 -> T] /\ top + 1 \in Nat
    BY <1>1
<1>3. ls \in Seq(T) /\ Len(ls) = top + 1
    BY ONLY <1>2
<1>4. ls[top + 1] = u[top]
    BY <1>1
<1> HIDE DEF ls
<1> QED
    BY <1>1, <1>3, <1>4 DEF GetMerkleRoot, Last

-----------------------------------------------------------------------------
(* What leads to the root of a list is one of its entries.                 *)

\* A leaf is no pair, and the hashes of a pair are those of its term.
LEMMA FreeHashes ==
  /\ \A a, n, h, g : Leaf(a, n) # Node(h, g)
  /\ \A a, n, c, m : Leaf(a, n) = Leaf(c, m) => a = c /\ n = m
  /\ \A h, g, l, r : Node(h, g) = Node(l, r) => h = l \/ h = r
<1>1. ASSUME NEW a, NEW n, NEW h, NEW g, Leaf(a, n) = Node(h, g)
      PROVE  FALSE
  <2>1. "leaf" \in DOMAIN Leaf(a, n) /\ "leaf" \notin DOMAIN Node(h, g)
      BY DEF Leaf, Node
  <2> QED
      BY <1>1, <2>1
<1>2. ASSUME NEW a, NEW n, NEW c, NEW m, Leaf(a, n) = Leaf(c, m)
      PROVE  a = c /\ n = m
    BY <1>2 DEF Leaf
<1>3. ASSUME NEW h, NEW g, NEW l, NEW r, Node(h, g) = Node(l, r)
      PROVE  h = l \/ h = r
  <2>1. Node(h, g).node = {h, g} /\ Node(l, r).node = {l, r}
      BY DEF Node
  <2>2. h \in {l, r}
      BY <1>3, <2>1
  <2> QED
      BY <2>2
<1> QED
    BY <1>1, <1>2, <1>3

IsLeaf(b) == \E a, n : b = Leaf(a, n)

\* Some of the proof leads from b to a node of the layer.
Leads(b, f, l) == \E i \in 1 .. Len(l), n \in Nat : Climb(b, f, n) = l[i]

LEMMA LedToTree ==
  ASSUME NEW leaves, NEW u, NEW top, Tree(leaves, u, top),
         \A i \in DOMAIN leaves : IsLeaf(leaves[i]),
         NEW b, IsLeaf(b), NEW f, Leads(b, f, u[top])
  PROVE  \E j \in DOMAIN leaves : leaves[j] = b
<1> DEFINE Here == {c \in 0 .. top : Leads(b, f, u[c])}
<1>1. top \in Here /\ Here \subseteq Nat
    BY DEF Tree
<1>2. PICK c \in Here : \A d \in Here : c <= d
  <2> HIDE DEF Here
  <2> QED
      BY <1>1, LeastNatural
<1>3. PICK p \in 1 .. Len(u[c]), m \in Nat : Climb(b, f, m) = u[c][p]
    BY <1>2 DEF Leads
<1>4. top \in Nat /\ c \in 0 .. top
    BY <1>2 DEF Tree
<1>5. /\ m = 0 => u[c][p] = b
      /\ m # 0 => m - 1 \in Nat /\ \E h : u[c][p] = Node(Climb(b, f, m - 1), h)
    BY <1>3, ClimbUnfolds
<1>6. c = 0
  <2> SUFFICES ASSUME c # 0 PROVE FALSE
      OBVIOUS
  <2>1. c \in 1 .. top /\ c - 1 \in 0 .. top
      BY <1>4
  <2>0. c - 1 \notin Here
      BY <1>2, <2>1
  <2> DEFINE l == u[c - 1]
  <2>2. IsLayer(l) /\ u[c] = Above(l)
      BY <2>1 DEF Tree
  <2>3. \A q \in 1 .. Len(l), r \in Nat : Climb(b, f, r) # l[q]
      BY <2>0, <2>1 DEF Leads
  <2> HIDE DEF l
  <2>4. /\ Len(u[c]) = (Len(l) + 1) \div 2 /\ Len(l) \in Nat
        /\ u[c][p] = IF 2 * p <= Len(l) THEN Node(l[2 * p - 1], l[2 * p]) ELSE l[2 * p - 1]
      BY <1>3, <2>2, LayerAbove DEF IsLayer
  <2>5. 2 * p - 1 \in 1 .. Len(l) /\ (2 * p <= Len(l) => 2 * p \in 1 .. Len(l))
    <3> DEFINE w == Len(l)
    <3>1. w \in Nat /\ p \in 1 .. (w + 1) \div 2
        BY <2>4
    <3> HIDE DEF w
    <3>2. 2 * p - 1 \in 1 .. w /\ (2 * p <= w => 2 * p \in 1 .. w)
        BY ONLY <3>1
    <3> QED
        BY <3>2 DEF w
  <2>6. 2 * p <= Len(l)
      BY <1>3, <2>3, <2>4, <2>5
  <2>7. u[c][p] = Node(l[2 * p - 1], l[2 * p])
      BY <2>4, <2>6
  <2>8. m # 0
      BY <1>5, <2>7, FreeHashes DEF IsLeaf
  <2>9. PICK h : Node(Climb(b, f, m - 1), h) = Node(l[2 * p - 1], l[2 * p])
      BY <1>5, <2>7, <2>8
  <2>10. Climb(b, f, m - 1) = l[2 * p - 1] \/ Climb(b, f, m - 1) = l[2 * p]
      BY <2>9, FreeHashes
  <2> QED
      BY <1>5, <2>3, <2>5, <2>6, <2>8, <2>10
<1>7. u[c] = leaves /\ IsLayer(leaves) /\ p \in DOMAIN leaves
    BY <1>3, <1>4, <1>6 DEF Tree, IsLayer
<1>8. m = 0
  <2> SUFFICES ASSUME m # 0 PROVE FALSE
      OBVIOUS
  <2>1. PICK h : u[c][p] = Node(Climb(b, f, m - 1), h)
      BY <1>5
  <2>2. PICK a, q : u[c][p] = Leaf(a, q)
      BY <1>7 DEF IsLeaf
  <2> QED
      BY <2>1, <2>2, FreeHashes
<1> QED
    BY <1>5, <1>7, <1>8

-----------------------------------------------------------------------------
(* The proof of an entry leads to the root of its list.                    *)

\* On the way up: past one more layer.
WayOn(p, l) == [at |-> (p.at + 1) \div 2, proof |-> p.proof \o Beside(l, p.at)]

Ways(first, layers, n, w) ==
  w = [k \in 0 .. n |-> IF k = 0 THEN [at |-> first, proof |-> <<>>]
                        ELSE WayOn(w[k - 1], layers[k])]

LEMMA WayExists ==
  ASSUME NEW first, NEW layers, NEW N \in Nat
  PROVE  \E w : Ways(first, layers, N, w)
<1> DEFINE start == [at |-> first, proof |-> <<>>]
           Bad == {n \in Nat : ~\E w : Ways(first, layers, n, w)}
<1>1. Bad = {}
  <2> SUFFICES ASSUME Bad # {}
               PROVE  FALSE
      OBVIOUS
  <2>1. PICK n \in Bad : \A m \in Bad : n <= m
      BY LeastNatural
  <2>2. CASE n = 0
    <3>1. Ways(first, layers, 0, [k \in 0 .. 0 |-> start])
        BY DEF Ways
    <3> QED
        BY <2>2, <3>1
  <2>3. CASE n # 0
    <3>1. n \in Nat /\ n - 1 \in Nat /\ n - 1 \notin Bad
        BY <2>1, <2>3
    <3>2. PICK p : Ways(first, layers, n - 1, p)
        BY <3>1
    <3> HIDE DEF start
    <3> DEFINE q == [k \in 0 .. n |-> IF k = 0 THEN start ELSE WayOn(p[k - 1], layers[k])]
    <3>3. \A k \in 0 .. n - 1 : p[k] = IF k = 0 THEN start ELSE WayOn(p[k - 1], layers[k])
        BY <3>2 DEF Ways, start
    <3>4. \A k \in 1 .. n : k - 1 \in 0 .. n - 1 /\ q[k - 1] = p[k - 1]
        BY <3>1, <3>3
    <3>5. q = [k \in 0 .. n |-> IF k = 0 THEN start ELSE WayOn(q[k - 1], layers[k])]
      <4>1. \A k \in 0 .. n : k # 0 => k \in 1 .. n
          BY <3>1
      <4> QED
          BY <3>4, <4>1
    <3>6. Ways(first, layers, n, q)
        BY <3>5 DEF Ways, start
    <3> QED
        BY <3>6
  <2> QED
      BY <2>2, <2>3
<1> QED
    BY <1>1

LEMMA Halves ==
  ASSUME NEW n \in Nat, NEW i \in 1 .. n
  PROVE  LET h == 2 * ((i + 1) \div 2)
         IN  /\ i % 2 = 0 => h = i /\ h <= n /\ h - 1 = i - 1
             /\ i % 2 # 0 => h = i + 1 /\ h - 1 = i
             /\ i % 2 # 0 /\ i < n => h <= n
             /\ i % 2 # 0 /\ ~(i < n) => ~(h <= n)
<1>1. i % 2 = 0 => 2 * ((i + 1) \div 2) = i
    OBVIOUS
<1>2. i % 2 # 0 => 2 * ((i + 1) \div 2) = i + 1
    OBVIOUS
<1> QED
    BY <1>1, <1>2

IsProof(f) == \E S : f \in Seq(S)

\* The way has led to the node of l that it is at.
OnWay(b, p, l) ==
  /\ IsProof(p.proof)
  /\ p.at \in 1 .. Len(l)
  /\ Climb(b, p.proof, Len(p.proof)) = l[p.at]

\* One layer up: the neighbour makes of a node the node above it.
LEMMA OneWayOn ==
  ASSUME NEW b, NEW p, NEW l, IsLayer(l), OnWay(b, p, l)
  PROVE  OnWay(b, WayOn(p, l), Above(l))
<1> PICK f, i : f = p.proof /\ i = p.at
    OBVIOUS
<1> PICK e, j : e = f \o Beside(l, i) /\ j = (i + 1) \div 2
    OBVIOUS
<1>a. PICK S : f \in Seq(S)
    BY DEF OnWay, IsProof
<1>b. i \in 1 .. Len(l) /\ Climb(b, f, Len(f)) = l[i]
    BY DEF OnWay
<1> SUFFICES /\ IsProof(e)
             /\ j \in 1 .. Len(Above(l))
             /\ Climb(b, e, Len(e)) = Above(l)[j]
  <2>1. /\ WayOn(p, l).at = (p.at + 1) \div 2
        /\ WayOn(p, l).proof = p.proof \o Beside(l, p.at)
      BY Zenon DEF WayOn
  <2>2. WayOn(p, l).at = j /\ WayOn(p, l).proof = e
      BY <2>1
  <2> QED
      BY <2>2 DEF OnWay
<1> DEFINE n == Len(l)
<1>0. j = (i + 1) \div 2 /\ e = f \o Beside(l, i)
    OBVIOUS
<1>1. /\ n \in Nat /\ i \in 1 .. n
      /\ Len(Above(l)) = (n + 1) \div 2
      /\ \A k \in 1 .. (n + 1) \div 2 :
           Above(l)[k] = IF 2 * k <= n THEN Node(l[2 * k - 1], l[2 * k]) ELSE l[2 * k - 1]
    BY <1>b, LayerAbove DEF IsLayer
<1> HIDE DEF n
<1>2. j \in 1 .. (n + 1) \div 2
    BY ONLY <1>0, <1>1
<1>3. Len(f) \in Nat /\ DOMAIN f = 1 .. Len(f)
    BY <1>a
<1>4. ASSUME NEW g, Beside(l, i) = <<g>>
      PROVE  IsProof(e) /\ Climb(b, e, Len(e)) = Node(l[i], g)
  <2> DEFINE T == S \cup {g}
  <2>1. f \in Seq(T) /\ <<g>> \in Seq(T)
      BY <1>a
  <2>2. /\ e \in Seq(T) /\ Len(e) = Len(f) + 1 /\ e[Len(f) + 1] = g
        /\ \A k \in 1 .. Len(f) : e[k] = f[k]
    <3>1. e = f \o <<g>>
        BY <1>0, <1>4
    <3> HIDE DEF T
    <3> QED
        BY <2>1, <3>1
  <2>3. Climb(b, e, Len(f)) = Climb(b, f, Len(f))
    <3> DEFINE m == Len(f)
    <3> HIDE DEF T
    <3>0. \A k \in 1 .. m : e[k] = f[k]
        BY ONLY <2>2
    <3>1. m \in Nat /\ m \in 0 .. m
        BY <1>3
    <3> HIDE DEF m
    <3>2. TheClimb(b, e, m)[1 .. m] = Climb(b, f, m)
        BY ONLY <3>0, <3>1, ClimbAgrees
    <3> QED
        BY <3>2 DEF Climb, m
  <2>4. Climb(b, e, Len(f) + 1) = Node(Climb(b, e, Len(f)), e[Len(f) + 1])
    <3> PICK m : m = Len(f) + 1
        OBVIOUS
    <3>1. m \in Nat /\ m # 0 /\ m - 1 = Len(f)
        BY <1>3
    <3>2. Climb(b, e, m) = Node(Climb(b, e, m - 1), e[m])
        BY ONLY <3>1, ClimbUnfolds
    <3> QED
        BY <3>1, <3>2
  <2> QED
      BY <1>b, <2>2, <2>3, <2>4 DEF IsProof
<1>5. CASE i % 2 = 0
  <2>1. 2 * j = i /\ 2 * j <= n /\ 2 * j - 1 = i - 1
      BY <1>0, <1>1, <1>5, Halves
  <2>2. Beside(l, i) = <<l[i - 1]>>
      BY <1>5 DEF Beside
  <2>3. Node(l[i], l[i - 1]) = Node(l[i - 1], l[i])
      BY DEF Node
  <2>4. Above(l)[j] = Node(l[i - 1], l[i])
      BY <1>1, <1>2, <2>1
  <2> QED
      BY <1>1, <1>2, <1>4, <2>2, <2>3, <2>4
<1>6. CASE i % 2 # 0 /\ i < n
  <2>1. 2 * j = i + 1 /\ 2 * j <= n /\ 2 * j - 1 = i
      BY <1>0, <1>1, <1>6, Halves
  <2>2. Beside(l, i) = <<l[i + 1]>>
      BY <1>6 DEF Beside, n
  <2>3. Above(l)[j] = Node(l[i], l[i + 1])
      BY <1>1, <1>2, <2>1
  <2> QED
      BY <1>1, <1>2, <1>4, <2>2, <2>3
<1>7. CASE i % 2 # 0 /\ ~(i < n)
  <2>1. ~(2 * j <= n) /\ 2 * j - 1 = i
      BY <1>0, <1>1, <1>7, Halves
  <2>2. Beside(l, i) = <<>>
      BY <1>7 DEF Beside, n
  <2>3. f \o <<>> = f
      OBVIOUS
  <2>4. Above(l)[j] = l[i]
      BY <1>1, <1>2, <2>1
  <2> QED
      BY <1>0, <1>1, <1>2, <1>a, <1>b, <2>2, <2>3, <2>4 DEF IsProof
<1> QED
    BY <1>5, <1>6, <1>7
LEMMA ProofLeads ==
  ASSUME NEW leaves, IsLayer(leaves), NEW leaf, \E i \in DOMAIN leaves : leaves[i] = leaf
  PROVE  LET p == GetMerkleProof(leaves, leaf)
         IN  /\ IsProof(p)
             /\ Climb(leaf, p, Len(p)) = GetMerkleRoot(leaves)
<1> DEFINE first == CHOOSE i \in DOMAIN leaves :
                      leaves[i] = leaf /\ \A j \in 1 .. (i - 1) : leaves[j] # leaf
           layers == Layers(leaves)
           w == CHOOSE v : Ways(first, layers, Len(layers), v)
<1>1. GetMerkleProof(leaves, leaf) = w[Len(layers)].proof
    BY DEF GetMerkleProof, Ways, WayOn
<1>2. first \in DOMAIN leaves /\ leaves[first] = leaf
  <2> DEFINE B == {i \in DOMAIN leaves : leaves[i] = leaf}
  <2>1. B \subseteq Nat /\ B # {} /\ \A i \in DOMAIN leaves : i \in Nat
      BY DEF IsLayer
  <2>2. PICK i \in B : \A j \in B : i <= j
    <3> HIDE DEF B
    <3> QED
        BY <2>1, LeastNatural
  <2>3. \A j \in 1 .. (i - 1) : j \in DOMAIN leaves => leaves[j] # leaf
      BY <2>1, <2>2
  <2>4. \A j \in 1 .. (i - 1) : j \in DOMAIN leaves
      BY <2>2 DEF IsLayer
  <2> QED
      BY <2>2, <2>3, <2>4
<1>3. PICK u, top : Tree(leaves, u, top)
    BY TreeExists
<1>4. /\ top \in Nat /\ layers = [k \in 1 .. top + 1 |-> u[k - 1]]
      /\ u[0] = leaves /\ \A k \in 1 .. top : u[k] = Above(u[k - 1])
      /\ \A k \in 0 .. top : IsLayer(u[k])
      /\ Len(u[top]) = 1
    BY <1>3 DEF Tree
<1>5. Len(layers) = top + 1
  <2> DEFINE T == {u[k - 1] : k \in 1 .. top + 1}
  <2>1. layers \in [1 .. top + 1 -> T] /\ top + 1 \in Nat
      BY <1>4
  <2> HIDE DEF T, layers
  <2> QED
      BY ONLY <2>1
<1> HIDE DEF first, layers
<1>6. Ways(first, layers, top + 1, w)
  <2>1. top + 1 \in Nat
      BY <1>4
  <2>2. \E v : Ways(first, layers, Len(layers), v)
      BY <2>1, <1>5, WayExists
  <2>3. Ways(first, layers, Len(layers), w)
      BY <2>2
  <2> QED
      BY <2>3, <1>5
<1> HIDE DEF w
<1>7. /\ w[0] = [at |-> first, proof |-> <<>>]
      /\ \A k \in 1 .. top + 1 : w[k] = WayOn(w[k - 1], u[k - 1])
  <2>1. \A k \in 0 .. top + 1 : w[k] = IF k = 0 THEN [at |-> first, proof |-> <<>>]
                                       ELSE WayOn(w[k - 1], layers[k])
      BY <1>6 DEF Ways
  <2>2. 0 \in 0 .. top + 1 /\ \A k \in 1 .. top + 1 : k \in 0 .. top + 1 /\ k # 0
      BY <1>4
  <2>3. \A k \in 1 .. top + 1 : layers[k] = u[k - 1]
      BY <1>4
  <2> QED
      BY <2>1, <2>2, <2>3
<1> DEFINE There(k) == OnWay(leaf, w[k], u[k])
           Bad == {k \in 0 .. top : ~There(k)}
<1>8. There(0)
  <2>1. Len(<<>>) = 0 /\ <<>> \in Seq({})
      OBVIOUS
  <2>2. Climb(leaf, <<>>, 0) = leaf
      BY ClimbUnfolds
  <2> QED
      BY <1>2, <1>4, <1>7, <2>1, <2>2 DEF IsLayer, OnWay, IsProof
<1>9. ASSUME NEW k \in 1 .. top, There(k - 1)
      PROVE  There(k)
  <2>1. k \in 1 .. top + 1 /\ k - 1 \in 0 .. top
      BY <1>4
  <2>2. IsLayer(u[k - 1]) /\ u[k] = Above(u[k - 1])
      BY <1>4, <2>1
  <2>3. w[k] = WayOn(w[k - 1], u[k - 1])
      BY <1>7, <2>1
  <2> QED
      BY <1>9, <2>2, <2>3, OneWayOn
<1> HIDE DEF There
<1>10. Bad = {}
  <2> SUFFICES ASSUME Bad # {}
               PROVE  FALSE
      OBVIOUS
  <2>1. PICK k \in Bad : \A m \in Bad : k <= m
    <3>1. Bad \subseteq Nat
        OBVIOUS
    <3> HIDE DEF Bad
    <3> QED
        BY <3>1, LeastNatural
  <2>2. k \in 1 .. top /\ k - 1 \in 0 .. top
      BY <1>4, <1>8, <2>1
  <2>3. There(k - 1)
      BY <2>1, <2>2
  <2> QED
      BY <1>9, <2>1, <2>2, <2>3
<1>11. There(top)
  <2>1. top \in 0 .. top
      BY <1>4
  <2> QED
      BY <1>10, <2>1
\* The root has no neighbour.
<1> PICK f, l : f = w[top].proof /\ l = u[top]
    OBVIOUS
<1>12. /\ w[top].at = 1 /\ Len(l) = 1
       /\ IsProof(f)
       /\ Climb(leaf, f, Len(f)) = l[1]
    BY <1>4, <1>11 DEF There, OnWay
<1>13. w[top + 1] = WayOn(w[top], l)
  <2>1. top + 1 \in 1 .. top + 1 /\ (top + 1) - 1 = top
      BY <1>4
  <2> QED
      BY <1>7, <2>1
<1>14. w[top + 1].proof = f
  <2>1. Beside(l, 1) = <<>>
      BY <1>12 DEF Beside
  <2>2. f \o <<>> = f
      BY <1>12 DEF IsProof
  <2>3. w[top].proof \o Beside(l, w[top].at) = f
      BY <1>12, <2>1, <2>2
  <2> QED
      BY <1>13, <2>3 DEF WayOn
<1>15. GetMerkleRoot(leaves) = l[1]
    BY <1>3, RootIsAlone
<1>16. GetMerkleProof(leaves, leaf) = f
    BY <1>1, <1>5, <1>14
<1> QED
    BY <1>12, <1>15, <1>16

-----------------------------------------------------------------------------
(* The trees of the lists.                                                 *)

LEMMA LeavesOfList ==
  ASSUME NEW list \in Lists
  PROVE  /\ IsLayer(Leaves(list)) /\ DOMAIN Leaves(list) = DOMAIN list
         /\ \A i \in DOMAIN list : /\ list[i] \in [address : Address, amount : Nat]
                                   /\ Leaves(list)[i] = Leaf(list[i].address, list[i].amount)
<1> DEFINE R == [address : Address, amount : Nat]
           T == {Leaf(r.address, r.amount) : r \in R}
           l == [i \in DOMAIN list |-> Leaf(list[i].address, list[i].amount)]
<1>1. list \in Seq(R) /\ list # <<>>
    BY AirdropAssumption
<1>2. \A i \in DOMAIN list : list[i] \in R
  <2> HIDE DEF R
  <2> QED
      BY <1>1
<1>3. Len(list) \in Nat \ {0} /\ DOMAIN list = 1 .. Len(list)
    BY <1>1
<1>4. l \in [1 .. Len(list) -> T]
    BY <1>2, <1>3
<1> HIDE DEF T
<1>5. Len(l) = Len(list)
    BY <1>3, <1>4
<1> QED
    BY <1>2, <1>3, <1>5 DEF Leaves, IsLayer

(* Only the entries of a list lead to its root, by whatever proof: this is *)
(* what the contract relies on (contract.rs:158-184).                      *)
THEOREM OnlyListedLead ==
  ASSUME NEW list \in Lists, NEW a \in Address, NEW n \in Nat, NEW proof \in Proofs,
         RootOf(a, n, proof) = MerkleRoot[list]
  PROVE  [address |-> a, amount |-> n] \in ToSet(list)
<1> DEFINE leaves == Leaves(list)
           b == Leaf(a, n)
<1>1. /\ IsLayer(leaves) /\ DOMAIN leaves = DOMAIN list
      /\ \A i \in DOMAIN list : /\ list[i] \in [address : Address, amount : Nat]
                                /\ leaves[i] = Leaf(list[i].address, list[i].amount)
    BY LeavesOfList
<1>2. PICK u, top : Tree(leaves, u, top)
    BY <1>1, TreeExists
<1>3. /\ top \in 0 .. top /\ 1 \in 1 .. Len(u[top])
      /\ MerkleRoot[list] = u[top][1]
  <2>1. top \in Nat /\ Len(u[top]) = 1
      BY <1>2 DEF Tree
  <2>2. MerkleRoot[list] = GetMerkleRoot(leaves)
      BY DEF MerkleRoot
  <2>3. GetMerkleRoot(leaves) = u[top][1]
      BY <1>2, RootIsAlone
  <2> QED
      BY <2>1, <2>2, <2>3
<1>4. Len(proof) \in Nat /\ RootOf(a, n, proof) = Climb(b, proof, Len(proof))
  <2>1. proof \in Seq(ToSet(proof))
      BY AirdropAssumption
  <2> QED
      BY <2>1, FoldClimbs DEF RootOf
<1>5. (\A i \in DOMAIN leaves : IsLeaf(leaves[i])) /\ IsLeaf(b)
    BY <1>1 DEF IsLeaf
<1> HIDE DEF leaves, b
<1>6. \E j \in DOMAIN leaves : leaves[j] = b
  <2>1. Leads(b, proof, u[top])
      BY <1>3, <1>4 DEF Leads
  <2> QED
      BY <1>2, <1>5, <2>1, LedToTree
<1>7. PICK j \in DOMAIN list : Leaf(list[j].address, list[j].amount) = b
    BY <1>1, <1>6
<1>8. list[j].address = a /\ list[j].amount = n
    BY <1>7, FreeHashes DEF b
<1>9. list[j] = [address |-> a, amount |-> n]
    BY <1>1, <1>8
<1> QED
    BY <1>9 DEF ToSet

(* The proof of every entry leads to the root of its list, however long    *)
(* the list is and wherever an entry is in it (airdrop.ts:16).             *)
THEOREM ListedLead ==
  ASSUME NEW list \in Lists, NEW e \in ToSet(list)
  PROVE  RootOf(e.address, e.amount, MerkleProof[list][e]) = MerkleRoot[list]
<1> DEFINE leaves == Leaves(list)
           leaf == Leaf(e.address, e.amount)
           p == GetMerkleProof(leaves, leaf)
<1>1. /\ IsLayer(leaves) /\ DOMAIN leaves = DOMAIN list
      /\ \A i \in DOMAIN list : leaves[i] = Leaf(list[i].address, list[i].amount)
    BY LeavesOfList
<1>2. PICK i \in DOMAIN list : list[i] = e
    BY DEF ToSet
<1>3. leaves[i] = leaf /\ i \in DOMAIN leaves
    BY <1>1, <1>2
<1>4. MerkleRoot[list] = GetMerkleRoot(leaves) /\ MerkleProof[list][e] = p
    BY DEF MerkleRoot, MerkleProof
<1> HIDE DEF leaves
<1>5. /\ IsProof(p)
      /\ Climb(leaf, p, Len(p)) = GetMerkleRoot(leaves)
    BY <1>1, <1>3, ProofLeads
<1>6. FoldLeft(Node, leaf, p) = Climb(leaf, p, Len(p))
  <2> HIDE DEF p
  <2> QED
      BY <1>5, FoldClimbs DEF IsProof
<1> QED
    BY <1>4, <1>5, <1>6 DEF RootOf

-----------------------------------------------------------------------------
(* The contract.                                                           *)

StageRecord == [list : Lists, expires : Nat \cup {Never}, start : Nat]

\* Nothing is claimed of a stage that is still to come.
ClaimedStages == \A k \in claim : k[2] \in DOMAIN stages

\* A claim pays.
ClaimsPay == \A k \in claim : received[k] # 0

AInv == TypeOK /\ ClaimedStages /\ ClaimedAsListed /\ ClaimsPay

\* What a step never does to a stage.
KeepsStages ==
  /\ \A s \in DOMAIN stages : s \in DOMAIN stages' /\ stages'[s] = stages[s]
  /\ owner = NoOwner => owner' = NoOwner /\ stages' = stages

LEMMA InitAInv == Init => AInv
<1> SUFFICES ASSUME Init PROVE AInv
    OBVIOUS
<1>1. stages \in [1 .. latest_stage -> StageRecord]
  <2>1. 1 .. latest_stage = {} /\ DOMAIN stages = {}
      BY DEF Init
  <2>2. stages = [s \in {} |-> 0]
      BY <2>1 DEF Init
  <2> QED
      BY <2>1, <2>2
<1>2. TypeOK
    BY <1>1, AirdropAssumption DEF Init, TypeOK, Stage, StageRecord
<1>3. ClaimedStages /\ ClaimedAsListed /\ ClaimsPay
    BY DEF Init, ClaimedStages, ClaimedAsListed, ClaimsPay, Stage
<1> QED
    BY <1>2, <1>3 DEF AInv

(* A step that concerns neither stages nor claims.                         *)
LEMMA AsideKeeps ==
  ASSUME AInv, TypeOK', UNCHANGED <<stages, claim, received>>,
         owner = NoOwner => owner' = NoOwner
  PROVE  AInv' /\ KeepsStages
<1>1. ClaimedStages' /\ ClaimedAsListed' /\ ClaimsPay'
    BY DEF AInv, ClaimedStages, ClaimedAsListed, ClaimsPay
<1> QED
    BY <1>1 DEF AInv, KeepsStages

LEMMA NextBlockKeeps == AInv /\ NextBlock => AInv' /\ KeepsStages
<1> SUFFICES ASSUME AInv, NextBlock PROVE AInv' /\ KeepsStages
    OBVIOUS
<1>1. TypeOK'
    BY DEF AInv, TypeOK, NextBlock
<1> QED
    BY <1>1, AsideKeeps DEF NextBlock

LEMMA FundKeeps ==
  ASSUME AInv, NEW amount \in FundAmounts, Fund(amount)
  PROVE  AInv' /\ KeepsStages
<1>1. TypeOK'
    BY AirdropAssumption DEF AInv, TypeOK, Fund
<1> QED
    BY <1>1, AsideKeeps DEF Fund

LEMMA UpdateConfigKeeps ==
  ASSUME AInv, NEW sender \in Address, NEW new_owner \in Address \cup {NoOwner},
         UpdateConfig(sender, new_owner)
  PROVE  AInv' /\ KeepsStages
<1>1. TypeOK'
    BY DEF AInv, TypeOK, UpdateConfig
<1>2. owner # NoOwner
    BY AirdropAssumption DEF UpdateConfig
<1> QED
    BY <1>1, <1>2, AsideKeeps DEF UpdateConfig

(* A root is put behind those that are there.                              *)
LEMMA RegisterKeeps ==
  ASSUME AInv, NEW sender \in Address, NEW list \in Lists,
         NEW expires \in Expirations, NEW start \in Starts,
         RegisterMerkleRoot(sender, list, expires, start)
  PROVE  AInv' /\ KeepsStages
<1> DEFINE rec == [list |-> list, expires |-> expires, start |-> start]
           stage == latest_stage + 1
<1>1. /\ latest_stage \in Nat /\ latest_stage < MaxStage /\ MaxStage \in Nat
      /\ latest_stage' = stage
      /\ stages' = Put(stages, stage, rec)
      /\ DOMAIN stages = 1 .. latest_stage
      /\ \A s \in DOMAIN stages : stages[s] \in StageRecord
    BY AirdropAssumption
    DEF AInv, TypeOK, StageRecord, RegisterMerkleRoot, NextStage
<1>2. rec \in StageRecord
    BY AirdropAssumption DEF StageRecord
<1>3. DOMAIN stages' = 1 .. latest_stage'
    BY <1>1 DEF Put
<1>4. \A s \in DOMAIN stages' : stages'[s] = IF s = stage THEN rec ELSE stages[s]
    BY <1>1 DEF Put
<1>5. stages' \in [1 .. latest_stage' -> StageRecord]
  <2>1. \A s \in 1 .. latest_stage' : stages'[s] \in StageRecord
      BY <1>1, <1>2, <1>3, <1>4
  <2>2. stages' = [s \in DOMAIN stages' |-> stages'[s]]
      BY <1>1 DEF Put
  <2> QED
      BY <2>1, <2>2, <1>3
<1>6. TypeOK'
    BY <1>1, <1>5 DEF AInv, TypeOK, StageRecord, RegisterMerkleRoot, Stage
<1>7. \A s \in DOMAIN stages : s \in DOMAIN stages' /\ stages'[s] = stages[s]
    BY <1>1, <1>3, <1>4
<1>8. ClaimedStages'
    BY <1>7 DEF AInv, ClaimedStages, RegisterMerkleRoot
<1>9. ClaimedAsListed'
  <2> SUFFICES ASSUME NEW a \in Address, NEW s \in Stage
               PROVE  IF <<a, s>> \in claim'
                      THEN [address |-> a, amount |-> received'[<<a, s>>]]
                             \in ToSet(stages'[s].list)
                      ELSE received'[<<a, s>>] = 0
      BY DEF ClaimedAsListed
  <2>1. claim' = claim /\ received' = received
      BY DEF RegisterMerkleRoot
  <2>2. <<a, s>> \in claim => stages'[s] = stages[s]
    <3>1. <<a, s>> \in claim => s \in DOMAIN stages
        BY DEF AInv, ClaimedStages
    <3> QED
        BY <3>1, <1>7
  <2> QED
      BY <2>1, <2>2 DEF AInv, ClaimedAsListed
<1>10. KeepsStages
    BY <1>7, AirdropAssumption DEF KeepsStages, RegisterMerkleRoot
<1>11. ClaimsPay'
    BY DEF AInv, ClaimsPay, RegisterMerkleRoot
<1> QED
    BY <1>6, <1>8, <1>9, <1>10, <1>11 DEF AInv

(* A claim is the first of its sender for the stage, and of a listed       *)
(* amount.                                                                 *)
LEMMA ClaimKeeps ==
  ASSUME AInv, NEW sender \in Address, NEW stage \in Stage,
         NEW amount \in Amounts, NEW proof \in Proofs,
         Claim(sender, stage, amount, proof)
  PROVE  AInv' /\ KeepsStages
<1>1. /\ stage \in DOMAIN stages
      /\ <<sender, stage>> \notin claim
      /\ claim' = claim \cup {<<sender, stage>>}
      /\ received' = [received EXCEPT ![<<sender, stage>>] = @ + amount]
      /\ UNCHANGED <<now, owner, latest_stage, stages, funded>>
    BY DEF Claim, MayClaim, ClaimKey
<1>2. received \in [Address \X Stage -> Nat] /\ amount \in Nat /\ 0 < amount
    BY AirdropAssumption DEF AInv, TypeOK, Claim, MayClaim
<1>3. received[<<sender, stage>>] = 0
    BY <1>1 DEF AInv, ClaimedAsListed
<1>4. received'[<<sender, stage>>] = amount
    BY <1>1, <1>2, <1>3
<1>5. \A a \in Address, s \in Stage :
        <<a, s>> # <<sender, stage>> => received'[<<a, s>>] = received[<<a, s>>]
    BY <1>1, <1>2
<1>6. [address |-> sender, amount |-> amount] \in ToSet(stages[stage].list)
  <2>1. RootOf(sender, amount, proof) = MerkleRoot[stages[stage].list]
      BY DEF Claim, MayClaim
  <2>2. stages[stage].list \in Lists
      BY <1>1 DEF AInv, TypeOK
  <2> QED
      BY <1>2, <2>1, <2>2, OnlyListedLead
<1>7. TypeOK'
  <2>1. claim' \subseteq Address \X Stage
      BY <1>1 DEF AInv, TypeOK
  <2>2. received' \in [Address \X Stage -> Nat]
      BY <1>1, <1>2
  <2>3. already_claimed' \in [Stage -> Nat]
      BY <1>2 DEF AInv, TypeOK, Claim, Paid
  <2>4. balance' \in Nat
      BY <1>2 DEF AInv, TypeOK, Claim, MayClaim
  <2> QED
      BY <1>1, <2>1, <2>2, <2>3, <2>4 DEF AInv, TypeOK
<1>8. ClaimedStages'
    BY <1>1 DEF AInv, ClaimedStages
<1>9. ClaimedAsListed'
  <2> SUFFICES ASSUME NEW a \in Address, NEW s \in Stage
               PROVE  IF <<a, s>> \in claim'
                      THEN [address |-> a, amount |-> received'[<<a, s>>]]
                             \in ToSet(stages'[s].list)
                      ELSE received'[<<a, s>>] = 0
      BY DEF ClaimedAsListed
  <2>1. CASE <<a, s>> = <<sender, stage>>
      BY <2>1, <1>1, <1>4, <1>6
  <2>2. CASE <<a, s>> # <<sender, stage>>
      BY <2>2, <1>1, <1>5 DEF AInv, ClaimedAsListed
  <2> QED
      BY <2>1, <2>2
<1>10. KeepsStages
    BY <1>1 DEF KeepsStages
<1>11. ClaimsPay'
  <2> SUFFICES ASSUME NEW k \in claim' PROVE received'[k] # 0
      BY DEF ClaimsPay
  <2>1. CASE k = <<sender, stage>>
      BY <2>1, <1>2, <1>4
  <2>2. CASE k # <<sender, stage>>
    <3>1. k \in claim /\ k \in Address \X Stage
        BY <1>1, <2>2 DEF AInv, TypeOK
    <3>2. received'[k] = received[k]
        BY <1>5, <2>2, <3>1
    <3> QED
        BY <3>1, <3>2 DEF AInv, ClaimsPay
  <2> QED
      BY <2>1, <2>2
<1> QED
    BY <1>7, <1>8, <1>9, <1>10, <1>11 DEF AInv

LEMMA StepAInv == AInv /\ [Next]_vars => AInv' /\ KeepsStages
<1> SUFFICES ASSUME AInv, [Next]_vars PROVE AInv' /\ KeepsStages
    OBVIOUS
<1>1. CASE UNCHANGED vars
  <2>1. TypeOK'
      BY <1>1 DEF vars, AInv, TypeOK
  <2> QED
      BY <1>1, <2>1, AsideKeeps DEF vars
<1> QED
    BY <1>1, NextBlockKeeps, FundKeeps, UpdateConfigKeeps, RegisterKeeps, ClaimKeeps
    DEF Next

LEMMA AlwaysAInv == Spec => []AInv
<1>1. AInv /\ [Next]_vars => AInv'
    BY StepAInv
<1> QED
    BY <1>1, InitAInv, PTL DEF Spec

-----------------------------------------------------------------------------
(* The sums.                                                               *)

\* What the addresses got of a stage.
GotOf(r, s) == [a \in Address |-> r[<<a, s>>]]

LEMMA InitClaimsAddUp == Init => ClaimsAddUp
<1> SUFFICES ASSUME Init PROVE ClaimsAddUp
    OBVIOUS
<1>1. IsFiniteSet(Address) /\ IsFiniteSet(Stage)
    BY AirdropAssumption, FS_Interval DEF Stage
<1>2. ASSUME NEW s \in Stage
      PROVE  SumFunction(GotOf(received, s)) = 0
  <2>1. /\ DOMAIN GotOf(received, s) = Address
        /\ \A a \in Address : GotOf(received, s)[a] = 0
      BY DEF GotOf, Init
  <2> QED
      BY <1>1, <2>1, SumOfZeros DEF SumFunction
<1>3. SumFunction(already_claimed) = 0
  <2>1. /\ DOMAIN already_claimed = Stage
        /\ \A s \in Stage : already_claimed[s] = 0
      BY DEF Init
  <2> QED
      BY <1>1, <2>1, SumOfZeros DEF SumFunction
<1> QED
    BY <1>2, <1>3 DEF ClaimsAddUp, GotOf, Init

(* A claim adds its amount to the total of its stage, to what its sender   *)
(* got of it, and takes it from the balance.                               *)
LEMMA ClaimAddsUp ==
  ASSUME AInv, ClaimsAddUp, NEW sender \in Address, NEW stage \in Stage,
         NEW amount \in Amounts, NEW proof \in Proofs,
         Claim(sender, stage, amount, proof)
  PROVE  ClaimsAddUp'
<1>1. /\ IsFiniteSet(Address) /\ IsFiniteSet(Stage)
      /\ amount \in Nat
  <2>1. IsFiniteSet(Address) /\ amount \in Nat /\ MaxStage \in Nat
      BY AirdropAssumption
  <2>2. \A n \in Nat : IsFiniteSet(1 .. n)
      BY ONLY FS_Interval
  <2> QED
      BY <2>1, <2>2 DEF Stage
<1>2. /\ received \in [Address \X Stage -> Nat]
      /\ received' = [received EXCEPT ![<<sender, stage>>] = @ + amount]
      /\ already_claimed \in [Stage -> Nat]
      /\ already_claimed' = [already_claimed EXCEPT ![stage] = @ + amount]
      /\ balance \in Nat /\ funded \in Nat
      /\ balance' = balance - amount /\ funded' = funded
    BY DEF AInv, TypeOK, Claim, Paid
<1>3. ASSUME NEW s \in Stage
      PROVE  already_claimed'[s] = SumFunction(GotOf(received', s))
  <2>1. already_claimed[s] = SumFunctionOnSet(GotOf(received, s), Address)
    <3>1. DOMAIN GotOf(received, s) = Address
        BY DEF GotOf
    <3> QED
        BY <3>1 DEF ClaimsAddUp, GotOf, SumFunction
  <2>2. DOMAIN GotOf(received', s) = Address
      BY DEF GotOf
  <2>3. CASE s # stage
    <3>1. \A a \in Address : GotOf(received', s)[a] = GotOf(received, s)[a]
        BY <1>2, <2>3 DEF GotOf
    <3>2. SumFunctionOnSet(GotOf(received', s), Address)
            = SumFunctionOnSet(GotOf(received, s), Address)
        BY <1>1, <3>1, SumOfSame
    <3> QED
        BY <1>2, <2>1, <2>2, <2>3, <3>2 DEF SumFunction
  <2>4. CASE s = stage
    <3>1. /\ \A a \in Address : GotOf(received, s)[a] \in Int
          /\ GotOf(received', s)[sender] = GotOf(received, s)[sender] + amount
          /\ \A a \in Address \ {sender} : GotOf(received', s)[a] = GotOf(received, s)[a]
        BY <1>1, <1>2, <2>4 DEF GotOf
    <3>2. GotOf(received', s)[sender] \in Int
        BY <1>1, <3>1
    <3>3. SumFunctionOnSet(GotOf(received', s), Address)
            = SumFunctionOnSet(GotOf(received, s), Address)
                - GotOf(received, s)[sender] + GotOf(received', s)[sender]
        BY <1>1, <3>1, <3>2, SumOfChanged
    <3>4. SumFunctionOnSet(GotOf(received, s), Address) \in Int
        BY <1>1, <3>1, SumIsInt
    <3>5. SumFunctionOnSet(GotOf(received', s), Address)
            = SumFunctionOnSet(GotOf(received, s), Address) + amount
        BY <1>1, <3>1, <3>3, <3>4
    <3>6. already_claimed'[s] = already_claimed[s] + amount
        BY <1>2, <2>4
    <3> QED
        BY <2>1, <2>2, <3>5, <3>6 DEF SumFunction
  <2> QED
      BY <2>3, <2>4
<1>4. SumFunction(already_claimed') = SumFunction(already_claimed) + amount
  <2>1. /\ \A s \in Stage : already_claimed[s] \in Int /\ already_claimed'[s] \in Int
        /\ already_claimed'[stage] = already_claimed[stage] + amount
        /\ \A s \in Stage \ {stage} : already_claimed'[s] = already_claimed[s]
        /\ DOMAIN already_claimed = Stage /\ DOMAIN already_claimed' = Stage
      BY <1>1, <1>2
  <2>2. SumFunctionOnSet(already_claimed', Stage)
          = SumFunctionOnSet(already_claimed, Stage)
              - already_claimed[stage] + already_claimed'[stage]
      BY <1>1, <2>1, SumOfChanged
  <2>3. SumFunctionOnSet(already_claimed, Stage) \in Int
      BY <1>1, <2>1, SumIsInt
  <2> QED
      BY <1>1, <2>1, <2>2, <2>3 DEF SumFunction
<1>5. SumFunction(already_claimed) \in Int
  <2>1. DOMAIN already_claimed = Stage /\ \A s \in Stage : already_claimed[s] \in Int
      BY <1>2
  <2> QED
      BY <1>1, <2>1, SumIsInt DEF SumFunction
<1>6. balance' + SumFunction(already_claimed') = funded'
    BY <1>1, <1>2, <1>4, <1>5 DEF ClaimsAddUp
<1> QED
    BY <1>3, <1>6 DEF ClaimsAddUp, GotOf

LEMMA StepClaimsAddUp == AInv /\ ClaimsAddUp /\ [Next]_vars => ClaimsAddUp'
<1> SUFFICES ASSUME AInv, ClaimsAddUp, [Next]_vars PROVE ClaimsAddUp'
    OBVIOUS
<1>1. ASSUME UNCHANGED <<already_claimed, received>>,
             balance' - balance = funded' - funded,
             balance' \in Int, funded' \in Int
      PROVE  ClaimsAddUp'
  <2>1. SumFunction(already_claimed) \in Int
    <3>1. DOMAIN already_claimed = Stage /\ \A s \in Stage : already_claimed[s] \in Int
        BY DEF AInv, TypeOK
    <3>2. IsFiniteSet(Stage)
        BY AirdropAssumption, FS_Interval DEF Stage
    <3> QED
        BY <3>1, <3>2, SumIsInt DEF SumFunction
  <2>2. balance \in Int /\ funded \in Int
      BY DEF AInv, TypeOK
  <2>3. \A s \in Stage :
          already_claimed[s] = SumFunction([a \in Address |-> received[<<a, s>>]])
      BY DEF ClaimsAddUp
  <2>4. balance + SumFunction(already_claimed) = funded
      BY DEF ClaimsAddUp
  <2>5. balance' + SumFunction(already_claimed) = funded'
      BY <1>1, <2>1, <2>2, <2>4
  <2> QED
      BY <1>1, <2>3, <2>5 DEF ClaimsAddUp
<1>2. ASSUME UNCHANGED <<already_claimed, received, balance, funded>>
      PROVE  ClaimsAddUp'
    BY <1>2 DEF ClaimsAddUp
<1>3. CASE NextBlock
    BY <1>2, <1>3 DEF NextBlock
<1>4. ASSUME NEW amount \in FundAmounts, Fund(amount)
      PROVE  ClaimsAddUp'
  <2>1. amount \in Nat /\ balance \in Nat /\ funded \in Nat
      BY AirdropAssumption DEF AInv, TypeOK
  <2> QED
      BY <1>1, <1>4, <2>1 DEF Fund
<1>5. ASSUME NEW sender \in Address, NEW new_owner \in Address \cup {NoOwner},
             UpdateConfig(sender, new_owner)
      PROVE  ClaimsAddUp'
    BY <1>2, <1>5 DEF UpdateConfig
<1>6. ASSUME NEW sender \in Address, NEW list \in Lists,
             NEW expires \in Expirations, NEW start \in Starts,
             RegisterMerkleRoot(sender, list, expires, start)
      PROVE  ClaimsAddUp'
    BY <1>2, <1>6 DEF RegisterMerkleRoot
<1>7. CASE UNCHANGED vars
    BY <1>2, <1>7 DEF vars
<1> QED
    BY <1>3, <1>4, <1>5, <1>6, <1>7, ClaimAddsUp DEF Next

-----------------------------------------------------------------------------
(* The results.                                                            *)

(* Every variable of the airdrop keeps its type; in particular the stages  *)
(* have no gaps (contract.rs:110).                                         *)
THEOREM TypeCorrect == Spec => []TypeOK
<1>1. AInv => TypeOK
    BY DEF AInv
<1> QED
    BY <1>1, AlwaysAInv, PTL

(* An address gets of each stage nothing, or one amount that the list of   *)
(* the stage gives it, whatever it claims (contract.rs:131).               *)
THEOREM ListedOnce == Spec => []ClaimedAsListed
<1>1. AInv => ClaimedAsListed
    BY DEF AInv
<1> QED
    BY <1>1, AlwaysAInv, PTL

(* Registered stages stay as they are, and without an owner there are no   *)
(* further ones (contract.rs:90).                                          *)
THEOREM StagesAreKept == Spec => StagesStay
<1>1. AInv /\ [Next]_vars =>
        [/\ \A s \in DOMAIN stages : s \in DOMAIN stages' /\ stages'[s] = stages[s]
         /\ owner = NoOwner => owner' = NoOwner /\ stages' = stages]_vars
    BY StepAInv DEF KeepsStages
<1> QED
    BY <1>1, AlwaysAInv, PTL DEF Spec, StagesStay

(* AlreadyClaimed of a stage is what was paid for it, and all payments     *)
(* came out of what the contract was sent (contract.rs:190).               *)
THEOREM PaidOutOfFunds == Spec => []ClaimsAddUp
<1>1. AInv /\ ClaimsAddUp /\ [Next]_vars => ClaimsAddUp'
    BY StepClaimsAddUp
<1> QED
    BY <1>1, InitClaimsAddUp, AlwaysAInv, PTL DEF Spec

(* Whoever is listed can claim with the proof that the helpers give out,   *)
(* while the stage runs and the tokens last, until it has claimed of that  *)
(* stage: whatever the size of the tree, whatever was registered and       *)
(* claimed before (airdrop.ts:16; contract.rs:131).                        *)
THEOREM ListedAreServed == Spec => []ListedMayClaim
<1>1. ASSUME AInv
      PROVE  ListedMayClaim
  <2> SUFFICES ASSUME NEW s \in DOMAIN stages, NEW e \in ToSet(stages[s].list),
                      stages[s].start <= now,
                      stages[s].expires = Never \/ now < stages[s].expires,
                      received[<<e.address, s>>] = 0,
                      0 < e.amount, e.amount <= balance
               PROVE  MayClaim(e.address, s, e.amount, MerkleProof[stages[s].list][e])
      BY DEF ListedMayClaim
  <2>1. stages[s].list \in Lists
      BY <1>1 DEF AInv, TypeOK
  <2>2. RootOf(e.address, e.amount, MerkleProof[stages[s].list][e]) = MerkleRoot[stages[s].list]
      BY <2>1, ListedLead
  <2>3. <<e.address, s>> \notin claim
      BY <1>1 DEF AInv, ClaimsPay
  <2> QED
      BY <2>2, <2>3 DEF MayClaim
<1> QED
    BY <1>1, AlwaysAInv, PTL
=============================================================================
