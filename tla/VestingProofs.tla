---------------------------- MODULE VestingProofs ----------------------------
(***************************************************************************)
(* Proofs about Vesting, for every set of addresses, every request and any *)
(* block times and bounds.                                                 *)
(*                                                                         *)
(* The argument rests on three things: the vested share is a floor         *)
(* division that grows with time and stays below the amount (DivMono,      *)
(* DivShare), a save at the height below the current block leaves earlier  *)
(* answers alone when no later height was logged (SaveFrozen), every       *)
(* account keeps its dates in order (GoodAccounts), and the latest total   *)
(* is that of the latest records (LatestMatch).                            *)
(***************************************************************************)
EXTENDS Vesting, SumProofs

-----------------------------------------------------------------------------
(* Arithmetic.                                                             *)

\* What the quotient of a floor division is.
LEMMA DivFloor ==
  ASSUME NEW x \in Nat, NEW d \in Nat, d > 0
  PROVE  /\ x \div d \in Nat
         /\ (x \div d) * d <= x
         /\ x < (x \div d) * d + d
BY SMT

\* A factor that is not zero can be cancelled, up to rounding.
LEMMA Cancel ==
  ASSUME NEW p \in Int, NEW q \in Int, NEW d \in Nat, d > 0,
         p * d < (q + 1) * d
  PROVE  p <= q
BY SMT

\* Products of naturals are naturals and grow with a factor.
LEMMA MulMono ==
  ASSUME NEW a \in Nat, NEW e \in Nat, NEW f \in Nat, e <= f
  PROVE  a * e \in Nat /\ a * e <= a * f
BY SMT

\* Floor division by the same divisor keeps the order.
LEMMA DivMono ==
  ASSUME NEW x \in Nat, NEW y \in Nat, NEW d \in Nat, d > 0, x <= y
  PROVE  x \div d <= y \div d
<1> DEFINE p == x \div d
           q == y \div d
<1>1. p \in Nat /\ p * d <= x
  BY DivFloor
<1>2. q \in Nat /\ y < q * d + d
  BY DivFloor
<1>3. q * d + d = (q + 1) * d
  BY <1>2, SMT
<1>4. p * d < (q + 1) * d
  BY <1>1, <1>2, <1>3, SMT
<1> HIDE DEF p, q
<1>5. p <= q
  BY <1>1, <1>2, <1>4, Cancel
<1> QED
  BY <1>5 DEF p, q

\* A share of e parts in d of an amount is no more than the amount.
LEMMA DivShare ==
  ASSUME NEW a \in Nat, NEW e \in Nat, NEW d \in Nat, d > 0, e <= d
  PROVE  (a * e) \div d <= a
<1> DEFINE p == (a * e) \div d
<1>1. a * e \in Nat
  BY SMT
<1>2. p \in Nat /\ p * d <= a * e
  BY <1>1, DivFloor
<1>3. a * e <= a * d
  BY MulMono
<1>4. a * d < (a + 1) * d
  BY SMT
<1> HIDE DEF p
<1>5. p * d < (a + 1) * d
  BY <1>1, <1>2, <1>3, <1>4, SMT
<1>6. p <= a
  BY <1>2, <1>5, Cancel
<1> QED
  BY <1>6 DEF p

-----------------------------------------------------------------------------
(* The schedule of an account.                                             *)

\* The dates of an account are in order.
Ordered(acct) ==
  /\ acct.registration_time <= acct.start_time
  /\ acct.start_time <= acct.end_time

\* What has vested is between nothing and everything.
LEMMA VestedBounds ==
  ASSUME NEW acct \in Account, Ordered(acct), NEW t \in Nat
  PROVE  /\ VestedAmount(acct, t) \in Amounts
         /\ VestedAmount(acct, t) <= acct.vesting_amount
<1> DEFINE A == acct.vesting_amount
           s == acct.start_time
           e == acct.end_time
<1>1. A \in 0 .. MaxUint /\ s \in Nat /\ e \in Nat /\ MaxUint \in Nat
  BY MaxUintAssumption DEF Account, Amounts
<1>2. CASE t < s
  BY <1>1, <1>2 DEF VestedAmount, Amounts
<1>3. CASE t >= s /\ t >= e
  BY <1>1, <1>3 DEF VestedAmount, Amounts
<1>4. CASE t >= s /\ t < e
  <2> DEFINE q == (A * (t - s)) \div (e - s)
  <2>1. t - s \in Nat /\ e - s \in Nat /\ e - s > 0 /\ t - s <= e - s
    BY <1>1, <1>4
  <2>2. A * (t - s) \in Nat
    BY <1>1, <2>1, MulMono
  <2>3. q \in Nat
    BY <2>1, <2>2, DivFloor
  <2>4. q <= A
    BY <1>1, <2>1, DivShare
  <2>5. VestedAmount(acct, t) = q
    BY <1>1, <1>4 DEF VestedAmount
  <2> HIDE DEF q
  <2> QED
    BY <1>1, <2>3, <2>4, <2>5 DEF Amounts
<1> QED
  BY <1>1, <1>2, <1>3, <1>4

\* What has vested never shrinks.
LEMMA VestedGrows ==
  ASSUME NEW acct \in Account, Ordered(acct),
         NEW t \in Nat, NEW u \in Nat, t <= u
  PROVE  VestedAmount(acct, t) <= VestedAmount(acct, u)
<1> DEFINE A == acct.vesting_amount
           s == acct.start_time
           e == acct.end_time
<1>1. A \in Nat /\ s \in Nat /\ e \in Nat
  BY MaxUintAssumption DEF Account, Amounts
<1>2. CASE t < s
  <2>1. VestedAmount(acct, t) = 0
    BY <1>2 DEF VestedAmount
  <2> QED
    BY <2>1, VestedBounds, MaxUintAssumption DEF Amounts
<1>3. CASE u >= e
  <2>1. VestedAmount(acct, u) \in {0, A}
    BY <1>3 DEF VestedAmount
  <2>2. CASE u < s
    BY <1>1, <1>2, <2>2
  <2>3. CASE u >= s
    <3>1. VestedAmount(acct, u) = A
      BY <1>1, <1>3, <2>3 DEF VestedAmount
    <3> QED
      BY <3>1, VestedBounds
  <2> QED
    BY <1>1, <2>2, <2>3
<1>4. CASE t >= s /\ u < e
  <2> DEFINE d == e - s
             x == A * (t - s)
             y == A * (u - s)
  <2>1. t - s \in Nat /\ u - s \in Nat /\ t - s <= u - s /\ d \in Nat /\ d > 0
    BY <1>1, <1>4
  <2>2. x \in Nat /\ y \in Nat /\ x <= y
    BY <1>1, <2>1, MulMono
  <2>3. VestedAmount(acct, t) = x \div d /\ VestedAmount(acct, u) = y \div d
    BY <1>1, <1>4 DEF VestedAmount
  <2> HIDE DEF d, x, y
  <2> QED
    BY <2>1, <2>2, <2>3, DivMono
<1> QED
  BY <1>1, <1>2, <1>3, <1>4

\* What has prevested is an amount, and everything once the account started.
LEMMA PrevestedBounds ==
  ASSUME NEW acct \in Account, Ordered(acct), NEW t \in Nat
  PROVE  /\ PrevestedAmount(acct, t) \in Amounts
         /\ t >= acct.start_time
              => PrevestedAmount(acct, t) = acct.vesting_amount
<1> DEFINE A == acct.vesting_amount
           r == acct.registration_time
           s == acct.start_time
<1>1. /\ A \in 0 .. MaxUint /\ acct.prevesting_amount \in 0 .. MaxUint
      /\ r \in Nat /\ s \in Nat /\ MaxUint \in Nat
  BY MaxUintAssumption DEF Account, Amounts
<1>2. r <= s
  BY DEF Ordered
<1>3. CASE t < r
  BY <1>1, <1>2, <1>3 DEF PrevestedAmount, Amounts
<1>4. CASE t >= r /\ t >= s
  BY <1>1, <1>4 DEF PrevestedAmount, Amounts
<1>5. CASE t >= r /\ t < s
  <2> DEFINE q == (A * (t - r)) \div (s - r)
  <2>1. t - r \in Nat /\ s - r \in Nat /\ s - r > 0 /\ t - r <= s - r
    BY <1>1, <1>5
  <2>2. A * (t - r) \in Nat
    BY <1>1, <2>1, MulMono
  <2>3. q \in Nat /\ q <= A
    BY <1>1, <2>1, <2>2, DivFloor, DivShare
  <2>4. PrevestedAmount(acct, t) \in {q, acct.prevesting_amount}
    BY <1>1, <1>5 DEF PrevestedAmount
  <2> HIDE DEF q
  <2> QED
    BY <1>1, <1>5, <2>3, <2>4 DEF Amounts
<1> QED
  BY <1>1, <1>3, <1>4, <1>5
-----------------------------------------------------------------------------
(* Snapshot stores.                                                        *)

\* A set of naturals that is not empty has a least element.
LEMMA MinExists ==
  ASSUME NEW S, S \subseteq Nat, S # {}
  PROVE  Min(S) \in S /\ \A y \in S : Min(S) <= y
BY LeastNatural DEF Min

\* The log of a store has no entry above height n.
LogUpTo(store, n) == \A k \in DOMAIN store.log : k \in Nat /\ k <= n

\* The first logged height from h on is a logged height.
LEMMA FirstLater ==
  ASSUME NEW n \in Nat, NEW store, LogUpTo(store, n), NEW h \in Nat,
         {k \in DOMAIN store.log : k >= h} # {}
  PROVE  Min({k \in DOMAIN store.log : k >= h}) \in DOMAIN store.log
<1> DEFINE L == {k \in DOMAIN store.log : k >= h}
<1>1. L \subseteq Nat /\ L # {}
  BY DEF LogUpTo
<1>2. Min(L) \in L
  BY <1>1, MinExists
<1> QED
  BY <1>2

\* What is read at any height is a value of the store.
LEMMA LoadType ==
  ASSUME NEW V, NEW n \in Nat, NEW store, IsStore(store, V), LogUpTo(store, n),
         NEW h \in Nat
  PROVE  LoadAt(store, h) \in V
<1> DEFINE L == {k \in DOMAIN store.log : k >= h}
<1>1. CASE L = {}
  BY <1>1 DEF LoadAt, IsStore
<1>2. CASE L # {}
  <2>1. Min(L) \in DOMAIN store.log
    BY <1>2, FirstLater
  <2>2. LoadAt(store, h) = store.log[Min(L)]
    BY <1>2 DEF LoadAt
  <2> QED
    BY <2>1, <2>2 DEF IsStore
<1> QED
  BY <1>1, <1>2

\* A save at the last height keeps the store well formed.
LEMMA SaveType ==
  ASSUME NEW V, NEW n \in Nat, NEW store, IsStore(store, V), LogUpTo(store, n),
         NEW v \in V
  PROVE  IsStore(Save(store, v, n), V) /\ LogUpTo(Save(store, v, n), n)
BY DEF LogUpTo, IsStore, Save, Put

\* A save at the last height does not change what is read up to it.
LEMMA SaveFrozen ==
  ASSUME NEW n \in Nat, NEW store, LogUpTo(store, n), NEW v,
         NEW h \in Nat, h <= n
  PROVE  LoadAt(Save(store, v, n), h) = LoadAt(store, h)
<1> DEFINE new  == Save(store, v, n)
           L    == {k \in DOMAIN store.log : k >= h}
           newL == {k \in DOMAIN new.log : k >= h}
<1>1. CASE n \in DOMAIN store.log
  <2>1. new.log = store.log /\ n \in L
    BY <1>1 DEF Save
  <2> QED
    BY <2>1 DEF LoadAt
<1>2. CASE n \notin DOMAIN store.log
  <2>1. /\ DOMAIN new.log = DOMAIN store.log \cup {n}
        /\ new.log[n] = store.cur
        /\ \A k \in DOMAIN store.log : new.log[k] = store.log[k]
    BY <1>2 DEF Save, Put
  <2>2. newL = L \cup {n} /\ newL \subseteq Nat /\ newL # {}
    BY <2>1 DEF LogUpTo
  <2>3. Min(newL) \in newL /\ \A y \in newL : Min(newL) <= y
    BY <2>2, MinExists
  <2>4. LoadAt(new, h) = new.log[Min(newL)]
    BY <2>2 DEF LoadAt
  <2>5. CASE L = {}
    BY <2>1, <2>2, <2>3, <2>4, <2>5 DEF LoadAt
  <2>6. CASE L # {}
    <3>1. Min(L) \in L /\ \A y \in L : Min(L) <= y
      BY <2>6, MinExists DEF LogUpTo
    <3>2. Min(L) \in Nat /\ Min(newL) \in Nat /\ Min(L) <= n /\ Min(L) # n
      BY <1>2, <2>2, <2>3, <3>1 DEF LogUpTo
    <3> DEFINE m  == Min(L)
               mn == Min(newL)
    <3>3. m \in L /\ (\A y \in L : m <= y) /\ mn \in newL /\ mn <= m
      BY <2>2, <2>3, <3>1
    <3> HIDE DEF m, mn, L, newL
    <3>4. mn = m
      BY <2>2, <3>2, <3>3 DEF m, mn
    <3> USE DEF m, mn, L, newL
    <3>5. LoadAt(store, h) = store.log[Min(L)]
      BY <2>6 DEF LoadAt
    <3> QED
      BY <2>1, <2>4, <3>1, <3>4, <3>5
  <2> QED
    BY <2>5, <2>6
<1> QED
  BY <1>1, <1>2
-----------------------------------------------------------------------------
(* The inductive invariant.                                                *)

\* The dates are in order and no more was claimed than has vested.
GoodAccount(acct, t) ==
  /\ acct \in Account
  /\ Ordered(acct)
  /\ acct.registration_time <= t
  /\ acct.claimed_amount <= VestedAmount(acct, t)

GoodAccounts == \A a \in Registered : GoodAccount(accounts[a], now)

\* A record that counts a claimed amount in full, and at least what vested.
SafeData == {d \in VestingData : CountedIfClaimed(d) /\ d.vested_amount <= Counted(d)}

DataBehind ==
  \A a \in Address : IsStore(data[a], SafeData) /\ LogUpTo(data[a], height - 1)

\* The log of the total in the block of the instantiation, where one entry
\* lies ahead of the snapshots; all it holds is the zero total.
BirthLog(store) ==
  /\ InitHeight \in DOMAIN store.log
  /\ \A k \in DOMAIN store.log :
       k \in {InitHeight - 1, InitHeight} /\ store.log[k] = NoVesting
  /\ InitHeight - 1 \notin DOMAIN store.log => store.cur = NoVesting

TotalBehind ==
  IF height = InitHeight THEN BirthLog(total) ELSE LogUpTo(total, height - 1)

StoresTyped ==
  /\ DOMAIN data = Address
  /\ \A a \in Address : IsStore(data[a], VestingData)
  /\ DOMAIN total.log \subseteq Nat

IInv ==
  /\ TypeOK
  /\ GoodAccounts
  /\ GrantPaidExactly
  /\ DataBehind
  /\ TotalBehind

\* No answer about an earlier block changes in this step.
KeepsPast ==
  \A h \in 0 .. height - 1 :
    /\ \A a \in Address : LoadAt(data'[a], h) = LoadAt(data[a], h)
    /\ LoadAt(total', h) = LoadAt(total, h)

\* What a snapshot records of a good account is safe.
LEMMA DataOfSafe ==
  ASSUME NEW t \in Nat, NEW acct, GoodAccount(acct, t)
  PROVE  DataOf(acct, t) \in SafeData
<1> DEFINE d == DataOf(acct, t)
<1>1. acct \in Account /\ Ordered(acct)
  BY DEF GoodAccount
<1>2. /\ VestedAmount(acct, t) \in Amounts
      /\ VestedAmount(acct, t) <= acct.vesting_amount
      /\ PrevestedAmount(acct, t) \in Amounts
      /\ t >= acct.start_time => PrevestedAmount(acct, t) = acct.vesting_amount
  BY <1>1, VestedBounds, PrevestedBounds
<1>3. d \in VestingData
  BY <1>1, <1>2 DEF DataOf, VestingData, Account
<1>4. ASSUME d.claimed_amount > 0
      PROVE  Counted(d) = d.vesting_amount /\ d.claimed_amount <= d.vesting_amount
  <2>1. acct.claimed_amount > 0 /\ acct.claimed_amount <= VestedAmount(acct, t)
    BY <1>4 DEF DataOf, GoodAccount
  <2>2. acct.claimed_amount \in Nat /\ acct.vesting_amount \in Nat /\ acct.start_time \in Nat
        /\ VestedAmount(acct, t) \in Nat
    BY <1>1, <1>2, MaxUintAssumption DEF Account, Amounts
  <2>3. t >= acct.start_time
    BY <2>1, <2>2 DEF VestedAmount
  <2>4. d.prevested_amount = acct.vesting_amount /\ d.vesting_amount = acct.vesting_amount
        /\ d.claimed_amount = acct.claimed_amount
    BY <1>2, <2>3 DEF DataOf
  <2> QED
    BY <1>2, <2>1, <2>2, <2>4 DEF Counted
<1>5. d.vested_amount <= Counted(d)
  <2>1. /\ acct.vesting_amount \in Nat /\ acct.start_time \in Nat
        /\ VestedAmount(acct, t) \in Nat /\ PrevestedAmount(acct, t) \in Nat
    BY <1>1, <1>2, MaxUintAssumption DEF Account, Amounts
  <2>2. t < acct.start_time => VestedAmount(acct, t) = 0
    BY DEF VestedAmount
  <2> QED
    BY <1>2, <2>1, <2>2 DEF DataOf, Counted
<1> QED
  BY <1>3, <1>4, <1>5 DEF SafeData, CountedIfClaimed

\* A good account stays good as time goes by.
LEMMA GoodLater ==
  ASSUME NEW t \in Nat, NEW u \in Nat, t <= u, NEW acct, GoodAccount(acct, t)
  PROVE  GoodAccount(acct, u)
<1>1. acct \in Account /\ Ordered(acct)
  BY DEF GoodAccount
<1>2. VestedAmount(acct, t) <= VestedAmount(acct, u)
  BY <1>1, VestedGrows
<1>3. VestedAmount(acct, t) \in Nat /\ VestedAmount(acct, u) \in Nat
      /\ acct.claimed_amount \in Nat /\ acct.registration_time \in Nat
  BY <1>1, VestedBounds, MaxUintAssumption DEF Amounts, Account
<1> QED
  BY <1>1, <1>2, <1>3 DEF GoodAccount

\* In the block of the instantiation every answer about the total is zero.
LEMMA BirthRead ==
  ASSUME NEW store, BirthLog(store), NEW h \in Nat, h <= InitHeight - 1
  PROVE  LoadAt(store, h) = NoVesting
<1> DEFINE L == {k \in DOMAIN store.log : k >= h}
<1>1. InitHeight \in Nat /\ InitHeight - 1 \in Nat
  BY VestingAssumption
<1>2. InitHeight \in L /\ L \subseteq Nat
  BY <1>1 DEF BirthLog
<1>3. Min(L) \in DOMAIN store.log
  BY <1>2, MinExists
<1>4. LoadAt(store, h) = store.log[Min(L)]
  BY <1>2 DEF LoadAt
<1> QED
  BY <1>3, <1>4 DEF BirthLog
\* A snapshot of good accounts keeps the stores in order and the past as it
\* was.
LEMMA SnapshotStep ==
  ASSUME IInv, NEW accts, DOMAIN accts \subseteq Address,
         \A a \in DOMAIN accts : GoodAccount(accts[a], now),
         SnapshotOf(accts), height' = height
  PROVE  StoresTyped' /\ DataBehind' /\ TotalBehind' /\ KeepsPast
<1> DEFINE n == height - 1
           v == TotalOf([a \in DOMAIN accts |-> DataOf(accts[a], now)])
<1>1. /\ height \in Nat /\ height >= InitHeight /\ InitHeight \in Nat \ {0}
      /\ n \in Nat /\ now \in Nat
  BY VestingAssumption DEF IInv, TypeOK
<1>2. /\ data' = [a \in Address |->
                    IF a \in DOMAIN accts
                    THEN Save(data[a], DataOf(accts[a], now), n)
                    ELSE data[a]]
      /\ total' = Save(total, v, n)
  BY Zenon DEF SnapshotOf, SnapshotAt, SnapshotDefined, Recorded
<1>3. \A a \in DOMAIN accts : DataOf(accts[a], now) \in SafeData
  BY <1>1, DataOfSafe
<1>4. \A a \in Address : IsStore(data[a], SafeData) /\ LogUpTo(data[a], n)
  BY DEF IInv, DataBehind
<1>5. DOMAIN data' = Address
  BY <1>2
<1> HIDE DEF n, v
<1>6. ASSUME NEW a \in Address
      PROVE  IsStore(data'[a], SafeData) /\ LogUpTo(data'[a], n)
  <2>1. CASE a \in DOMAIN accts
    <3>1. data'[a] = Save(data[a], DataOf(accts[a], now), n)
      BY <1>2, <2>1
    <3> QED
      BY <1>1, <1>3, <1>4, <2>1, <3>1, SaveType
  <2>2. CASE a \notin DOMAIN accts
    BY <1>2, <1>4, <2>2
  <2> QED
    BY <2>1, <2>2
<1>7. DataBehind'
  BY <1>6 DEF DataBehind, n
<1>8. ASSUME NEW a \in Address, NEW h \in 0 .. n
      PROVE  LoadAt(data'[a], h) = LoadAt(data[a], h)
  <2>1. CASE a \in DOMAIN accts
    <3>1. data'[a] = Save(data[a], DataOf(accts[a], now), n)
      BY <1>2, <2>1
    <3> QED
      BY <1>1, <1>4, <3>1, SaveFrozen
  <2>2. CASE a \notin DOMAIN accts
    BY <1>2, <2>2
  <2> QED
    BY <2>1, <2>2
<1>9. \A a \in Address : IsStore(data'[a], VestingData)
  BY <1>6 DEF IsStore, SafeData
<1>10. CASE height = InitHeight
  <2>1. BirthLog(total)
    BY <1>10 DEF IInv, TotalBehind
  <2>2. n = InitHeight - 1
    BY <1>10 DEF n
  <2>3. BirthLog(total')
    BY <1>1, <1>2, <2>1, <2>2 DEF BirthLog, Save, Put
  <2>4. \A h \in 0 .. n : LoadAt(total', h) = LoadAt(total, h)
    BY <1>1, <2>1, <2>2, <2>3, BirthRead
  <2> QED
    BY <1>1, <1>5, <1>7, <1>8, <1>10, <1>9, <2>3, <2>4
       DEF TotalBehind, KeepsPast, StoresTyped, BirthLog, n
<1>11. CASE height # InitHeight
  <2>1. LogUpTo(total, n)
    BY <1>11 DEF IInv, TotalBehind, n
  <2>2. LogUpTo(total', n)
    BY <1>1, <1>2, <2>1 DEF LogUpTo, Save, Put
  <2>3. \A h \in 0 .. n : LoadAt(total', h) = LoadAt(total, h)
    BY <1>1, <1>2, <2>1, SaveFrozen
  <2> QED
    BY <1>1, <1>5, <1>7, <1>8, <1>11, <1>9, <2>2, <2>3
       DEF TotalBehind, KeepsPast, StoresTyped, LogUpTo, n
<1> QED
  BY <1>10, <1>11
\* The initial state satisfies the invariant.
LEMMA InitIInv == Init => IInv
<1> SUFFICES ASSUME Init PROVE IInv
  OBVIOUS
<1>1. InitHeight \in Nat \ {0} /\ MaxUint \in Nat
  BY VestingAssumption, MaxUintAssumption
<1>2. NoVesting \in VestingData /\ NoVesting \in SafeData
  BY <1>1 DEF NoVesting, VestingData, SafeData, CountedIfClaimed, Counted, Amounts
<1>3. \A a \in Address :
        /\ IsStore(data[a], VestingData) /\ IsStore(data[a], SafeData)
        /\ LogUpTo(data[a], height - 1)
  BY <1>2 DEF Init, Fresh, IsStore, LogUpTo
<1>4. BirthLog(total) /\ DOMAIN total.log \subseteq Nat
  BY <1>1 DEF Init, Fresh, Save, Put, BirthLog
<1>5. Registered = {} /\ accounts \in [Registered -> Account]
  BY DEF Init, Registered
<1>6. TypeOK
  BY <1>1, <1>3, <1>4, <1>5 DEF Init, TypeOK
<1> QED
  BY <1>3, <1>4, <1>5, <1>6
     DEF Init, IInv, GoodAccounts, GrantPaidExactly, DataBehind, TotalBehind

\* A new block: what was behind the old block is behind the new one.
LEMMA NextBlockStep == IInv /\ NextBlock => IInv' /\ KeepsPast
<1> SUFFICES ASSUME IInv, NextBlock PROVE IInv' /\ KeepsPast
  OBVIOUS
<1>1. /\ height \in Nat /\ height >= InitHeight /\ InitHeight \in Nat \ {0}
      /\ now \in Nat /\ height' = height + 1
      /\ now' \in Nat /\ now <= now'
      /\ UNCHANGED <<owner, accounts, data, total, balance, ledger>>
  BY VestingAssumption DEF IInv, TypeOK, NextBlock
<1>2. GoodAccounts'
  <2> SUFFICES ASSUME NEW a \in Registered'
               PROVE  GoodAccount(accounts'[a], now')
    BY DEF GoodAccounts
  <2>1. GoodAccount(accounts[a], now)
    BY <1>1 DEF IInv, GoodAccounts, Registered
  <2> QED
    BY <1>1, <2>1, GoodLater
<1>3. DataBehind'
  BY <1>1 DEF IInv, DataBehind, LogUpTo
<1>4. TotalBehind'
  BY <1>1 DEF IInv, TotalBehind, BirthLog, LogUpTo
<1>5. TypeOK'
  BY <1>1 DEF IInv, TypeOK, Registered
<1>6. GrantPaidExactly'
  BY <1>1 DEF IInv, GrantPaidExactly, Registered
<1>7. KeepsPast
  BY <1>1 DEF KeepsPast
<1> QED
  BY <1>2, <1>3, <1>4, <1>5, <1>6, <1>7 DEF IInv

\* A step that touches neither the block nor accounts nor stores.
LEMMA AsideStep ==
  ASSUME IInv, UNCHANGED <<block, accounts, data, total, ledger>>,
         owner' \in Address, balance' \in Nat
  PROVE  IInv' /\ KeepsPast
<1>1. UNCHANGED <<now, height, accounts, data, total, ledger>>
  BY DEF block
<1>2. TypeOK'
  BY <1>1 DEF IInv, TypeOK, Registered
<1>3. GoodAccounts' /\ GrantPaidExactly' /\ DataBehind' /\ TotalBehind'
  BY <1>1 DEF IInv, GoodAccounts, GrantPaidExactly, DataBehind, TotalBehind, Registered
<1>4. KeepsPast
  BY <1>1 DEF KeepsPast
<1> QED
  BY <1>2, <1>3, <1>4 DEF IInv

\* A registration adds a good account of which nothing was claimed or paid.
LEMMA RegisterStep ==
  ASSUME IInv, NEW sender \in Address, NEW a \in Address, NEW term \in Terms,
         Register(sender, a, term)
  PROVE  IInv' /\ KeepsPast
<1> DEFINE acct == [vesting_amount    |-> term.vesting_amount,
                    prevesting_amount |-> term.prevesting_amount,
                    claimed_amount    |-> 0,
                    registration_time |-> now,
                    start_time        |-> term.start_time,
                    end_time          |-> term.end_time]
<1>1. /\ Valid(acct, now) /\ a \notin Registered
      /\ accounts' = Put(accounts, a, acct)
      /\ SnapshotOf(accounts')
      /\ ledger' = [ledger EXCEPT ![a] = [granted |-> acct.vesting_amount, paid |-> 0]]
      /\ now' = now /\ height' = height /\ owner' = owner /\ balance' = balance
  BY DEF Register, block
<1>2. now \in Nat /\ height \in Nat /\ MaxUint \in Nat /\ term \in Term
  BY VestingAssumption, MaxUintAssumption DEF IInv, TypeOK
<1>3. acct \in Account
  BY <1>2 DEF Account, Term, Amounts
<1>4. Ordered(acct) /\ acct.registration_time = now /\ acct.claimed_amount = 0
  BY <1>1, <1>2 DEF Valid, Ordered
<1>5. acct.vesting_amount \in Nat
  BY <1>2, <1>3 DEF Account, Amounts
<1> HIDE DEF acct
<1>6. VestedAmount(acct, now) \in Nat
  BY <1>2, <1>3, <1>4, VestedBounds DEF Amounts
<1>7. GoodAccount(acct, now)
  BY <1>2, <1>3, <1>4, <1>6 DEF GoodAccount
<1>8. /\ DOMAIN accounts' = Registered \cup {a}
      /\ accounts'[a] = acct
      /\ \A b \in Registered : accounts'[b] = accounts[b]
      /\ accounts' \in [DOMAIN accounts' -> Account]
      /\ DOMAIN accounts' \subseteq Address
  BY <1>1, <1>3 DEF Put, Registered, IInv, TypeOK
<1>9. \A b \in DOMAIN accounts' : GoodAccount(accounts'[b], now)
  BY <1>7, <1>8 DEF IInv, GoodAccounts
<1>10. StoresTyped' /\ DataBehind' /\ TotalBehind' /\ KeepsPast
  BY <1>1, <1>8, <1>9, SnapshotStep
<1>11. GoodAccounts'
  BY <1>1, <1>9 DEF GoodAccounts, Registered
<1>12. ledger' \in [Address -> [granted : Nat, paid : Nat]]
  BY <1>1, <1>5 DEF IInv, TypeOK
<1>13. TypeOK'
  BY <1>1, <1>8, <1>10, <1>12 DEF IInv, TypeOK, Registered, StoresTyped
<1>14. GrantPaidExactly'
  BY <1>1, <1>4, <1>8 DEF IInv, TypeOK, GrantPaidExactly, Registered
<1> QED
  BY <1>10, <1>11, <1>13, <1>14 DEF IInv
\* A deregistration pays the claimable part and the rest, which make up what
\* was not paid before.
LEMMA DeregisterStep ==
  ASSUME IInv, NEW sender \in Address, NEW a \in Address, Deregister(sender, a)
  PROVE  IInv' /\ KeepsPast
<1> DEFINE out == Claimable(accounts[a], now) + Left(accounts[a], now)
<1>1. /\ a \in Registered
      /\ accounts' = Drop(accounts, a)
      /\ SnapshotOf(accounts')
      /\ CanPay(out)
      /\ balance' = balance - out
      /\ ledger' = [ledger EXCEPT ![a].paid =
                      @ + Claimable(accounts[a], now) + Left(accounts[a], now)]
      /\ now' = now /\ height' = height /\ owner' = owner
  BY Zenon DEF Deregister, block
<1>2. now \in Nat /\ MaxUint \in Nat /\ accounts[a] \in Account
      /\ GoodAccount(accounts[a], now)
  BY <1>1, MaxUintAssumption DEF IInv, TypeOK, GoodAccounts
<1>3. /\ accounts[a].claimed_amount \in Nat /\ accounts[a].vesting_amount \in Nat
      /\ VestedAmount(accounts[a], now) \in Nat
  BY <1>2, VestedBounds DEF GoodAccount, Account, Amounts
<1>4. Claimable(accounts[a], now) \in Int /\ Left(accounts[a], now) \in Int
      /\ out = accounts[a].vesting_amount - accounts[a].claimed_amount
  BY <1>3 DEF Claimable, Left
<1>5. balance' \in Nat
  BY <1>1, <1>3, <1>4 DEF IInv, TypeOK, CanPay
<1>6. ledger[a] \in [granted : Nat, paid : Nat]
      /\ ledger[a].paid = accounts[a].claimed_amount
      /\ ledger[a].granted = accounts[a].vesting_amount
  BY <1>1 DEF IInv, TypeOK, GrantPaidExactly
<1>7. ledger' = [ledger EXCEPT ![a].paid = ledger[a].granted]
  <2>1. ledger[a].paid + Claimable(accounts[a], now) + Left(accounts[a], now)
          = ledger[a].granted
    BY <1>3, <1>4, <1>6
  <2> QED
    BY <1>1, <2>1
<1>8. /\ DOMAIN accounts' = Registered \ {a}
      /\ \A b \in Registered \ {a} : accounts'[b] = accounts[b]
      /\ accounts' \in [DOMAIN accounts' -> Account]
      /\ DOMAIN accounts' \subseteq Address
  BY <1>1 DEF Drop, Registered, IInv, TypeOK
<1>9. \A b \in DOMAIN accounts' : GoodAccount(accounts'[b], now)
  BY <1>8 DEF IInv, GoodAccounts
<1>10. StoresTyped' /\ DataBehind' /\ TotalBehind' /\ KeepsPast
  BY <1>1, <1>8, <1>9, SnapshotStep
<1>11. GoodAccounts'
  BY <1>1, <1>9 DEF GoodAccounts, Registered
<1>12. ledger' \in [Address -> [granted : Nat, paid : Nat]]
  BY <1>6, <1>7 DEF IInv, TypeOK
<1>13. TypeOK'
  BY <1>1, <1>5, <1>8, <1>10, <1>12 DEF IInv, TypeOK, Registered, StoresTyped
<1>14. GrantPaidExactly'
  BY <1>6, <1>7, <1>8 DEF IInv, TypeOK, GrantPaidExactly, Registered
<1> QED
  BY <1>10, <1>11, <1>13, <1>14 DEF IInv

\* A claim pays what it adds to the claimed amount.
LEMMA ClaimStep ==
  ASSUME IInv, NEW a \in Address, Claim(a)
  PROVE  IInv' /\ KeepsPast
<1> DEFINE v == VestedAmount(accounts[a], now)
<1>1. /\ a \in Registered
      /\ accounts' = [accounts EXCEPT ![a].claimed_amount = v]
      /\ SnapshotOf(accounts')
      /\ CanPay(Claimable(accounts[a], now))
      /\ balance' = balance - Claimable(accounts[a], now)
      /\ ledger' = [ledger EXCEPT ![a].paid = @ + Claimable(accounts[a], now)]
      /\ now' = now /\ height' = height /\ owner' = owner
  BY Zenon DEF Claim, block
<1>2. now \in Nat /\ MaxUint \in Nat /\ accounts[a] \in Account
      /\ GoodAccount(accounts[a], now)
  BY <1>1, MaxUintAssumption DEF IInv, TypeOK, GoodAccounts
<1>3. /\ accounts[a].claimed_amount \in Nat
      /\ v \in Nat /\ v \in Amounts
  BY <1>2, VestedBounds DEF GoodAccount, Account, Amounts
<1>4. Claimable(accounts[a], now) = v - accounts[a].claimed_amount
  BY DEF Claimable
<1>5. balance' \in Nat
  BY <1>1, <1>3, <1>4 DEF IInv, TypeOK, CanPay
<1>6. ledger[a] \in [granted : Nat, paid : Nat]
      /\ ledger[a].paid = accounts[a].claimed_amount
      /\ ledger[a].granted = accounts[a].vesting_amount
  BY <1>1 DEF IInv, TypeOK, GrantPaidExactly
<1>7. ledger' = [ledger EXCEPT ![a].paid = v]
  <2>1. ledger[a].paid + Claimable(accounts[a], now) = v
    BY <1>3, <1>4, <1>6
  <2> QED
    BY <1>1, <2>1
<1> DEFINE acct == [accounts[a] EXCEPT !.claimed_amount = v]
<1>8. /\ DOMAIN accounts' = Registered
      /\ accounts'[a] = acct
      /\ \A b \in Registered \ {a} : accounts'[b] = accounts[b]
      /\ acct \in Account
      /\ accounts' \in [Registered -> Account]
  BY <1>1, <1>2, <1>3 DEF Registered, IInv, TypeOK, Account
<1>9. GoodAccount(acct, now)
  <2>1. VestedAmount(acct, now) = v
    BY <1>2 DEF VestedAmount, Account
  <2>2. Ordered(acct) /\ acct.registration_time <= now /\ acct.claimed_amount = v
    BY <1>2 DEF GoodAccount, Ordered, Account
  <2> HIDE DEF acct
  <2> QED
    BY <1>3, <1>8, <2>1, <2>2 DEF GoodAccount
<1> HIDE DEF acct, v
<1>10. \A b \in DOMAIN accounts' : GoodAccount(accounts'[b], now)
  BY <1>8, <1>9 DEF IInv, GoodAccounts
<1>11. StoresTyped' /\ DataBehind' /\ TotalBehind' /\ KeepsPast
  BY <1>1, <1>8, <1>10, SnapshotStep DEF IInv, TypeOK
<1>12. GoodAccounts'
  BY <1>1, <1>10 DEF GoodAccounts, Registered
<1>13. ledger' \in [Address -> [granted : Nat, paid : Nat]]
  BY <1>3, <1>6, <1>7 DEF IInv, TypeOK
<1>14. TypeOK'
  BY <1>1, <1>5, <1>8, <1>11, <1>13 DEF IInv, TypeOK, Registered, StoresTyped
<1>15. acct.claimed_amount = v /\ acct.vesting_amount = accounts[a].vesting_amount
  BY <1>2 DEF acct, Account
<1>16. GrantPaidExactly'
  BY <1>1, <1>6, <1>7, <1>8, <1>15 DEF IInv, TypeOK, GrantPaidExactly, Registered
<1> QED
  BY <1>11, <1>12, <1>14, <1>16 DEF IInv

\* A snapshot by itself only touches the stores.
LEMMA SnapshotOnlyStep == IInv /\ Snapshot => IInv' /\ KeepsPast
<1> SUFFICES ASSUME IInv, Snapshot PROVE IInv' /\ KeepsPast
  OBVIOUS
<1>1. /\ SnapshotOf(accounts)
      /\ UNCHANGED <<now, height, owner, accounts, balance, ledger>>
  BY DEF Snapshot, block
<1>2. \A a \in DOMAIN accounts : a \in Address /\ GoodAccount(accounts[a], now)
  BY DEF IInv, TypeOK, GoodAccounts, Registered
<1>3. StoresTyped' /\ DataBehind' /\ TotalBehind' /\ KeepsPast
  BY <1>1, <1>2, SnapshotStep
<1>4. TypeOK'
  BY <1>1, <1>3 DEF IInv, TypeOK, Registered, StoresTyped
<1>5. GoodAccounts' /\ GrantPaidExactly'
  BY <1>1 DEF IInv, GoodAccounts, GrantPaidExactly, Registered
<1> QED
  BY <1>3, <1>4, <1>5 DEF IInv
\* Every step keeps the invariant and the past.
LEMMA StepIInv == IInv /\ [Next]_vars => IInv' /\ KeepsPast
<1> SUFFICES ASSUME IInv, [Next]_vars PROVE IInv' /\ KeepsPast
  OBVIOUS
<1>1. CASE NextBlock
  BY <1>1, NextBlockStep
<1>2. ASSUME NEW amount \in FundAmounts, Fund(amount)
      PROVE  IInv' /\ KeepsPast
  <2>1. balance' \in Nat /\ owner' \in Address
    BY <1>2, VestingAssumption DEF Fund, IInv, TypeOK
  <2> QED
    BY <1>2, <2>1, AsideStep DEF Fund
<1>3. ASSUME NEW sender \in Address, NEW a \in Address, UpdateOwner(sender, a)
      PROVE  IInv' /\ KeepsPast
  <2>1. balance' \in Nat /\ owner' \in Address
    BY <1>3 DEF UpdateOwner, IInv, TypeOK
  <2> QED
    BY <1>3, <2>1, AsideStep DEF UpdateOwner
<1>4. ASSUME NEW sender \in Address, NEW a \in Address, NEW term \in Terms,
             Register(sender, a, term)
      PROVE  IInv' /\ KeepsPast
  BY <1>4, RegisterStep
<1>5. ASSUME NEW sender \in Address, NEW a \in Address, Deregister(sender, a)
      PROVE  IInv' /\ KeepsPast
  BY <1>5, DeregisterStep
<1>6. ASSUME NEW a \in Address, Claim(a)
      PROVE  IInv' /\ KeepsPast
  BY <1>6, ClaimStep
<1>7. CASE Snapshot
  BY <1>7, SnapshotOnlyStep
<1>8. CASE UNCHANGED vars
  <2>1. UNCHANGED <<block, accounts, data, total, ledger>>
        /\ owner' \in Address /\ balance' \in Nat
    BY <1>8 DEF vars, block, IInv, TypeOK
  <2> QED
    BY <2>1, AsideStep
<1> QED
  BY <1>1, <1>2, <1>3, <1>4, <1>5, <1>6, <1>7, <1>8 DEF Next

-----------------------------------------------------------------------------
(* The results.                                                            *)

\* The invariant holds throughout every behaviour.
THEOREM Invariance == Spec => []IInv
<1>1. IInv /\ [Next]_vars => IInv'
  BY StepIInv
<1> QED
  BY <1>1, InitIInv, PTL DEF Spec

\* Every variable keeps its type; the contract's balance never goes negative.
THEOREM TypeCorrect == Spec => []TypeOK
<1>1. IInv => TypeOK
  BY DEF IInv
<1> QED
  BY <1>1, Invariance, PTL

\* No subtraction of a claim, a snapshot or a deregistration underflows.
THEOREM NoUnderflow == Spec => []ClaimedIsVested
<1>1. IInv => ClaimedIsVested
  <2> SUFFICES ASSUME IInv, NEW a \in Registered
               PROVE  /\ accounts[a].claimed_amount <= VestedAmount(accounts[a], now)
                      /\ VestedAmount(accounts[a], now) <= accounts[a].vesting_amount
    BY DEF ClaimedIsVested
  <2>1. now \in Nat /\ GoodAccount(accounts[a], now)
    BY DEF IInv, TypeOK, GoodAccounts
  <2> QED
    BY <2>1, VestedBounds DEF GoodAccount
<1> QED
  BY <1>1, Invariance, PTL

\* A grant is paid out exactly once.
THEOREM PaidExactly == Spec => []GrantPaidExactly
<1>1. IInv => GrantPaidExactly
  BY DEF IInv
<1> QED
  BY <1>1, Invariance, PTL

\* Claims only show on amounts that count in full, at every height.
THEOREM PowerWellDefined == Spec => []ClaimedIsCounted
<1>1. IInv => ClaimedIsCounted
  <2> SUFFICES ASSUME IInv, NEW a \in Address, NEW h \in InitHeight .. height
               PROVE  CountedIfClaimed(LoadAt(data[a], h))
    BY DEF ClaimedIsCounted
  <2>1. InitHeight \in Nat \ {0} /\ height \in Nat /\ height >= InitHeight
    BY VestingAssumption DEF IInv, TypeOK
  <2>2. h \in Nat /\ height - 1 \in Nat
    BY <2>1
  <2>3. IsStore(data[a], SafeData) /\ LogUpTo(data[a], height - 1)
    BY DEF IInv, DataBehind
  <2>4. LoadAt(data[a], h) \in SafeData
    BY <2>2, <2>3, LoadType
  <2> QED
    BY <2>4 DEF SafeData
<1> QED
  BY <1>1, Invariance, PTL

\* The answers about past blocks never change.
THEOREM PastIsFrozen == Spec => PastHeightsFrozen
<1>1. IInv /\ [Next]_vars =>
        [\A h \in 0 .. height - 1 :
           /\ \A a \in Address : LoadAt(data'[a], h) = LoadAt(data[a], h)
           /\ LoadAt(total', h) = LoadAt(total, h)]_vars
  BY StepIInv DEF KeepsPast
<1> QED
  BY <1>1, Invariance, PTL DEF Spec, PastHeightsFrozen
-----------------------------------------------------------------------------
(* The total.                                                              *)

Latest == [a \in Registered |-> data[a].cur]

\* What is stored now of the total is the total of what is stored now of the
\* accounts.
LatestMatch == total.cur = TotalOf(Latest)

LEMMA InitLatestMatch == Init => LatestMatch
<1> SUFFICES ASSUME Init PROVE LatestMatch
  OBVIOUS
<1>1. Registered = {} /\ DOMAIN Latest = {}
  BY DEF Init, Registered, Latest
<1>2. total.cur = NoVesting
  BY DEF Init, Save
<1>3. \A f : DOMAIN f = {} => SumFunction(f) = 0
  BY SumOfNone DEF SumFunction
<1>4. TotalOf(Latest) = NoVesting
  BY <1>1, <1>3 DEF TotalOf, NoVesting
<1> QED
  BY <1>2, <1>4 DEF LatestMatch

\* A snapshot stores the records it adds up.
LEMMA SnapshotMatches ==
  ASSUME IInv, SnapshotOf(accounts'), Registered' \subseteq Address
  PROVE  LatestMatch'
<1> DEFINE fresh == Recorded(accounts')
<1>1. /\ data' = [a \in Address |->
                   IF a \in Registered'
                   THEN Save(data[a], Recorded(accounts')[a], height - 1) ELSE data[a]]
      /\ total' = Save(total, TotalOf(fresh), height - 1)
  BY DEF SnapshotOf, SnapshotAt, Registered
<1>2. \A a \in Registered' : data'[a].cur = fresh[a]
  BY <1>1 DEF Save
<1>3. fresh = [a \in Registered' |-> fresh[a]]
  BY DEF Recorded, Registered
<1>4. Latest' = fresh
  BY <1>2, <1>3 DEF Latest
<1>5. total'.cur = TotalOf(fresh)
  BY <1>1 DEF Save
<1> QED
  BY <1>4, <1>5 DEF LatestMatch

LEMMA StepLatestMatch == IInv /\ IInv' /\ LatestMatch /\ [Next]_vars => LatestMatch'
<1> SUFFICES ASSUME IInv, IInv', LatestMatch, [Next]_vars
             PROVE  LatestMatch'
  OBVIOUS
<1>1. Registered' \subseteq Address
  BY DEF IInv, TypeOK
<1>2. ASSUME UNCHANGED <<accounts, data, total>>
      PROVE  LatestMatch'
  BY <1>2 DEF LatestMatch, Latest, Registered
<1>3. CASE NextBlock
  BY <1>2, <1>3 DEF NextBlock
<1>4. ASSUME NEW amount \in FundAmounts, Fund(amount)
      PROVE  LatestMatch'
  BY <1>2, <1>4 DEF Fund
<1>5. ASSUME NEW sender \in Address, NEW a \in Address, UpdateOwner(sender, a)
      PROVE  LatestMatch'
  BY <1>2, <1>5 DEF UpdateOwner
<1>6. ASSUME NEW sender \in Address, NEW a \in Address, NEW term \in Terms,
             Register(sender, a, term)
      PROVE  LatestMatch'
  BY <1>1, <1>6, SnapshotMatches DEF Register
<1>7. ASSUME NEW sender \in Address, NEW a \in Address, Deregister(sender, a)
      PROVE  LatestMatch'
  BY <1>1, <1>7, SnapshotMatches DEF Deregister
<1>8. ASSUME NEW a \in Address, Claim(a)
      PROVE  LatestMatch'
  BY <1>1, <1>8, SnapshotMatches DEF Claim
<1>9. CASE Snapshot
  <2>1. SnapshotOf(accounts') /\ accounts' = accounts
    BY <1>9 DEF Snapshot
  <2> QED
    BY <1>1, <2>1, SnapshotMatches
<1>10. CASE UNCHANGED vars
  BY <1>2, <1>10 DEF vars
<1> QED
  BY <1>3, <1>4, <1>5, <1>6, <1>7, <1>8, <1>9, <1>10 DEF Next

\* What is read above the last logged height is what is stored now.
LEMMA LoadLatest ==
  ASSUME NEW store, NEW n \in Int, LogUpTo(store, n - 1)
  PROVE  LoadAt(store, n) = store.cur
<1>1. {k \in DOMAIN store.log : k >= n} = {}
  BY DEF LogUpTo
<1> QED
  BY <1>1 DEF LoadAt

LEMMA MatchNow ==
  ASSUME IInv, LatestMatch
  PROVE  TotalMatchesAccounts
<1> SUFFICES ASSUME height > InitHeight
             PROVE  LoadAt(total, height)
                      = TotalOf([a \in Registered |-> LoadAt(data[a], height)])
  BY DEF TotalMatchesAccounts
<1>1. height \in Int /\ InitHeight \in Nat
  BY VestingAssumption DEF IInv, TypeOK
<1>2. LogUpTo(total, height - 1)
  BY <1>1 DEF IInv, TotalBehind
<1>3. LoadAt(total, height) = total.cur
  BY <1>1, <1>2, LoadLatest
<1>4. ASSUME NEW a \in Registered
      PROVE  LoadAt(data[a], height) = data[a].cur
  <2>1. LogUpTo(data[a], height - 1)
    BY DEF IInv, TypeOK, DataBehind
  <2> QED
    BY <1>1, <2>1, LoadLatest
<1>5. [a \in Registered |-> LoadAt(data[a], height)] = Latest
  BY <1>4 DEF Latest
<1> QED
  BY <1>3, <1>5 DEF LatestMatch

\* Except in the block of the instantiation, a query reads for the total the
\* total of what it reads for the accounts (contract.rs:34, 84).
THEOREM TotalIsOfAccounts == Spec => []TotalMatchesAccounts
<1>1. IInv /\ LatestMatch => TotalMatchesAccounts
  BY MatchNow
<1>2. IInv /\ IInv' /\ LatestMatch /\ [Next]_vars => LatestMatch'
  BY StepLatestMatch
<1> QED
  BY <1>1, <1>2, InitLatestMatch, Invariance, PTL DEF Spec
-----------------------------------------------------------------------------
(* The contract implements GrantLedger.                                    *)

\* What vested is no more than the pro rata share of the elapsed time.
LEMMA VestedIsDue ==
  ASSUME NEW acct \in Account, Ordered(acct), NEW t \in Nat
  PROVE  /\ t < acct.start_time => VestedAmount(acct, t) = 0
         /\ acct.start_time <= t /\ t < acct.end_time =>
              VestedAmount(acct, t) * (acct.end_time - acct.start_time)
                <= acct.vesting_amount * (t - acct.start_time)
         /\ VestedAmount(acct, t) <= acct.vesting_amount
<1> DEFINE A == acct.vesting_amount
           s == acct.start_time
           e == acct.end_time
<1>1. A \in Nat /\ s \in Nat /\ e \in Nat
  BY MaxUintAssumption DEF Account, Amounts
<1>2. t < s => VestedAmount(acct, t) = 0
  BY DEF VestedAmount
<1>3. ASSUME s <= t, t < e
      PROVE  VestedAmount(acct, t) * (e - s) <= A * (t - s)
  <2> DEFINE x == A * (t - s)
             d == e - s
  <2>1. t - s \in Nat /\ d \in Nat /\ d > 0
    BY <1>1, <1>3
  <2>2. x \in Nat
    BY <1>1, <2>1, MulMono
  <2>3. VestedAmount(acct, t) = x \div d
    BY <1>1, <1>3 DEF VestedAmount
  <2>4. (x \div d) * d <= x
    BY <2>1, <2>2, DivFloor
  <2> QED
    BY <2>3, <2>4
<1> QED
  BY <1>2, <1>3, VestedBounds

\* The initial state is one of the ledger's.
LEMMA RefineInit == Init => Grants!GLInit
BY DEF Init, Grants!GLInit, Registered

\* Every step is a step of the ledger, or none.
LEMMA RefineStep ==
  IInv /\ IInv' /\ [Next]_vars => [Grants!GLNext]_(Grants!glvars)
<1> SUFFICES ASSUME IInv, IInv', [Next]_vars
             PROVE  Grants!GLNext \/ UNCHANGED Grants!glvars
  OBVIOUS
<1> USE DEF Registered
<1>1. CASE NextBlock
  <2>1. now' > now /\ UNCHANGED <<accounts, ledger>>
    BY <1>1, VestingAssumption DEF NextBlock, IInv, TypeOK
  <2>2. Grants!Tick
    BY <2>1 DEF Grants!Tick
  <2> QED
    BY <2>2 DEF Grants!GLNext
<1>2. ASSUME UNCHANGED <<now, accounts, ledger>>
      PROVE  UNCHANGED Grants!glvars
  BY <1>2 DEF Grants!glvars
<1>3. ASSUME NEW amount \in FundAmounts, Fund(amount)
      PROVE  UNCHANGED Grants!glvars
  BY <1>2, <1>3 DEF Fund, block
<1>4. ASSUME NEW sender \in Address, NEW a \in Address, UpdateOwner(sender, a)
      PROVE  UNCHANGED Grants!glvars
  BY <1>2, <1>4 DEF UpdateOwner, block
<1>5. ASSUME NEW sender \in Address, NEW a \in Address, NEW term \in Terms,
             Register(sender, a, term)
      PROVE  Grants!GLNext
  <2>1. /\ a \notin Registered
        /\ DOMAIN accounts' = Registered \cup {a}
        /\ \A b \in Registered : accounts'[b] = accounts[b]
        /\ term.vesting_amount > 0
        /\ ledger' = [ledger EXCEPT ![a] = [granted |-> term.vesting_amount, paid |-> 0]]
        /\ now' = now
    BY <1>5 DEF Register, Put, Valid, block
  <2>2. ledger \in [Address -> [granted : Nat, paid : Nat]]
    BY DEF IInv, TypeOK
  <2>3. Grants!Grant(a)
    BY <2>1, <2>2 DEF Grants!Grant
  <2> QED
    BY <2>3 DEF Grants!GLNext
<1>6. ASSUME NEW sender \in Address, NEW a \in Address, Deregister(sender, a)
      PROVE  Grants!GLNext
  <2>1. /\ a \in Registered
        /\ DOMAIN accounts' = Registered \ {a}
        /\ \A b \in Registered \ {a} : accounts'[b] = accounts[b]
        /\ ledger' = [ledger EXCEPT ![a].paid =
                        @ + Claimable(accounts[a], now) + Left(accounts[a], now)]
        /\ now' = now
    BY <1>6 DEF Deregister, Drop, block
  <2>2. ledger \in [Address -> [granted : Nat, paid : Nat]]
    BY DEF IInv, TypeOK
  <2>3. ledger'[a].paid = ledger[a].granted
    <3>1. a \notin DOMAIN accounts'
      BY <2>1
    <3>2. ledger'[a].paid = ledger'[a].granted
      BY <3>1 DEF IInv, GrantPaidExactly
    <3> QED
      BY <2>1, <2>2, <3>2
  <2>4. Grants!Settle(a)
    BY <2>1, <2>2, <2>3 DEF Grants!Settle
  <2> QED
    BY <2>4 DEF Grants!GLNext
<1>7. ASSUME NEW a \in Address, Claim(a)
      PROVE  Grants!GLNext
  <2> DEFINE v == VestedAmount(accounts[a], now)
  <2>1. /\ a \in Registered
        /\ accounts' = [accounts EXCEPT ![a].claimed_amount = v]
        /\ Claimable(accounts[a], now) > 0
        /\ ledger' = [ledger EXCEPT ![a].paid = @ + Claimable(accounts[a], now)]
        /\ now' = now
    BY <1>7 DEF Claim, block
  <2>2. /\ ledger \in [Address -> [granted : Nat, paid : Nat]]
        /\ accounts \in [Registered -> Account]
        /\ accounts[a] \in Account /\ Ordered(accounts[a]) /\ now \in Nat
    BY <2>1 DEF IInv, TypeOK, GoodAccounts, GoodAccount
  <2>3. /\ ledger[a].paid = accounts[a].claimed_amount
        /\ ledger[a].granted = accounts[a].vesting_amount
    BY <2>1 DEF IInv, GrantPaidExactly
  <2>4. v \in Nat /\ accounts[a].claimed_amount \in Nat
    BY <2>2, VestedBounds, MaxUintAssumption DEF Amounts, Account
  <2> DEFINE c == Claimable(accounts[a], now)
  <2>5. c = v - accounts[a].claimed_amount
    BY DEF Claimable
  <2>6. DOMAIN accounts' = DOMAIN accounts
    BY <2>1
  <2>7. \A b \in Registered : /\ accounts'[b].start_time = accounts[b].start_time
                              /\ accounts'[b].end_time = accounts[b].end_time
    BY <2>1, <2>2 DEF Account
  <2>8. Grants!Due(a, v, now)
    <3>1. /\ now < accounts[a].start_time => v = 0
          /\ accounts[a].start_time <= now /\ now < accounts[a].end_time =>
               v * (accounts[a].end_time - accounts[a].start_time)
                 <= accounts[a].vesting_amount * (now - accounts[a].start_time)
          /\ v <= accounts[a].vesting_amount
      BY <2>2, VestedIsDue
    <3> HIDE DEF v
    <3>2. [x \in Registered |-> [start |-> accounts[x].start_time,
                                 end   |-> accounts[x].end_time]][a]
            = [start |-> accounts[a].start_time, end |-> accounts[a].end_time]
      BY <2>1
    <3>3. [x \in Address |-> ledger[x].granted][a] = accounts[a].vesting_amount
      BY <2>3
    <3> QED
      BY <3>1, <3>2, <3>3 DEF Grants!Due
  <2> HIDE DEF v, c
  <2>9. /\ ledger'[a].paid = v
        /\ v > ledger[a].paid
        /\ \A b \in Address : ledger'[b].granted = ledger[b].granted
        /\ \A b \in Address \ {a} : ledger'[b].paid = ledger[b].paid
    <3>1. ledger' = [ledger EXCEPT ![a].paid = @ + c]
      BY <2>1 DEF c
    <3>2. c > 0
      BY <2>1 DEF c
    <3>3. ledger'[a].paid = ledger[a].paid + c
      BY <3>1, <2>2
    <3>4. /\ \A b \in Address : ledger'[b].granted = ledger[b].granted
          /\ \A b \in Address \ {a} : ledger'[b].paid = ledger[b].paid
      BY <3>1, <2>2
    <3> QED
      BY <3>2, <3>3, <3>4, <2>3, <2>4, <2>5
  <2>10. [b \in Address |-> ledger'[b].paid]
           = [[b \in Address |-> ledger[b].paid] EXCEPT ![a] = v]
    BY <2>9
  <2>11. [b \in Address |-> ledger'[b].granted]
           = [b \in Address |-> ledger[b].granted]
    BY <2>9
  <2>12. [b \in DOMAIN accounts' |-> [start |-> accounts'[b].start_time,
                                      end   |-> accounts'[b].end_time]]
           = [b \in DOMAIN accounts |-> [start |-> accounts[b].start_time,
                                         end   |-> accounts[b].end_time]]
    BY <2>6, <2>7
  <2>13. [b \in Address |-> ledger'[b].paid][a] = v
    BY <2>9
  <2>14. [b \in Address |-> ledger[b].paid][a] = ledger[a].paid
    OBVIOUS
  <2>15. Grants!Pay(a)
    BY <2>1, <2>6, <2>8, <2>9, <2>10, <2>11, <2>12, <2>13, <2>14 DEF Grants!Pay
  <2> QED
    BY <2>15 DEF Grants!GLNext
<1>8. CASE Snapshot
  BY <1>2, <1>8 DEF Snapshot, block
<1>9. CASE UNCHANGED vars
  BY <1>2, <1>9 DEF vars
<1> QED
  BY <1>1, <1>3, <1>4, <1>5, <1>6, <1>7, <1>8, <1>9 DEF Next

\* The vesting contract implements the ledger of grants.
THEOREM Refinement == Spec => GrantLedgerSpec
<1>1. IInv /\ IInv' /\ [Next]_vars => [Grants!GLNext]_(Grants!glvars)
  BY RefineStep
<1> QED
  BY <1>1, RefineInit, Invariance, PTL DEF Spec, GrantLedgerSpec, Grants!GLSpec
=============================================================================
