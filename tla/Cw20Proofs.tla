----------------------------- MODULE Cw20Proofs -----------------------------
(***************************************************************************)
(* Proofs about Cw20, for any addresses, amounts, expirations and bounds:  *)
(* allowances, the logo, and the supply of a token that begins with one    *)
(* row for each address.                                                   *)
(***************************************************************************)
EXTENDS Cw20, SumProofs

AllowanceRecord == [allowance : Nat, expires : Nat \cup {Never}]

AllowancesTyped ==
  /\ DOMAIN allowances \subseteq Pairs
  /\ \A k \in DOMAIN allowances : allowances[k] \in AllowanceRecord
  /\ granted \in [Pairs -> Nat] /\ spent \in [Pairs -> Nat]

GrantInv == AllowancesTyped /\ SpentWithinGranted

\* What is stored of the logo was verified, and is announced.
InfoInv ==
  /\ marketing \in Info \cup {NoInfo}
  /\ logo \in {l \in Logos : Verified(l)} \cup {NoLogo}
  /\ Shown.logo = Announced(logo)

-----------------------------------------------------------------------------
(* Allowances.                                                             *)

LEMMA AllowanceOfType ==
  ASSUME AllowancesTyped, NEW k \in Pairs
  PROVE  AllowanceOf(k) \in AllowanceRecord
BY DEF AllowancesTyped, AllowanceOf, Default, AllowanceRecord

(* An expiration changes nothing else of an allowance.                     *)
LEMMA ExpiringKeeps ==
  ASSUME NEW allow \in AllowanceRecord, NEW expires \in Asked
  PROVE  /\ Expiring(allow, expires) \in AllowanceRecord
         /\ Expiring(allow, expires).allowance = allow.allowance
<1>1. CASE expires = {}
    BY <1>1 DEF Expiring
<1>2. CASE expires # {}
  <2> DEFINE e == CHOOSE x \in expires : TRUE
  <2>1. e \in expires
      BY <1>2
  <2>2. e \in Nat \cup {Never}
      BY <2>1, Cw20Assumption DEF Asked
  <2>3. Expiring(allow, expires) = [allow EXCEPT !.expires = e]
      BY <1>2 DEF Expiring
  <2> HIDE DEF e
  <2> QED
      BY <2>2, <2>3 DEF AllowanceRecord
<1> QED
    BY <1>1, <1>2

(* What is put under a key is its allowance from then on; of the others    *)
(* nothing changes.                                                        *)
LEMMA PutAllowance ==
  ASSUME AllowancesTyped, NEW k \in Pairs, NEW allow \in AllowanceRecord,
         allowances' = Put(allowances, k, allow)
  PROVE  /\ DOMAIN allowances' \subseteq Pairs
         /\ \A j \in DOMAIN allowances' : allowances'[j] \in AllowanceRecord
         /\ \A j \in Pairs : AllowanceOf(j)' = IF j = k THEN allow ELSE AllowanceOf(j)
<1>1. /\ DOMAIN allowances' = DOMAIN allowances \cup {k}
      /\ \A j \in DOMAIN allowances' :
           allowances'[j] = IF j = k THEN allow ELSE allowances[j]
    BY DEF Put
<1>2. \A j \in DOMAIN allowances' : allowances'[j] \in AllowanceRecord
    BY <1>1 DEF AllowancesTyped
<1>3. \A j \in Pairs : AllowanceOf(j)' = IF j = k THEN allow ELSE AllowanceOf(j)
    BY <1>1 DEF AllowanceOf
<1> QED
    BY <1>1, <1>2, <1>3 DEF AllowancesTyped

LEMMA InitGrantInv == Init => GrantInv
<1> SUFFICES ASSUME Init PROVE GrantInv
    OBVIOUS
<1>1. DOMAIN allowances = {}
    BY DEF Init
<1>2. AllowancesTyped
    BY <1>1 DEF Init, AllowancesTyped
<1>3. SpentWithinGranted
  <2> SUFFICES ASSUME NEW k \in Pairs
               PROVE  spent[k] + AllowanceOf(k).allowance <= granted[k]
      BY DEF SpentWithinGranted
  <2>1. AllowanceOf(k).allowance = 0
      BY <1>1 DEF AllowanceOf, Default
  <2> QED
      BY <2>1 DEF Init
<1> QED
    BY <1>2, <1>3 DEF GrantInv

LEMMA AsideGrants ==
  ASSUME GrantInv, UNCHANGED <<allowances, granted, spent>>
  PROVE  GrantInv'
BY DEF GrantInv, AllowancesTyped, SpentWithinGranted, AllowanceOf

LEMMA IncreaseStep ==
  ASSUME GrantInv, NEW sender \in Address, NEW spender \in Address,
         NEW amount \in Amounts, NEW expires \in Asked,
         IncreaseAllowance(sender, spender, amount, expires)
  PROVE  GrantInv'
<1> DEFINE k     == <<sender, spender>>
           allow == Expiring(AllowanceOf(k), expires)
           more  == [allow EXCEPT !.allowance = @ + amount]
<1>t. AllowancesTyped /\ k \in Pairs /\ amount \in Nat
    BY Cw20Assumption DEF GrantInv, Pairs
<1>1. allow \in AllowanceRecord /\ allow.allowance = AllowanceOf(k).allowance
    BY <1>t, AllowanceOfType, ExpiringKeeps
<1>2. /\ allowances' = Put(allowances, k, more)
      /\ granted' = [granted EXCEPT ![k] = @ + amount]
      /\ spent' = spent
    BY DEF IncreaseAllowance
<1> HIDE DEF allow
<1>3. more \in AllowanceRecord /\ more.allowance = AllowanceOf(k).allowance + amount
    BY <1>t, <1>1 DEF AllowanceRecord
<1> HIDE DEF more, k
<1>4. /\ DOMAIN allowances' \subseteq Pairs
      /\ \A j \in DOMAIN allowances' : allowances'[j] \in AllowanceRecord
      /\ \A j \in Pairs : AllowanceOf(j)' = IF j = k THEN more ELSE AllowanceOf(j)
    BY <1>t, <1>2, <1>3, PutAllowance
<1>5. AllowancesTyped'
    BY <1>t, <1>2, <1>4 DEF AllowancesTyped
<1>6. SpentWithinGranted'
  <2> SUFFICES ASSUME NEW j \in Pairs
               PROVE  spent'[j] + (AllowanceOf(j)').allowance <= granted'[j]
      BY DEF SpentWithinGranted
  <2>1. /\ spent[j] + AllowanceOf(j).allowance <= granted[j]
        /\ spent[j] \in Nat /\ granted[j] \in Nat
        /\ AllowanceOf(j).allowance \in Nat
      BY <1>t, AllowanceOfType DEF GrantInv, SpentWithinGranted, AllowancesTyped, AllowanceRecord
  <2>2. CASE j = k
    <3>1. granted'[j] = granted[j] + amount
        BY <2>2, <1>2, <1>t DEF AllowancesTyped
    <3>2. (AllowanceOf(j)').allowance = AllowanceOf(j).allowance + amount
        BY <2>2, <1>3, <1>4
    <3> QED
        BY <3>1, <3>2, <2>1, <1>2, <1>t
  <2>3. CASE j # k
    <3>1. granted'[j] = granted[j]
        BY <2>3, <1>2, <1>t DEF AllowancesTyped
    <3> QED
        BY <3>1, <2>1, <2>3, <1>2, <1>4
  <2> QED
      BY <2>2, <2>3
<1> QED
    BY <1>5, <1>6 DEF GrantInv

LEMMA DecreaseStep ==
  ASSUME GrantInv, NEW sender \in Address, NEW spender \in Address,
         NEW amount \in Amounts, NEW expires \in Asked,
         DecreaseAllowance(sender, spender, amount, expires)
  PROVE  GrantInv'
<1> DEFINE k    == <<sender, spender>>
           less == Expiring(Lowered(allowances[k], amount), expires)
<1>t. AllowancesTyped /\ k \in Pairs /\ amount \in Nat
    BY Cw20Assumption DEF GrantInv, Pairs
<1>1. k \in DOMAIN allowances /\ granted' = granted /\ spent' = spent
    BY DEF DecreaseAllowance
<1>2. allowances' = IF amount < allowances[k].allowance
                    THEN Put(allowances, k, less) ELSE Drop(allowances, k)
    BY DEF DecreaseAllowance
<1>3. amount < allowances[k].allowance =>
        /\ less \in AllowanceRecord
        /\ less.allowance <= AllowanceOf(k).allowance
  <2> SUFFICES ASSUME amount < allowances[k].allowance
               PROVE  /\ less \in AllowanceRecord
                      /\ less.allowance <= AllowanceOf(k).allowance
      OBVIOUS
  <2>1. allowances[k] \in AllowanceRecord /\ AllowanceOf(k) = allowances[k]
      BY <1>t, <1>1 DEF AllowancesTyped, AllowanceOf
  <2>2. /\ Lowered(allowances[k], amount) \in AllowanceRecord
        /\ Lowered(allowances[k], amount).allowance <= allowances[k].allowance
      BY <2>1, <1>t DEF Lowered, AllowanceRecord
  <2> QED
      BY <2>1, <2>2, ExpiringKeeps
<1> HIDE DEF less, k
<1>4. /\ DOMAIN allowances' \subseteq Pairs
      /\ \A j \in DOMAIN allowances' : allowances'[j] \in AllowanceRecord
      /\ \A j \in Pairs : /\ AllowanceOf(j)' \in AllowanceRecord
                          /\ (AllowanceOf(j)').allowance <= AllowanceOf(j).allowance
  <2>0. \A j \in Pairs : /\ AllowanceOf(j) \in AllowanceRecord
                         /\ AllowanceOf(j).allowance \in Nat
      BY <1>t, AllowanceOfType DEF AllowanceRecord
  <2>1. CASE amount < allowances[k].allowance
    <3>1. allowances' = Put(allowances, k, less)
        BY <2>1, <1>2
    <3>2. /\ DOMAIN allowances' \subseteq Pairs
          /\ \A j \in DOMAIN allowances' : allowances'[j] \in AllowanceRecord
          /\ \A j \in Pairs : AllowanceOf(j)' = IF j = k THEN less ELSE AllowanceOf(j)
        BY <3>1, <2>1, <1>3, <1>t, PutAllowance
    <3> QED
        BY <3>2, <2>0, <2>1, <1>3
  <2>2. CASE ~(amount < allowances[k].allowance)
    <3>1. /\ DOMAIN allowances' = DOMAIN allowances \ {k}
          /\ \A j \in DOMAIN allowances' : allowances'[j] = allowances[j]
        BY <2>2, <1>2 DEF Drop
    <3>2. \A j \in Pairs : AllowanceOf(j)' = IF j = k THEN Default ELSE AllowanceOf(j)
        BY <3>1 DEF AllowanceOf
    <3>3. Default \in AllowanceRecord /\ Default.allowance = 0
        BY DEF Default, AllowanceRecord
    <3> QED
        BY <3>1, <3>2, <3>3, <2>0, <1>t DEF AllowancesTyped
  <2> QED
      BY <2>1, <2>2
<1>5. AllowancesTyped'
    BY <1>t, <1>1, <1>4 DEF AllowancesTyped
<1>6. SpentWithinGranted'
  <2> SUFFICES ASSUME NEW j \in Pairs
               PROVE  spent'[j] + (AllowanceOf(j)').allowance <= granted'[j]
      BY DEF SpentWithinGranted
  <2>1. /\ spent[j] + AllowanceOf(j).allowance <= granted[j]
        /\ spent[j] \in Nat /\ granted[j] \in Nat
        /\ AllowanceOf(j).allowance \in Nat
      BY <1>t, AllowanceOfType DEF GrantInv, SpentWithinGranted, AllowancesTyped, AllowanceRecord
  <2>2. (AllowanceOf(j)').allowance \in Nat
      BY <1>4 DEF AllowanceRecord
  <2>3. (AllowanceOf(j)').allowance <= AllowanceOf(j).allowance
      BY <1>4
  <2> QED
      BY <2>1, <2>2, <2>3, <1>1
<1> QED
    BY <1>5, <1>6 DEF GrantInv

LEMMA DeductStep ==
  ASSUME GrantInv, NEW sender \in Address, NEW owner \in Address,
         NEW amount \in Amounts, Deduct(<<owner, sender>>, amount),
         granted' = granted
  PROVE  GrantInv'
<1> DEFINE k    == <<owner, sender>>
           less == Lowered(allowances[k], amount)
<1>t. AllowancesTyped /\ k \in Pairs /\ amount \in Nat
    BY Cw20Assumption DEF GrantInv, Pairs
<1>1. /\ k \in DOMAIN allowances
      /\ amount <= allowances[k].allowance
      /\ allowances' = [allowances EXCEPT ![k] = less]
      /\ spent' = [spent EXCEPT ![k] = @ + amount]
    BY DEF Deduct
<1>2. allowances[k] \in AllowanceRecord /\ AllowanceOf(k) = allowances[k]
    BY <1>t, <1>1 DEF AllowancesTyped, AllowanceOf
<1>3. less \in AllowanceRecord /\ less.allowance = AllowanceOf(k).allowance - amount
    BY <1>1, <1>2, <1>t DEF Lowered, AllowanceRecord
<1> HIDE DEF less, k
<1>4. /\ DOMAIN allowances' = DOMAIN allowances
      /\ \A j \in DOMAIN allowances :
           allowances'[j] = IF j = k THEN less ELSE allowances[j]
    BY <1>1
<1>5. \A j \in Pairs : AllowanceOf(j)' = IF j = k THEN less ELSE AllowanceOf(j)
    BY <1>1, <1>4 DEF AllowanceOf
<1>6. AllowancesTyped'
    BY <1>t, <1>1, <1>3, <1>4 DEF AllowancesTyped
<1>7. SpentWithinGranted'
  <2> SUFFICES ASSUME NEW j \in Pairs
               PROVE  spent'[j] + (AllowanceOf(j)').allowance <= granted'[j]
      BY DEF SpentWithinGranted
  <2>1. /\ spent[j] + AllowanceOf(j).allowance <= granted[j]
        /\ spent[j] \in Nat /\ granted[j] \in Nat
        /\ AllowanceOf(j).allowance \in Nat
      BY <1>t, AllowanceOfType DEF GrantInv, SpentWithinGranted, AllowancesTyped, AllowanceRecord
  <2>2. CASE j = k
    <3>1. spent'[j] = spent[j] + amount
        BY <2>2, <1>1, <1>t DEF AllowancesTyped
    <3>2. (AllowanceOf(j)').allowance = AllowanceOf(j).allowance - amount
        BY <2>2, <1>3, <1>5
    <3> QED
        BY <3>1, <3>2, <2>1, <1>t
  <2>3. CASE j # k
    <3>1. spent'[j] = spent[j]
        BY <2>3, <1>1, <1>t DEF AllowancesTyped
    <3> QED
        BY <3>1, <2>1, <2>3, <1>5
  <2> QED
      BY <2>2, <2>3
<1> QED
    BY <1>6, <1>7 DEF GrantInv

LEMMA StepGrantInv == GrantInv /\ [Next]_vars => GrantInv'
<1> SUFFICES ASSUME GrantInv, [Next]_vars PROVE GrantInv'
    OBVIOUS
<1>1. CASE UNCHANGED vars
    BY <1>1, AsideGrants DEF vars, tokens
<1>2. CASE NextBlock
    BY <1>2, AsideGrants DEF NextBlock, tokens
<1>3. ASSUME NEW sender \in Address, NEW to \in Address, NEW amount \in Amounts,
             Transfer(sender, to, amount) \/ Send(sender, to, amount)
      PROVE  GrantInv'
    BY <1>3, AsideGrants DEF Transfer, Send
<1>4. ASSUME NEW sender \in Address, NEW spender \in Address,
             NEW amount \in Amounts, NEW expires \in Asked,
             \/ IncreaseAllowance(sender, spender, amount, expires)
             \/ DecreaseAllowance(sender, spender, amount, expires)
      PROVE  GrantInv'
    BY <1>4, IncreaseStep, DecreaseStep
<1>5. ASSUME NEW sender \in Address, NEW owner \in Address, NEW to \in Address,
             NEW amount \in Amounts,
             TransferFrom(sender, owner, to, amount) \/ SendFrom(sender, owner, to, amount)
      PROVE  GrantInv'
  <2>1. Deduct(<<owner, sender>>, amount) /\ granted' = granted
      BY <1>5 DEF TransferFrom, SendFrom
  <2> QED
      BY <2>1, DeductStep
<1>6. ASSUME NEW sender \in Address, NEW m \in Info, UpdateMarketing(sender, m)
      PROVE  GrantInv'
    BY <1>6, AsideGrants DEF UpdateMarketing, tokens
<1>7. ASSUME NEW sender \in Address, NEW l \in Logos, UploadLogo(sender, l)
      PROVE  GrantInv'
    BY <1>7, AsideGrants DEF UploadLogo, tokens
<1> QED
    BY <1>1, <1>2, <1>3, <1>4, <1>5, <1>6, <1>7 DEF Next

-----------------------------------------------------------------------------
(* The logo.                                                               *)

LEMMA NoInfoIsNone == NoInfo \notin Info
BY DEF NoInfo, Info

(* No logo is mistaken for NoLogo.                                        *)
LEMMA LogoIsSome ==
  ASSUME NEW l \in Logos
  PROVE  /\ l \in [format : {"url", "svg", "png"},
                    data : {"xml", "png", "other"}, size : Nat]
         /\ l # NoLogo
BY Cw20Assumption DEF NoLogo

LEMMA StepInfoInv == InfoInv /\ [Next]_vars => InfoInv'
<1> SUFFICES ASSUME InfoInv, [Next]_vars PROVE InfoInv'
    OBVIOUS
<1>1. CASE UNCHANGED info
    BY <1>1 DEF info, InfoInv, Shown, Announced
<1>2. ASSUME NEW sender \in Address, NEW m \in Info, UpdateMarketing(sender, m)
      PROVE  InfoInv'
  <2>1. marketing # NoInfo /\ m.logo = marketing.logo /\ logo' = logo
      BY <1>2 DEF UpdateMarketing, Marketer
  <2>2. m.logo = Announced(logo) /\ Announced(logo)' = Announced(logo)
      BY <2>1 DEF InfoInv, Shown, Announced
  <2>3. CASE Worthless(m)
    <3>1. marketing' = NoInfo /\ m.logo = "none"
        BY <1>2, <2>3 DEF UpdateMarketing, Worthless
    <3> QED
        BY <2>1, <2>2, <3>1 DEF InfoInv, Shown
  <2>4. CASE ~Worthless(m)
    <3>1. marketing' = m
        BY <1>2, <2>4 DEF UpdateMarketing
    <3> QED
        BY <2>1, <2>2, <3>1, NoInfoIsNone DEF InfoInv, Shown
  <2> QED
      BY <2>3, <2>4
<1>3. ASSUME NEW sender \in Address, NEW l \in Logos, UploadLogo(sender, l)
      PROVE  InfoInv'
  <2>1. /\ marketing \in Info /\ Verified(l)
        /\ marketing' = [marketing EXCEPT !.logo = Announced(l)] /\ logo' = l
      BY <1>3 DEF UploadLogo, Marketer, InfoInv
  <2>2. Announced(l) \in {"none", "url", "embedded"}
      BY DEF Announced
  <2>3. marketing' \in Info /\ marketing'.logo = Announced(l)
      BY <2>1, <2>2 DEF Info
  <2>4. Announced(logo)' = Announced(l)
      BY <2>1 DEF Announced
  <2> QED
      BY <2>1, <2>3, <2>4, NoInfoIsNone DEF InfoInv, Shown
<1> QED
    BY <1>1, <1>2, <1>3
    DEF Next, vars, NextBlock, Transfer, Send, IncreaseAllowance,
        DecreaseAllowance, TransferFrom, SendFrom

(* A verified logo that is stored here is small and of its type.           *)
LEMMA InfoInvAnnounces == InfoInv => LogoIsAnnounced
<1> SUFFICES ASSUME InfoInv PROVE LogoIsAnnounced
    OBVIOUS
<1>1. CASE logo = NoLogo
    BY <1>1 DEF InfoInv, LogoIsAnnounced, Announced, Download
<1>2. CASE logo # NoLogo
  <2>1. /\ logo \in [format : {"url", "svg", "png"},
                     data : {"xml", "png", "other"}, size : Nat]
        /\ Verified(logo)
      BY <1>2, LogoIsSome DEF InfoInv
  <2>2. (Shown.logo = "embedded") <=> (Download # {})
      BY <1>2, <2>1 DEF InfoInv, Announced, Download
  <2>3. ASSUME NEW d \in Download
        PROVE  /\ d.size <= LOGO_SIZE_CAP
               /\ <<d.mime_type, d.data>> \in
                    {<<"image/svg+xml", "xml">>, <<"image/png", "png">>}
    <3>1. /\ logo.format # "url"
          /\ d = [data |-> logo.data, size |-> logo.size,
                  mime_type |-> IF logo.format = "svg"
                                THEN "image/svg+xml" ELSE "image/png"]
        BY <2>3 DEF Download
    <3> QED
        BY <2>1, <3>1 DEF Verified, BeginsAs, SmallEnough
  <2> QED
      BY <2>2, <2>3 DEF InfoInv, LogoIsAnnounced
<1> QED
    BY <1>1, <1>2

-----------------------------------------------------------------------------
(* The supply.                                                             *)

\* No address has two of the initial rows.
OneRowEach ==
  \A rows \in InitialBalances : \A i, j \in DOMAIN rows :
    rows[i].address = rows[j].address => i = j

\* Which of some rows are an address's; what the addresses of some rows have.
RowsOf(rows, s, a) == {i \in s : rows[i].address = a}
AmountAt(rows) == [i \in DOMAIN rows |-> rows[i].amount]
HadBy(rows, s) ==
  [a \in Address |-> IF RowsOf(rows, s, a) = {} THEN 0
                     ELSE rows[Max(RowsOf(rows, DOMAIN rows, a))].amount]

LEMMA RowsTyped ==
  ASSUME NEW rows \in InitialBalances
  PROVE  /\ IsFiniteSet(DOMAIN rows) /\ DOMAIN rows \subseteq Nat
         /\ \A i \in DOMAIN rows :
              /\ rows[i].address \in Address
              /\ rows[i].amount \in 0 .. MaxUint /\ rows[i].amount \in Int
              /\ AmountAt(rows)[i] = rows[i].amount
<1> DEFINE Row == [address : Address, amount : 0 .. MaxUint]
<1>1. rows \in Seq(Row) /\ MaxUint \in Nat
    BY Cw20Assumption
<1>2. DOMAIN rows = 1 .. Len(rows) /\ Len(rows) \in Nat
    BY <1>1
<1>3. \A i \in DOMAIN rows : rows[i] \in Row
  <2> HIDE DEF Row
  <2> QED
      BY <1>1, <1>2
<1>4. IsFiniteSet(DOMAIN rows)
    BY <1>2, FS_Interval
<1> QED
    BY <1>1, <1>2, <1>3, <1>4 DEF AmountAt

LEMMA RowFound ==
  ASSUME OneRowEach, NEW rows \in InitialBalances,
         NEW s \in SUBSET DOMAIN rows, NEW i \in s
  PROVE  /\ HadBy(rows, s)[rows[i].address] = rows[i].amount
         /\ HadBy(rows, s \ {i})[rows[i].address] = 0
<1>1. \A j \in DOMAIN rows : rows[j].address = rows[i].address => j = i
    BY DEF OneRowEach
<1>2. /\ RowsOf(rows, s, rows[i].address) = {i}
      /\ RowsOf(rows, DOMAIN rows, rows[i].address) = {i}
      /\ RowsOf(rows, s \ {i}, rows[i].address) = {}
    BY <1>1 DEF RowsOf
<1>3. i \in Nat /\ rows[i].address \in Address
    BY RowsTyped
<1>4. Max({i}) = i
    BY <1>3 DEF Max
<1> QED
    BY <1>2, <1>3, <1>4 DEF HadBy

LEMMA OthersFound ==
  ASSUME NEW rows \in InitialBalances, NEW s \in SUBSET DOMAIN rows, NEW i \in s,
         NEW a \in Address, a # rows[i].address
  PROVE  HadBy(rows, s)[a] = HadBy(rows, s \ {i})[a]
<1>1. RowsOf(rows, s, a) = RowsOf(rows, s \ {i}, a)
    BY DEF RowsOf
<1> QED
    BY <1>1 DEF HadBy

LEMMA HadTyped ==
  ASSUME OneRowEach, NEW rows \in InitialBalances,
         NEW s \in SUBSET DOMAIN rows, NEW a \in Address
  PROVE  HadBy(rows, s)[a] \in Int
<1>1. CASE RowsOf(rows, s, a) = {}
    BY <1>1 DEF HadBy
<1>2. CASE RowsOf(rows, s, a) # {}
  <2>1. PICK i \in s : rows[i].address = a
      BY <1>2 DEF RowsOf
  <2>2. HadBy(rows, s)[rows[i].address] = rows[i].amount
      BY RowFound
  <2>3. rows[i].amount \in Int
      BY RowsTyped
  <2> QED
      BY <2>1, <2>2, <2>3
<1> QED
    BY <1>1, <1>2

\* Addresses have the amount of their row; so the amounts of any of the rows
\* add up to what their addresses have: of a least set of rows for which they
\* would not, a row could be left out.
LEMMA RowsAddUp ==
  ASSUME OneRowEach, NEW rows \in InitialBalances
  PROVE  SumFunction(Accounts(rows)) = SupplyOf(rows)
<1> DEFINE Bad == {s \in SUBSET DOMAIN rows :
                     SumFunctionOnSet(HadBy(rows, s), Address)
                       # SumFunctionOnSet(AmountAt(rows), s)}
<1>1. /\ IsFiniteSet(Address) /\ IsFiniteSet(DOMAIN rows)
      /\ \A s \in SUBSET DOMAIN rows : IsFiniteSet(s)
    BY Cw20Assumption, RowsTyped, FS_Subset
<1>2. Bad = {}
  <2> SUFFICES ASSUME Bad # {}
               PROVE  FALSE
      OBVIOUS
  <2>1. PICK s \in Bad : \A t \in Bad : t \subseteq s => t = s
    <3>1. Bad \subseteq SUBSET DOMAIN rows
        OBVIOUS
    <3> HIDE DEF Bad
    <3> QED
        BY <1>1, <3>1, LeastSubset
  <2>2. s \in SUBSET DOMAIN rows
      OBVIOUS
  <2>3. CASE s = {}
    <3>1. \A a \in Address : HadBy(rows, {})[a] = 0
        BY DEF HadBy, RowsOf
    <3> QED
        BY <1>1, <2>1, <2>3, <3>1, SumOfZeros, SumOfNone
  <2>4. CASE s # {}
    <3>1. PICK i \in s : TRUE
        BY <2>4
    <3> HIDE DEF Bad
    <3>2. SumFunctionOnSet(HadBy(rows, s \ {i}), Address)
            = SumFunctionOnSet(AmountAt(rows), s \ {i})
        BY <2>1, <2>2 DEF Bad
    <3>3. /\ rows[i].address \in Address
          /\ rows[i].amount \in Int /\ AmountAt(rows)[i] = rows[i].amount
        BY <2>2, RowsTyped
    <3>4. /\ HadBy(rows, s)[rows[i].address] = rows[i].amount
          /\ HadBy(rows, s \ {i})[rows[i].address] = 0
          /\ \A a \in Address \ {rows[i].address} :
               HadBy(rows, s)[a] = HadBy(rows, s \ {i})[a]
        BY <2>2, RowFound, OthersFound
    <3>5. \A a \in Address : HadBy(rows, s \ {i})[a] \in Int
        BY <2>2, HadTyped
    <3>6. SumFunctionOnSet(HadBy(rows, s), Address)
            = SumFunctionOnSet(HadBy(rows, s \ {i}), Address)
                - HadBy(rows, s \ {i})[rows[i].address]
                + HadBy(rows, s)[rows[i].address]
      <4> DEFINE a == rows[i].address
                 f == HadBy(rows, s \ {i})
                 g == HadBy(rows, s)
      <4>1. /\ \A x \in Address : f[x] \in Int
            /\ g[a] \in Int /\ a \in Address /\ IsFiniteSet(Address)
            /\ \A x \in Address \ {a} : g[x] = f[x]
          BY <1>1, <3>3, <3>4, <3>5
      <4> HIDE DEF a, f, g
      <4>2. SumFunctionOnSet(g, Address) = SumFunctionOnSet(f, Address) - f[a] + g[a]
          BY <4>1, SumOfChanged
      <4> QED
          BY <4>2 DEF a, f, g
    <3>7. SumFunctionOnSet(HadBy(rows, s \ {i}), Address) \in Int
        BY <1>1, <3>5, SumIsInt
    <3>8. SumFunctionOnSet(AmountAt(rows), s)
            = AmountAt(rows)[i] + SumFunctionOnSet(AmountAt(rows), s \ {i})
      <4>1. \A x \in s : AmountAt(rows)[x] \in Int
          BY <2>2, RowsTyped
      <4> QED
          BY <1>1, <2>2, <4>1, SumWithout
    <3>9. SumFunctionOnSet(HadBy(rows, s), Address)
            # SumFunctionOnSet(AmountAt(rows), s)
        BY <2>1 DEF Bad
    <3> QED
        BY <3>3, <3>2, <3>4, <3>6, <3>7, <3>8, <3>9
  <2> QED
      BY <2>3, <2>4
<1>3. Accounts(rows) = HadBy(rows, DOMAIN rows)
    BY DEF Accounts, HadBy, RowsOf
<1>4. DOMAIN Accounts(rows) = Address /\ DOMAIN AmountAt(rows) = DOMAIN rows
    BY DEF Accounts, AmountAt
<1>5. SumFunctionOnSet(HadBy(rows, DOMAIN rows), Address)
        = SumFunctionOnSet(AmountAt(rows), DOMAIN rows)
    BY <1>2
<1>6. SupplyOf(rows) = SumFunction(AmountAt(rows))
    BY DEF SupplyOf, AmountAt
<1> QED
    BY <1>3, <1>4, <1>5, <1>6 DEF SumFunction

BalancesInv ==
  /\ balances \in [Address -> 0 .. MaxUint]
  /\ SupplyIsHeld

\* Tokens that move are taken from one address and given to another.
LEMMA MovedAddsUp ==
  ASSUME BalancesInv, NEW from \in Address, NEW to \in Address, NEW amount \in Nat,
         amount <= balances[from]
  PROVE  /\ Moved(balances, from, to, amount) \in [Address -> Int]
         /\ \A a \in Address : a # to => Moved(balances, from, to, amount)[a] \in 0 .. MaxUint
         /\ Moved(balances, from, to, amount)[to] \in Nat
         /\ SumFunction(Moved(balances, from, to, amount)) = SumFunction(balances)
<1> DEFINE b == [balances EXCEPT ![from] = @ - amount]
           c == [b EXCEPT ![to] = @ + amount]
<1>1. /\ balances \in [Address -> 0 .. MaxUint]
      /\ MaxUint \in Nat /\ IsFiniteSet(Address)
    BY Cw20Assumption DEF BalancesInv
<1>2. /\ \A x \in Address : balances[x] \in Int
      /\ b[from] = balances[from] - amount
      /\ \A x \in Address \ {from} : b[x] = balances[x]
      /\ \A x \in Address : b[x] \in 0 .. MaxUint
      /\ DOMAIN b = Address
    BY <1>1
<1>3. /\ c[to] = b[to] + amount
      /\ \A x \in Address \ {to} : c[x] = b[x]
      /\ DOMAIN c = Address
      /\ c = Moved(balances, from, to, amount)
      /\ c \in [Address -> Int]
    BY <1>1, <1>2 DEF Moved
<1> HIDE DEF b, c
<1>4. SumFunctionOnSet(b, Address) = SumFunctionOnSet(balances, Address) - amount
  <2>1. SumFunctionOnSet(b, Address)
          = SumFunctionOnSet(balances, Address) - balances[from] + b[from]
      BY <1>1, <1>2, SumOfChanged
  <2>2. SumFunctionOnSet(balances, Address) \in Int
      BY <1>1, <1>2, SumIsInt
  <2> QED
      BY <1>2, <2>1, <2>2
<1>5. SumFunctionOnSet(c, Address) = SumFunctionOnSet(b, Address) + amount
  <2>1. SumFunctionOnSet(c, Address) = SumFunctionOnSet(b, Address) - b[to] + c[to]
    <3>1. c[to] \in Int /\ \A x \in Address : b[x] \in Int
        BY <1>2, <1>3
    <3> QED
        BY <1>1, <1>3, <3>1, SumOfChanged
  <2>2. SumFunctionOnSet(b, Address) \in Int
    <3>1. \A x \in Address : b[x] \in Int
        BY <1>2
    <3> QED
        BY <1>1, <3>1, SumIsInt
  <2>3. b[to] \in Int
      BY <1>2
  <2> QED
      BY <1>3, <2>1, <2>2, <2>3
<1>6. SumFunctionOnSet(balances, Address) \in Int /\ DOMAIN balances = Address
    BY <1>1, <1>2, SumIsInt
<1>7. SumFunctionOnSet(c, Address) = SumFunctionOnSet(balances, Address)
    BY <1>4, <1>5, <1>6
<1>8. SumFunction(c) = SumFunction(balances)
    BY <1>3, <1>6, <1>7 DEF SumFunction
<1> QED
    BY <1>1, <1>2, <1>3, <1>8

LEMMA MoveKeeps ==
  ASSUME BalancesInv, NEW from \in Address, NEW to \in Address, NEW amount \in Amounts,
         Move(from, to, amount), UNCHANGED total_supply
  PROVE  BalancesInv'
<1>1. amount \in Nat /\ amount <= balances[from] /\ MaxUint \in Nat
    BY Cw20Assumption DEF Move
<1>2. balances' = Moved(balances, from, to, amount) /\ balances'[to] <= MaxUint
    BY DEF Move
<1>3. balances' \in [Address -> Int] /\ \A a \in Address : balances'[a] \in 0 .. MaxUint
    BY <1>1, <1>2, MovedAddsUp
<1>4. SumFunction(balances') = SumFunction(balances)
    BY <1>1, <1>2, MovedAddsUp
<1> QED
    BY <1>3, <1>4 DEF BalancesInv, SupplyIsHeld

LEMMA InitBalancesInv == OneRowEach /\ Init => BalancesInv
<1> SUFFICES ASSUME OneRowEach, Init
             PROVE  BalancesInv
    OBVIOUS
<1>1. PICK rows \in InitialBalances :
        balances = Accounts(rows) /\ total_supply = SupplyOf(rows)
    BY DEF Init
<1>2. balances \in [Address -> 0 .. MaxUint]
  <2>1. \A i \in DOMAIN rows : rows[i].amount \in 0 .. MaxUint
      BY RowsTyped
  <2>2. ASSUME NEW a \in Address
        PROVE  HadBy(rows, DOMAIN rows)[a] \in 0 .. MaxUint
    <3>1. CASE RowsOf(rows, DOMAIN rows, a) = {}
        BY <3>1, Cw20Assumption DEF HadBy
    <3>2. CASE RowsOf(rows, DOMAIN rows, a) # {}
      <4>1. PICK i \in DOMAIN rows : rows[i].address = a
          BY <3>2 DEF RowsOf
      <4>2. DOMAIN rows \in SUBSET DOMAIN rows
          OBVIOUS
      <4>3. HadBy(rows, DOMAIN rows)[rows[i].address] = rows[i].amount
          BY <4>2, RowFound
      <4> QED
          BY <2>1, <4>1, <4>3
    <3> QED
        BY <3>1, <3>2
  <2>3. Accounts(rows) = HadBy(rows, DOMAIN rows)
      BY DEF Accounts, HadBy, RowsOf
  <2>4. HadBy(rows, DOMAIN rows) \in [Address -> 0 .. MaxUint]
      BY <2>2 DEF HadBy
  <2> QED
      BY <1>1, <2>3, <2>4
<1>3. SumFunction(Accounts(rows)) = SupplyOf(rows)
    BY RowsAddUp
<1> QED
    BY <1>1, <1>2, <1>3 DEF BalancesInv, SupplyIsHeld

LEMMA StepBalancesInv == BalancesInv /\ [Next]_vars => BalancesInv'
<1> SUFFICES ASSUME BalancesInv, [Next]_vars
             PROVE  BalancesInv'
    OBVIOUS
<1>1. ASSUME NEW sender \in Address, NEW to \in Address, NEW amount \in Amounts,
             Transfer(sender, to, amount) \/ Send(sender, to, amount)
      PROVE  BalancesInv'
    BY <1>1, MoveKeeps DEF Transfer, Send
<1>2. ASSUME NEW sender \in Address, NEW owner \in Address, NEW to \in Address,
             NEW amount \in Amounts,
             TransferFrom(sender, owner, to, amount) \/ SendFrom(sender, owner, to, amount)
      PROVE  BalancesInv'
    BY <1>2, MoveKeeps DEF TransferFrom, SendFrom
<1>3. ASSUME UNCHANGED <<balances, total_supply>>
      PROVE  BalancesInv'
    BY <1>3 DEF BalancesInv, SupplyIsHeld
<1>4. CASE NextBlock
    BY <1>3, <1>4 DEF NextBlock, tokens
<1>5. ASSUME NEW sender \in Address, NEW spender \in Address,
             NEW amount \in Amounts, NEW expires \in Asked,
             \/ IncreaseAllowance(sender, spender, amount, expires)
             \/ DecreaseAllowance(sender, spender, amount, expires)
      PROVE  BalancesInv'
    BY <1>3, <1>5 DEF IncreaseAllowance, DecreaseAllowance
<1>6. ASSUME NEW sender \in Address, NEW m \in Info, UpdateMarketing(sender, m)
      PROVE  BalancesInv'
    BY <1>3, <1>6 DEF UpdateMarketing, tokens
<1>7. ASSUME NEW sender \in Address, NEW l \in Logos, UploadLogo(sender, l)
      PROVE  BalancesInv'
    BY <1>3, <1>7 DEF UploadLogo, tokens
<1>8. CASE UNCHANGED vars
    BY <1>3, <1>8 DEF vars, tokens
<1> QED
    BY <1>1, <1>2, <1>4, <1>5, <1>6, <1>7, <1>8 DEF Next

-----------------------------------------------------------------------------
(* The results.                                                            *)

(* A spender never got more than the owner granted it, what it may still   *)
(* take included (allowances.rs:10-109).                                   *)
THEOREM SpentAsGranted == Spec => []SpentWithinGranted
<1>1. GrantInv => SpentWithinGranted
    BY DEF GrantInv
<1> QED
    BY <1>1, InitGrantInv, StepGrantInv, PTL DEF Spec

(* A logo is announced as stored exactly when it can be downloaded, and    *)
(* then it is small and of the type it is given out as (contract.rs:113,   *)
(* 317, 344, 413).                                                         *)
THEOREM LogoAsAnnounced == Spec => []LogoIsAnnounced
<1>1. Init => InfoInv
    BY DEF Init, InfoInv
<1> QED
    BY <1>1, InfoInvAnnounces, StepInfoInv, PTL DEF Spec

(* What all accounts hold is the total supply, through any transfers and   *)
(* sends, of a token that begins with one row for each address             *)
(* (contract.rs:146, 201, allowances.rs:111).                              *)
THEOREM SupplyHeld == OneRowEach => (Spec => []SupplyIsHeld)
<1> SUFFICES ASSUME OneRowEach
             PROVE  Spec => []SupplyIsHeld
    OBVIOUS
<1>1. Init => BalancesInv
    BY InitBalancesInv
<1>2. BalancesInv => SupplyIsHeld
    BY DEF BalancesInv
<1> QED
    BY <1>1, <1>2, StepBalancesInv, PTL DEF Spec
=============================================================================
