-------------------------------- MODULE Cw20 --------------------------------
(***************************************************************************)
(* klmd-cw20: the token of the DAO, cw20 without minting and burning.      *)
(* Balances, allowances with an expiration, and marketing information.     *)
(*                                                                         *)
(* One action is one message that succeeds.  A receiver that is called by  *)
(* Send or SendFrom runs in the same transaction, after the tokens moved:  *)
(* if it errors nothing happened at all, if it sends messages of its own   *)
(* they are further steps.  An address without a balance has 0.            *)
(***************************************************************************)
EXTENDS StorageMap, Integers, FiniteSetsExt, SequencesExt

CONSTANTS
  Address,            \* accounts and contracts
  Contract,           \* external: the contracts that accept tokens
  MaxUint,            \* Uint128::MAX
  InitialBalances,    \* the initial_balances that are tried: sequences of rows
  Amounts,            \* the amounts of transfers and allowances
  Expirations,        \* the expirations that are asked for
  MaxTime,            \* bound: the last block
  MaxGranted,         \* bound: what all owners grant in all
  Marketers,          \* the marketing addresses that are tried
  Logos,              \* the logos that are tried
  LOGO_SIZE_CAP,      \* 5 kB
  Nobody              \* no marketing address

Never == -1           \* Expiration::Never, the default

ASSUME Cw20Assumption ==
  /\ IsFiniteSet(Address)
  /\ Contract \subseteq Address /\ Marketers \subseteq Address /\ Nobody \notin Address
  /\ MaxUint \in Nat
  /\ InitialBalances \subseteq Seq([address : Address, amount : 0 .. MaxUint])
  /\ Amounts \subseteq 0 .. MaxUint
  /\ Expirations \subseteq Nat \cup {Never}
  /\ MaxTime \in Nat /\ MaxGranted \in Nat
  /\ Logos \subseteq [format : {"url", "svg", "png"},
                      data : {"xml", "png", "other"}, size : Nat]
  /\ LOGO_SIZE_CAP \in Nat

VARIABLES
  now,            \* env.block
  balances,       \* BALANCES
  total_supply,   \* TOKEN_INFO
  allowances,     \* ALLOWANCES, by owner and spender
  marketing,      \* MARKETING_INFO, or NoInfo
  logo,           \* LOGO, or NoLogo
  granted, spent  \* history: by owner and spender, all that was granted, spent

tokens == <<balances, total_supply, allowances, granted, spent>>
info == <<marketing, logo>>
vars == <<now, tokens, info>>

Pairs == Address \X Address
\* text says whether there is a project or a description.
Info == [text : BOOLEAN, marketing : Marketers \cup {Nobody},
         logo : {"none", "url", "embedded"}]
NoInfo == [none |-> TRUE]
NoLogo == [format |-> "none"]

TypeOK ==
  /\ now \in Nat
  /\ balances \in [Address -> 0 .. MaxUint]
  /\ total_supply \in 0 .. MaxUint
  /\ DOMAIN allowances \subseteq Pairs
  /\ allowances \in [DOMAIN allowances ->
                       [allowance : 0 .. MaxUint, expires : Nat \cup {Never}]]
  /\ marketing \in Info \cup {NoInfo}
  /\ logo \in Logos \cup {NoLogo}
  /\ granted \in [Pairs -> Nat] /\ spent \in [Pairs -> Nat]

-----------------------------------------------------------------------------
\* create_accounts: a later row of an address replaces an earlier one, while
\* the total counts them all.
Accounts(rows) ==
  [a \in Address |->
     LET own == {i \in DOMAIN rows : rows[i].address = a}
     IN  IF own = {} THEN 0 ELSE rows[Max(own)].amount]
SupplyOf(rows) == SumFunction([i \in DOMAIN rows |-> rows[i].amount])

\* verify_xml_logo, verify_png_logo: what the data begins with, and its size.
BeginsAs(l) == l.data = IF l.format = "svg" THEN "xml" ELSE "png"
SmallEnough(l) == l.size <= LOGO_SIZE_CAP

\* verify_logo.
Verified(l) == l.format = "url" \/ (BeginsAs(l) /\ SmallEnough(l))

\* LogoInfo, what the marketing information says of the logo.
Announced(l) ==
  IF l = NoLogo THEN "none" ELSE IF l.format = "url" THEN "url" ELSE "embedded"

\* query_marketing_info: nothing stored reads as the default.
Shown ==
  IF marketing = NoInfo
  THEN [text |-> FALSE, marketing |-> Nobody, logo |-> "none"] ELSE marketing

\* query_download_logo: the logo and its MIME type, if one is stored here.
Download ==
  IF logo = NoLogo \/ logo.format = "url" THEN {}
  ELSE {[data |-> logo.data, size |-> logo.size,
         mime_type |-> IF logo.format = "svg" THEN "image/svg+xml" ELSE "image/png"]}

Init ==
  /\ now = 0
  /\ \E rows \in InitialBalances :
       /\ SupplyOf(rows) <= MaxUint
       /\ balances = Accounts(rows)
       /\ total_supply = SupplyOf(rows)
  /\ allowances = [k \in {} |-> 0]
  /\ marketing \in Info \cup {NoInfo}
  /\ logo \in {l \in Logos : Verified(l)} \cup {NoLogo}
  /\ Shown.logo = Announced(logo)
  /\ granted = [k \in Pairs |-> 0]
  /\ spent = [k \in Pairs |-> 0]

-----------------------------------------------------------------------------
(* Mutants: plausible slips, used only to show that a property notices.    *)

\* both balances are read before either is written
MovedAtOnce(b, from, to, amount) ==
  [a \in Address |-> IF a = to THEN b[to] + amount
                     ELSE IF a = from THEN b[from] - amount ELSE b[a]]

\* an allowance that is lowered below zero starts over with the amount
LoweredBelow(allow, amount) ==
  [allow EXCEPT !.allowance = IF amount < @ THEN @ - amount ELSE amount]

\* the logo does not count as information
WorthlessButLogo(m) == ~m.text /\ m.marketing = Nobody

-----------------------------------------------------------------------------
\* The two updates of BALANCES, one after the other.
Moved(b, from, to, amount) ==
  [[b EXCEPT ![from] = @ - amount] EXCEPT ![to] = @ + amount]

Move(from, to, amount) ==
  /\ amount <= balances[from]
  /\ balances' = Moved(balances, from, to, amount)
  /\ balances'[to] <= MaxUint

\* execute_transfer.
Transfer(sender, recipient, amount) ==
  /\ amount > 0
  /\ Move(sender, recipient, amount)
  /\ UNCHANGED <<now, total_supply, allowances, granted, spent, info>>

\* execute_send.
Send(sender, contract, amount) ==
  /\ contract \in Contract
  /\ Transfer(sender, contract, amount)

Default == [allowance |-> 0, expires |-> Never]
AllowanceOf(k) == IF k \in DOMAIN allowances THEN allowances[k] ELSE Default

\* An expiration that is asked for, or none to leave it as it is.
Expiring(allow, expires) ==
  IF expires = {} THEN allow ELSE [allow EXCEPT !.expires = CHOOSE e \in expires : TRUE]
Asked == {{}} \cup {{e} : e \in Expirations}

\* execute_increase_allowance.
IncreaseAllowance(sender, spender, amount, expires) ==
  LET k     == <<sender, spender>>
      allow == Expiring(AllowanceOf(k), expires)
  IN  /\ spender # sender
      /\ allow.allowance + amount <= MaxUint
      /\ SumFunction(granted) + amount <= MaxGranted
      /\ allowances' = Put(allowances, k, [allow EXCEPT !.allowance = @ + amount])
      /\ granted' = [granted EXCEPT ![k] = @ + amount]
      /\ UNCHANGED <<now, balances, total_supply, spent, info>>

\* What is left of an allowance that is lowered by less than all of it.
Lowered(allow, amount) == [allow EXCEPT !.allowance = @ - amount]

\* execute_decrease_allowance.
DecreaseAllowance(sender, spender, amount, expires) ==
  LET k == <<sender, spender>>
  IN  /\ spender # sender
      /\ k \in DOMAIN allowances
      /\ allowances' =
           IF amount < allowances[k].allowance
           THEN Put(allowances, k, Expiring(Lowered(allowances[k], amount), expires))
           ELSE Drop(allowances, k)
      /\ UNCHANGED <<now, balances, total_supply, granted, spent, info>>

\* deduct_allowance.
Deduct(k, amount) ==
  /\ k \in DOMAIN allowances
  /\ allowances[k].expires = Never \/ now < allowances[k].expires
  /\ amount <= allowances[k].allowance
  /\ allowances' = [allowances EXCEPT ![k] = Lowered(@, amount)]
  /\ spent' = [spent EXCEPT ![k] = @ + amount]

\* execute_transfer_from: unlike a transfer, it may move 0.
TransferFrom(sender, owner, recipient, amount) ==
  /\ Deduct(<<owner, sender>>, amount)
  /\ Move(owner, recipient, amount)
  /\ UNCHANGED <<now, total_supply, granted, info>>

\* execute_send_from.
SendFrom(sender, owner, contract, amount) ==
  /\ contract \in Contract
  /\ TransferFrom(sender, owner, contract, amount)

\* The sender is the marketing address.
Marketer(sender) == marketing # NoInfo /\ marketing.marketing = sender

\* Nothing is left of the marketing information.
Worthless(m) ==
  ~m.text /\ m.marketing = Nobody /\ m.logo = "none"

\* execute_update_marketing: a blank text clears a field, no text keeps it.
UpdateMarketing(sender, m) ==
  /\ Marketer(sender)
  /\ m.logo = marketing.logo
  /\ marketing' = IF Worthless(m) THEN NoInfo ELSE m
  /\ UNCHANGED <<now, tokens, logo>>

\* execute_upload_logo.
UploadLogo(sender, l) ==
  /\ Marketer(sender)
  /\ Verified(l)
  /\ logo' = l
  /\ marketing' = [marketing EXCEPT !.logo = Announced(l)]
  /\ UNCHANGED <<now, tokens>>

NextBlock ==
  /\ now < MaxTime
  /\ now' = now + 1
  /\ UNCHANGED <<tokens, info>>

Next ==
  \/ NextBlock
  \/ \E sender, to \in Address, amount \in Amounts :
       Transfer(sender, to, amount) \/ Send(sender, to, amount)
  \/ \E sender, spender \in Address, amount \in Amounts, expires \in Asked :
       \/ IncreaseAllowance(sender, spender, amount, expires)
       \/ DecreaseAllowance(sender, spender, amount, expires)
  \/ \E sender, owner, to \in Address, amount \in Amounts :
       \/ TransferFrom(sender, owner, to, amount)
       \/ SendFrom(sender, owner, to, amount)
  \/ \E sender \in Address, m \in Info : UpdateMarketing(sender, m)
  \/ \E sender \in Address, l \in Logos : UploadLogo(sender, l)

Spec == Init /\ [][Next]_vars
-----------------------------------------------------------------------------
(* The total supply, which the voting module measures activity against, is *)
(* what all accounts hold, through any transfers, also to oneself, and     *)
(* sends (contract.rs:201, allowances.rs:111).  That holds of an instance  *)
(* that begins with one row per address: the balances of two rows for one  *)
(* address are not added up, the supply counts both (contract.rs:146).     *)
SupplyIsHeld ==
  total_supply = SumFunction(balances)

(* Whatever the order of increases, decreases, expirations and spending,   *)
(* a spender never gets more of an owner's tokens than the owner granted,  *)
(* with what it may still take counted in (allowances.rs:10-109).          *)
SpentWithinGranted ==
  \A k \in Pairs : spent[k] + AllowanceOf(k).allowance <= granted[k]

(* Whoever reads the marketing information is told of the logo that is     *)
(* there: one is announced as stored here exactly when it can be           *)
(* downloaded, and then it is small and of the type that its MIME type     *)
(* says.  So the information is never removed while a logo is stored, and  *)
(* an instance starts with no logo that an upload would have refused       *)
(* (contract.rs:113, 317, 344, 413).                                       *)
LogoIsAnnounced ==
  /\ Shown.logo = Announced(logo)
  /\ (Shown.logo = "embedded") <=> (Download # {})
  /\ \A d \in Download :
       /\ d.size <= LOGO_SIZE_CAP
       /\ <<d.mime_type, d.data>> \in {<<"image/svg+xml", "xml">>, <<"image/png", "png">>}
=============================================================================
