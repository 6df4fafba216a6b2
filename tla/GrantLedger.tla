----------------------------- MODULE GrantLedger -----------------------------
(***************************************************************************)
(* What the vesting contract promises of a grant, said without accounts,   *)
(* snapshots, owners or token balances: while a grant is open, what was    *)
(* paid on it only grows, never past the beneficiary's pro rata share of   *)
(* the time that has gone by; when a grant is closed it has been paid      *)
(* out to the last token, no more and no less.                             *)
(***************************************************************************)
EXTENDS Integers

CONSTANTS Address

VARIABLES
  time,       \* the clock
  open,       \* the addresses that have an open grant
  schedule,   \* of each open grant: when it starts and ends
  granted,    \* of each address: the amount of its latest grant
  paid        \* of each address: what was paid on that grant

glvars == <<time, open, schedule, granted, paid>>

\* p does not exceed the share of a's grant that is due at time t.
Due(a, p, t) ==
  LET s == schedule[a].start
      e == schedule[a].end
  IN  /\ t < s => p = 0
      /\ s <= t /\ t < e => p * (e - s) <= granted[a] * (t - s)
      /\ p <= granted[a]

GLInit ==
  /\ time = 0
  /\ open = {}
  /\ schedule = [a \in {} |-> 0]
  /\ granted = [a \in Address |-> 0]
  /\ paid = [a \in Address |-> 0]

Tick ==
  /\ time' > time
  /\ UNCHANGED <<open, schedule, granted, paid>>

Grant(a) ==
  /\ a \notin open
  /\ open' = open \cup {a}
  /\ \A b \in open : schedule'[b] = schedule[b]
  /\ granted'[a] > 0
  /\ granted' = [granted EXCEPT ![a] = granted'[a]]
  /\ paid' = [paid EXCEPT ![a] = 0]
  /\ UNCHANGED time

Pay(a) ==
  /\ a \in open
  /\ paid'[a] > paid[a]
  /\ Due(a, paid'[a], time)
  /\ paid' = [paid EXCEPT ![a] = paid'[a]]
  /\ UNCHANGED <<time, open, schedule, granted>>

Settle(a) ==
  /\ a \in open
  /\ open' = open \ {a}
  /\ \A b \in open' : schedule'[b] = schedule[b]
  /\ paid' = [paid EXCEPT ![a] = granted[a]]
  /\ UNCHANGED <<time, granted>>

GLNext == Tick \/ \E a \in Address : Grant(a) \/ Pay(a) \/ Settle(a)

GLSpec == GLInit /\ [][GLNext]_glvars
=============================================================================
