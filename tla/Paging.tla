------------------------------- MODULE Paging -------------------------------
(***************************************************************************)
(* Lists that are queried by pages: a range over the keys of a map in      *)
(* their order, from an exclusive bound on, of which a limit is taken.     *)
(* Keys are numbers in that order; 0 is before and top after all of them.  *)
(***************************************************************************)
EXTENDS Integers, Sequences, FiniteSetsExt

\* Mutant of PageAfter: the key after the bound is left out.
PageAfterNext(keys, after, limit) ==
  {k \in keys : after + 1 < k /\ Cardinality({j \in keys : after < j /\ j < k}) < limit}

\* Mutant of PageBefore: the page begins with the first key.
PageBeforeFirst(keys, before, limit) ==
  {k \in keys : k < before /\ Cardinality({j \in keys : j < k}) < limit}

\* range(Bound::exclusive(after), None, Ascending).take(limit).
PageAfter(keys, after, limit) ==
  {k \in keys : after < k /\ Cardinality({j \in keys : after < j /\ j < k}) < limit}

\* range(None, Bound::exclusive(before), Descending).take(limit).
PageBefore(keys, before, limit) ==
  {k \in keys : k < before /\ Cardinality({j \in keys : k < j /\ j < before}) < limit}

-----------------------------------------------------------------------------
(* A reader asks for page after page, each from the last key it got, until *)
(* a page is empty; the map may change after any of the pages.             *)

\* The pages it gets of keys up to top, from each bound on.
ReadUp(keys, limit, top) ==
  LET read[c \in 0 .. top] ==
        LET page == PageAfter(keys, c, limit)
        IN  IF page = {} THEN <<>> ELSE <<page>> \o read[Max(page)]
  IN  read

ReadDown(keys, limit, top) ==
  LET read[c \in 1 .. top] ==
        LET page == PageBefore(keys, c, limit)
        IN  IF page = {} THEN <<>> ELSE <<page>> \o read[Min(page)]
  IN  read

\* What it gets when keys becomes later after i of the pages.
ReadingsUp(keys, later, limit, top) ==
  LET first == ReadUp(keys, limit, top)[0]
      rest  == ReadUp(later, limit, top)
  IN  {SubSeq(first, 1, i) \o rest[IF i = 0 THEN 0 ELSE Max(first[i])] :
         i \in 0 .. Len(first)}

ReadingsDown(keys, later, limit, top) ==
  LET first == ReadDown(keys, limit, top)[top]
      rest  == ReadDown(later, limit, top)
  IN  {SubSeq(first, 1, i) \o rest[IF i = 0 THEN top ELSE Min(first[i])] :
         i \in 0 .. Len(first)}

\* Each of the keys is on exactly one of the pages.
EachOnce(keys, pages) ==
  \A k \in keys : Cardinality({i \in DOMAIN pages : k \in pages[i]}) = 1
=============================================================================
