--------------------------- MODULE SnapshotStore ---------------------------
(***************************************************************************)
(* The snapshot containers of cw-storage-plus (SnapshotMap, SnapshotItem,  *)
(* Strategy::EveryBlock), which src/ uses and does not contain.  A store   *)
(* holds the current value and a change log.  The log entry at height k is *)
(* the value the store held before the first save made with height k.      *)
(*                                                                         *)
(* A value that was never saved is the default value: every reader in src/ *)
(* calls may_load_at_height(..)?.unwrap_or_default().                      *)
(***************************************************************************)
EXTENDS StorageMap, Integers, FiniteSetsExt

IsStore(store, Value) ==
  /\ store = [cur |-> store.cur, log |-> store.log]
  /\ store.cur \in Value
  /\ DOMAIN store.log \subseteq Int
  /\ store.log \in [DOMAIN store.log -> Value]

\* A store nothing was saved to.
Fresh(default) == [cur |-> default, log |-> [k \in {} |-> default]]

\* save(value, height): only the first save at a height is logged.
Save(store, value, height) ==
  [cur |-> value,
   log |-> IF height \in DOMAIN store.log
           THEN store.log
           ELSE Put(store.log, height, store.cur)]

\* may_load_at_height(height): the first change logged at that height or
\* later holds the value that was current then.
LoadAt(store, height) ==
  LET later == {k \in DOMAIN store.log : k >= height}
  IN  IF later = {} THEN store.cur ELSE store.log[Min(later)]
=============================================================================
