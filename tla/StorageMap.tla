----------------------------- MODULE StorageMap -----------------------------
(* The Map container of cw-storage-plus as a function of its keys.         *)

\* f with key k bound to v: Map::save.
Put(f, k, v) == [x \in DOMAIN f \cup {k} |-> IF x = k THEN v ELSE f[x]]

\* f without key k: Map::remove.
Drop(f, k) == [x \in DOMAIN f \ {k} |-> f[x]]
=============================================================================
