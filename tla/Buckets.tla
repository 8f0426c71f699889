------------------------------ MODULE Buckets ------------------------------
(***************************************************************************)
(* The map of stat/bucket.go from bucket IDs to bucket objects, with the   *)
(* explicitly tracked minimum ID.  A bucket object is reached through a    *)
(* reference (its index in a heap), because the code looks an object up    *)
(* under the map's lock and uses it after the lock is released: by then    *)
(* the map may have dropped it.  These are the pure parts; the modules     *)
(* that use them say under which lock they run.                            *)
(***************************************************************************)
EXTENDS Integers, Sequences

Nil == 0          \* the nil *bucket
NoMin == -1       \* minID of an empty map

(***************************************************************************)
(* bs.buckets[id]: the reference stored under id, or nil.                  *)
(***************************************************************************)
Lookup(map, id) == IF id \in DOMAIN map THEN map[id] ELSE Nil

(***************************************************************************)
(* bs.buckets[id] = b, and the minID update that goes with it.             *)
(***************************************************************************)
Insert(map, id, ref) ==
  [j \in DOMAIN map \cup {id} |-> IF j = id THEN ref ELSE map[j]]

\* Variant: the newest insertion becomes the minimum.
MinAfterInsertLast(min, id) == id

MinAfterInsert(min, id) == IF min < 0 \/ id < min THEN id ELSE min

(***************************************************************************)
(* delete(bs.buckets, id); minID is recomputed only when the minimum went. *)
(***************************************************************************)
Without(map, id) == [j \in DOMAIN map \ {id} |-> map[j]]

SmallestID(map) ==
  IF DOMAIN map = {} THEN NoMin
  ELSE CHOOSE i \in DOMAIN map : \A j \in DOMAIN map : i <= j

\* Variant: the minimum is reset and not searched for again.
MinAfterRemoveReset(map, min, id) == IF id = min THEN NoMin ELSE min

MinAfterRemove(map, min, id) ==
  IF id = min THEN SmallestID(Without(map, id)) ELSE min

(***************************************************************************)
(* oldest(): the object under minID, or nil when the map is empty.  A      *)
(* minID that is not a key yields nil, as a Go map does.                   *)
(***************************************************************************)
Oldest(map, min) == IF DOMAIN map = {} THEN Nil ELSE Lookup(map, min)
=============================================================================
