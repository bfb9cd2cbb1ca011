------------------------------ MODULE Snapshot ------------------------------
(***************************************************************************)
(* lib/snapshot.c: what a snapshot records of the URLs that were decoded.  *)
(* For every item (a part of a URL: "tld", "host", ...) it counts the      *)
(* values seen.  The items of a snapshot are a function from the keys of   *)
(* its items to tables of counters; a table, which is an HTable in the     *)
(* code, is a function from values to counts.                              *)
(*                                                                         *)
(* Left out: when a value was first and last seen, and the order of the    *)
(* items, which qsort makes of the addresses of the keys (compare_simple   *)
(* takes the array's elements for the items they point to) and nothing     *)
(* but the listings depends on.                                            *)
(***************************************************************************)
EXTENDS Integers, Functions, FunctionUpdate

NoItems == <<>>      \* faup_snapshot_new
NoCounts == <<>>     \* faup_snapshot_item_new

(* A table of counters: an item is made for a first value, and a value is *)
(* counted from 1.                                                        *)
IsCounts(counts) ==
  /\ counts = [value \in DOMAIN counts |-> counts[value]]
  /\ DOMAIN counts # {}
  /\ \A value \in DOMAIN counts : counts[value] \in Nat \ {0}

(* faup_snapshot_value_count_get: 0 for NULL *)
CountOf(items, key, value) ==
  IF key \in DOMAIN items /\ value \in DOMAIN items[key] THEN items[key][value] ELSE 0

(* faup_snapshot_item_append *)
ItemAppended(items, key) ==
  IF key \in DOMAIN items THEN items ELSE With(items, key, NoCounts)

(* faup_snapshot_value_count_append: the counter is made or incremented. *)
Counted(counts, value) ==
  With(counts, value, 1 + IF value \in DOMAIN counts THEN counts[value] ELSE 0)

(* faup_snapshot_append *)
Appended(items, key, value) ==
  [ItemAppended(items, key) EXCEPT ![key] = Counted(@, value)]

(* faup_snapshot_compare: the counters of b for values that are not in the *)
(* same item of a; items without such values are dropped.                  *)
NewValues_OfNewItems(a, b, key) == IF key \in DOMAIN a THEN {} ELSE DOMAIN b[key]
NewValues(a, b, key) ==
  {v \in DOMAIN b[key] : ~(key \in DOMAIN a /\ v \in DOMAIN a[key])}

Compared(a, b) ==
  [key \in {k \in DOMAIN b : NewValues(a, b, k) # {}} |->
     Restrict(b[key], NewValues(a, b, key))]

=============================================================================
