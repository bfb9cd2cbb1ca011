------------------------------ MODULE MCHTable ------------------------------
(***************************************************************************)
(* Model checking of the hash table.  Words have five bits.                *)
(***************************************************************************)
EXTENDS HTable

(* Pointers that share their highest bit, as those of one heap do; the     *)
(* others lose common bits one at a time, the perfect bit (0) among them.  *)
HeapPointers == {{4}, {4, 1}, {4, 0}, {4, 3, 2, 0}}

(* Two pointers that differ in the highest bit of one of them only. *)
ApartPointers == {{3, 2}, {2}}

(* The last two buckets of a table of four slots, and the first, with no   *)
(* other bit: probes wrap around, and leave a bucket free in front of an   *)
(* entry; entries have little but a bit of their pointer.                  *)
SomeHashes == {{}, {1}, {0, 1}}

=============================================================================
