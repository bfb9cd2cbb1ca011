----------------------------- MODULE ElementSet -----------------------------
(***************************************************************************)
(* What a hash table promises (lib/include/faup/hash/htable.h): it is a    *)
(* set, and what it returns is true of the set.                            *)
(***************************************************************************)
CONSTANT Elements

VARIABLES members, ret

vars == <<members, ret>>

Init == members = {} /\ ret = {}

(* An element is added, or the table says that it could not be. *)
Add(p) ==
  /\ p \notin members
  /\ ret' \in {{p}, {}}
  /\ members' = members \cup ret'

Del(p) ==
  /\ ret' = members \cap {p}
  /\ members' = members \ {p}

(* All elements are freed, and no other. *)
Free ==
  /\ ret' = members
  /\ members' = {}

Next ==
  \/ \E p \in Elements : Add(p) \/ Del(p)
  \/ Free

Spec == Init /\ [][Next]_vars

=============================================================================
