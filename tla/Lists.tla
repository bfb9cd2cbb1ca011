------------------------------- MODULE Lists --------------------------------
(***************************************************************************)
(* What is kept of a sequence, and how it is cut into pieces: as the loops *)
(* do it.                                                                  *)
(***************************************************************************)
EXTENDS Integers, Sequences

(* What is at these places; those that are in S. *)
At(s, places) ==
  LET upto[i \in 0 .. Len(s)] ==
        IF i = 0 THEN << >>
        ELSE IF i \in places THEN Append(upto[i - 1], s[i]) ELSE upto[i - 1]
  IN upto[Len(s)]

Those(s, S) == At(s, {i \in DOMAIN s : s[i] \in S})

(* s cut behind each of these places: the pieces, and what is left.        *)
CutAfter(s, places) ==
  LET cut[i \in 0 .. Len(s)] ==
        IF i = 0 THEN [pieces |-> << >>, rest |-> << >>]
        ELSE LET before == cut[i - 1]
                 piece == Append(before.rest, s[i])
             IN IF i \in places THEN [pieces |-> Append(before.pieces, piece), rest |-> << >>]
                ELSE [pieces |-> before.pieces, rest |-> piece]
  IN cut[Len(s)]
=============================================================================
