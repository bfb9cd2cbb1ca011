----------------------------- MODULE MCArchive -----------------------------
(***************************************************************************)
(* Three files; the longest leaves more behind than the search looks       *)
(* through when its addition fails.                                        *)
(***************************************************************************)
EXTENDS Archive

MCSizes == [a |-> 1, b |-> 2, c |-> 6]

=============================================================================
