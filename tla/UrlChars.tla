------------------------------ MODULE UrlChars ------------------------------
(***************************************************************************)
(* URLs as sequences over the character classes that faup_features_find    *)
(* can tell apart.  Offsets are the code's: 0-based.                       *)
(***************************************************************************)
EXTENDS Integers, Sequences

Letters == {"a"}                                     \* isalpha()
Digits  == {"0", "1", "2", "3", "5", "6", "9"}       \* isdigit(), some of them
Delimiters == {"/", ":", "@", "?", "#", "[", "]"}    \* a case of the switch each
Others  == Letters \cup Digits \cup {".", "-", "\\", " "}   \* its default case
Chars   == Delimiters \cup Others

IsAlnum(c) == c \in Letters \cup Digits

(* The character at offset k of u; outside of u it is in no class. *)
CharAt(u, k) == IF k \in 0 .. Len(u) - 1 THEN u[k + 1] ELSE "nul"

=============================================================================
