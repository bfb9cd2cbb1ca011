------------------------------ MODULE Rfc3986 -------------------------------
(***************************************************************************)
(* Where the parts of a URL are according to doc/rfc3986.txt, sections 3   *)
(* and appendix B, stated on the whole string instead of one character at  *)
(* a time: the reference FeaturesFind and Decode are compared with.  As    *)
(* faup does, a URL without "scheme://" is taken to begin with its         *)
(* authority.                                                              *)
(***************************************************************************)
EXTENDS UrlChars, FiniteSetsExt

(* The first offset from k on holding a member of S, Len(u) if none does. *)
FirstFrom(u, k, S) ==
  Min({Len(u)} \cup {j \in k .. Len(u) - 1 : u[j + 1] \in S})

AllIn(u, from, to, S) == \A k \in from .. to - 1 : CharAt(u, k) \in S

-----------------------------------------------------------------------------

FirstColon(u) == FirstFrom(u, 0, {":"})

HasScheme(u) ==
  /\ FirstColon(u) > 0
  /\ CharAt(u, FirstColon(u) + 1) = "/"
  /\ CharAt(u, FirstColon(u) + 2) = "/"

AuthorityStart(u) == IF HasScheme(u) THEN FirstColon(u) + 3 ELSE 0

(* "terminated by the next slash, question mark, or number sign character, *)
(* or by the end of the URI" (3.2).                                        *)
AuthorityEnd(u) == FirstFrom(u, AuthorityStart(u), {"/", "?", "#"})

AtSign(u)      == FirstFrom(u, AuthorityStart(u), {"@"})
HasUserinfo(u) == AtSign(u) < AuthorityEnd(u)
HostStart(u)   == IF HasUserinfo(u) THEN AtSign(u) + 1 ELSE AuthorityStart(u)

(* A literal IPv6 address keeps its colons to itself. *)
HostColon(u) ==
  FirstFrom(u, IF CharAt(u, HostStart(u)) = "["
               THEN FirstFrom(u, HostStart(u), {"]"}) ELSE HostStart(u), {":"})
HasPort(u) == HostColon(u) < AuthorityEnd(u)
HostStop(u) == IF HasPort(u) THEN HostColon(u) ELSE AuthorityEnd(u)

FragmentStart(u) == FirstFrom(u, AuthorityEnd(u), {"#"})
QueryStart(u)    == FirstFrom(u, AuthorityEnd(u), {"?", "#"})
HasPath(u)     == CharAt(u, AuthorityEnd(u)) = "/"
HasQuery(u)    == CharAt(u, QueryStart(u)) = "?"
HasFragment(u) == FragmentStart(u) < Len(u)

(* Start and end of each part; <<-1, -1>> when it is absent. *)
Part(present, from, to) == IF present THEN <<from, to>> ELSE <<-1, -1>>

Parts(u) ==
  [ scheme        |-> Part(HasScheme(u), 0, FirstColon(u)),
    credential    |-> Part(HasUserinfo(u), AuthorityStart(u), AtSign(u)),
    host          |-> Part(TRUE, HostStart(u), HostStop(u)),
    port          |-> Part(HasPort(u), HostColon(u) + 1, AuthorityEnd(u)),
    resource_path |-> Part(HasPath(u), AuthorityEnd(u), QueryStart(u)),
    query_string  |-> Part(HasQuery(u), QueryStart(u), FragmentStart(u)),
    fragment      |-> Part(HasFragment(u), FragmentStart(u), Len(u)) ]

-----------------------------------------------------------------------------
(* The URLs that have a scheme of letters, digits, '.' and '-', a userinfo *)
(* of a name and possibly a password, a registered name, an IPv4 address   *)
(* or a bracketed IPv6 address for host, a port of digits if any, then     *)
(* anything.                                                               *)

Name == Letters \cup Digits \cup {".", "-"}

WellFormedScheme(u) ==
  HasScheme(u) => u[1] \in Letters /\ AllIn(u, 0, FirstColon(u), Name)

WellFormedUserinfo(u) ==
  LET start == AuthorityStart(u)
      colon == FirstFrom(u, start, {":"})
  IN HasUserinfo(u) =>
       IF colon < AtSign(u)
       THEN /\ colon > start /\ AllIn(u, start, colon, Name)
            /\ colon + 1 < AtSign(u) /\ AllIn(u, colon + 1, AtSign(u), Name)
       ELSE AtSign(u) > start /\ AllIn(u, start, AtSign(u), Name)

(* "[...]", as doc/rfc2732.txt has it. *)
Bracketed(u) ==
  /\ HostStop(u) > HostStart(u) + 2
  /\ CharAt(u, HostStart(u)) = "[" /\ CharAt(u, HostStop(u) - 1) = "]"
  /\ AllIn(u, HostStart(u) + 1, HostStop(u) - 1, Letters \cup Digits \cup {":"})

WellFormedHost(u) ==
  \/ HostStop(u) > HostStart(u) /\ AllIn(u, HostStart(u), HostStop(u), Name)
  \/ Bracketed(u)

WellFormedPort(u) ==
  HasPort(u) => /\ HostColon(u) + 1 < AuthorityEnd(u)
                /\ AllIn(u, HostColon(u) + 1, AuthorityEnd(u), Digits)

WellFormed(u) ==
  /\ WellFormedScheme(u) /\ WellFormedUserinfo(u)
  /\ WellFormedHost(u) /\ WellFormedPort(u)

-----------------------------------------------------------------------------
(* What faup needs, besides a well-formed authority, to find the parts     *)
(* where RFC 3986 has them.  Each condition is one the RFC does not make:  *)
(* without it TLC refutes the agreement (see README.md).                   *)

SchemeEndsInLetter(u) == HasScheme(u) => CharAt(u, FirstColon(u) - 1) \in Letters

(* Nothing that could belong to an authority comes after it, unless a path *)
(* is in between.                                                          *)
PathShieldsAuthority(u) ==
  HasPath(u) \/ AllIn(u, AuthorityEnd(u), Len(u), Chars \ {"/", "@", ":"})

NoQueryInFragment(u) == AllIn(u, FragmentStart(u), Len(u), Chars \ {"?"})

(* The '[' of a host is seen where the authority starts only. *)
BracketsWithoutUserinfo(u) == Bracketed(u) => ~HasUserinfo(u)

Regular(u) ==
  /\ WellFormed(u)
  /\ SchemeEndsInLetter(u) /\ PathShieldsAuthority(u) /\ NoQueryInFragment(u)
  /\ BracketsWithoutUserinfo(u)

=============================================================================
