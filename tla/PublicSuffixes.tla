-------------------------- MODULE PublicSuffixes ---------------------------
(***************************************************************************)
(* What a list means: the algorithm published with it (the public suffix   *)
(* of a host is what its longest matching rule covers, a wildcard stands   *)
(* for one label, an exception wins and loses its first label), and how    *)
(* far TldTree agrees with it.                                             *)
(***************************************************************************)
EXTENDS TldTree

CONSTANT Asked          \* what the tree is asked for

ASSUME AskedAssumption == Asked \subseteq Seq(STRING)

-----------------------------------------------------------------------------
(* The list *)

LabelDots(s) == {k \in 1 .. Len(s) : s[k] = "."}
AfterFirstLabel(s) == SubSeq(s, Min(LabelDots(s)) + 1, Len(s))

(* s without its last characters t. *)
Before(s, t) == SubSeq(s, 1, Len(s) - Len(t))

Wildcards(R)  == {Tail(r) : r \in {q \in R : q[1] = "*"}}
Exceptions(R) == {Tail(r) : r \in {q \in R : q[1] = "!"}}
Literals(R)   == {r \in R : r[1] \notin {"*", "!"}}

(* The ends of s that are made of labels. *)
LabelEnds(s) == {s} \cup {End(s, Len(s) - k) : k \in LabelDots(s)}

CoveredByWildcard(R, s) ==
  \E w \in Wildcards(R) :
    Len(s) > Len(w) /\ End(s, Len(w)) = w /\ LabelDots(Before(s, w)) = {}

Covered(R, s) == s \in Literals(R) \/ CoveredByWildcard(R, s)

LastLabel(h) == End(h, Len(h) - Max(LabelDots(h)))

(* The number of characters of the public suffix of h; the last label when *)
(* no rule matches.                                                        *)
PublicSuffixLen(R, h) ==
  LET winners == LabelEnds(h) \cap Exceptions(R)
      matches == {s \in LabelEnds(h) : Covered(R, s)}
  IN IF winners # {} THEN Max({Len(AfterFirstLabel(s)) : s \in winners})
     ELSE Max({Len(s) : s \in matches \cup {LastLabel(h)}})

-----------------------------------------------------------------------------
(* What the code asks of a list. *)

(* A wildcard is the first label of its rule, and all of it; an exception  *)
(* has its mark in front.                                                  *)
WellFormed(R) ==
  \A r \in R : \A k \in 1 .. Len(r) :
    /\ r[k] = "*" => k = 1 /\ (Len(r) = 1 \/ r[2] = ".")
    /\ r[k] = "!" => k = 1

Regular(r) == r[1] # "!"

(* No other rule has a label in the place of a wildcard. *)
Unshadowed(R) ==
  \A w \in Wildcards(R) : \A r \in {q \in R : Regular(q)} \ {<<"*">> \o w} :
    ~(Len(r) > Len(w) /\ End(r, Len(w)) = w)

(* The ends of a rule are TLDs, but for its last label and for what has a  *)
(* wildcard before it.                                                     *)
ParentsListed(R) ==
  \A r \in R : Regular(r) =>
    \A e \in LabelEnds(r) :
      LabelDots(e) # {} => Covered(R, e) \/ <<"*", ".">> \o e \in R

(* An exception takes a label from a wildcard, and has at most three (its  *)
(* ends, too, are looked up: those of a longer one lose a label).          *)
ExceptionsUnderWildcards(R) ==
  \A e \in Exceptions(R) :
    /\ LabelDots(e) # {}
    /\ LabelDots(e) \subseteq {Min(LabelDots(e)), Max(LabelDots(e))}
    /\ End(e, Len(e) - Min(LabelDots(e)) + 1) \in Wildcards(R)

(* Labels with a dot between two of them. *)
IsName(s) ==
  /\ s # <<>> /\ s[1] # "." /\ s[Len(s)] # "."
  /\ \A k \in 1 .. Len(s) - 1 : s[k] # "." \/ s[k + 1] # "."
  /\ \A k \in 1 .. Len(s) : s[k] \notin {"*", "!"}

-----------------------------------------------------------------------------
(* What is checked.  The rules of a list are its lines after the marker,   *)
(* but comments and blank lines; their last character is not read: it is   *)
(* a newline, if it is there.                                              *)

Text(line) == Before(line, <<Newline>>)
AfterMarker(f) == {k \in DOMAIN f : \E j \in 1 .. k - 1 : Text(f[j]) = MarkerLine}
IsRule(s) == s # <<>> /\ s[1] \notin {"/", " ", "\r", Newline}
RulesOf(f) == {s \in {Text(f[k]) : k \in AfterMarker(f)} : IsRule(s)}

rules == RulesOf(file)

(* The end of a rule that is no exception, or covered by a wildcard *)
Listed(R, s) ==
  CoveredByWildcard(R, s) \/ \E r \in R : Regular(r) /\ s \in LabelEnds(r)

(* The trie of a list finds its rules, the ends of its rules and what its  *)
(* wildcards stand for, in whatever order the rules were added, and        *)
(* nothing else; the exceptions do not show in it.  A last rule without a  *)
(* newline is found without its last character (faup_tld_array_populate).  *)
LookupMatchesList ==
  phase = "ready" /\ WellFormed(rules) /\ Unshadowed(rules) =>
    \A s \in Asked : IsName(s) => (TldExists(kid, s) <=> Listed(rules, s))

(* The whole host, but for its last character, is taken for a TLD. *)
TruncatedFound == TldExists(kid, Front(host))

(* A TLD is an end of the host that starts after a dot, and leaves a name  *)
(* before it.                                                              *)
TldIsLabels ==
  /\ tld_extracted.pos \in 1 .. Len(host) - 1
  /\ tld_extracted.pos + tld_extracted.size = Len(host)
  /\ host[tld_extracted.pos] = "."

Found == phase = "done" /\ tld_extracted # NotFound

ExtractContract == Found /\ ~TruncatedFound /\ host[1] # "." => TldIsLabels

(* faup_tld_tree_extract: for every list of that form, a host that is not  *)
(* itself a TLD gets its public suffix, or no TLD when that is its last    *)
(* label and no rule.                                                      *)
SuffixAgreement ==
  LET len == PublicSuffixLen(rules, host)
  IN /\ phase = "done" /\ Beyond = 0
     /\ WellFormed(rules) /\ Unshadowed(rules)
     /\ ParentsListed(rules) /\ ExceptionsUnderWildcards(rules)
     /\ IsName(host)
     /\ ~TruncatedFound
     /\ host \notin Exceptions(rules)
     /\ len < Len(host)
     => len = IF tld_extracted = NotFound THEN Len(LastLabel(host))
              ELSE tld_extracted.size

MatchingEnds == phase = "walk" ~> phase = "done"

=============================================================================
