----------------------------- MODULE MCTldTree ------------------------------
(***************************************************************************)
(* TldTree on small lists.                                                 *)
(***************************************************************************)
EXTENDS PublicSuffixes

Dot(a, b) == a \o <<".">> \o b

A == <<"a">>
B == <<"b">>
AB == <<"a", "b">>
Star(r) == Dot(<<"*">>, r)
Bang(r) == <<"!">> \o r

RuleNames ==
  {A, B, AB, Dot(A, B), Dot(AB, B), Dot(B, A), Dot(B, Dot(A, B)),
   Star(A), Star(B), Star(Dot(A, B)), Bang(Dot(A, B)), Bang(Dot(AB, Dot(A, B)))}

(* Pairs of rules; and a rule of each kind, about the same name. *)
RuleSets ==
  {R \in SUBSET RuleNames : Cardinality(R) <= 2}
    \cup {{r, Star(B), Bang(Dot(A, B))} : r \in {B, Dot(A, B)}}

Line(r) == Append(r, Newline)
Comment == Line(<<"/", "a">>)
Blank   == Line(<<>>)
Marker  == Line(MarkerLine)

(* Rules before the marker are not read. *)
FileOf(R) ==
  <<Comment, Line(Dot(B, AB)), Marker, Blank>>
    \o SetToSeq({Line(r) : r \in R}) \o <<Comment>>

(* The newline after the last rule is missing. *)
Unterminated(R, r) == Front(FileOf(R)) \o <<r>>

SmallFiles ==
  {FileOf(R) : R \in RuleSets}
    \cup {Unterminated(R, r) : R \in {{}, {B}, {Star(B)}}, r \in {B, AB, Dot(B, AB)}}

HostChars == {"a", "b", "."}
Words(n)  == UNION {[1 .. k -> HostChars] : k \in 3 .. n}
Labelled(h) == IsName(h) /\ LabelDots(h) # {}

(* The second kind: hosts that begin with a dot. *)
SmallHosts ==
  {h \in Words(5) : Labelled(h)}
    \cup {<<".">> \o h : h \in {A, B, AB, Dot(A, B)}}
    \cup {Dot(A, Dot(B, Dot(A, B))), Dot(AB, Dot(A, B)), Dot(B, Dot(AB, Dot(A, B)))}

SmallNames == {h \in Words(5) : Labelled(h)} \cup {A, B, AB}

NoChars == {<<>>}
UrlBefore == {<<>>, <<"b", "/">>}
Path == {<<"/">>}

=============================================================================
