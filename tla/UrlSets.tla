------------------------------ MODULE UrlSets -------------------------------
(***************************************************************************)
(* The URLs the model-checking runs decode.                                *)
(***************************************************************************)
EXTENDS UrlChars

(* A character of each class will do. *)
Alphabet == Delimiters \cup {"a", "1", ".", "-", "\\"}

Strings(n) == UNION {[1 .. k -> Alphabet] : k \in 0 .. n}

(* Every string of four characters, and of three after "a://". *)
ShortUrls ==
  Strings(4) \cup {<<"a", ":", "/", "/">> \o t : t \in Strings(3)}

-----------------------------------------------------------------------------
(* URLs put together from a scheme, a userinfo, a host and a port of every *)
(* kind, and every tail of two characters.                                 *)

Schemes   == {<<>>, <<"a", ":", "/", "/">>, <<"a", "1", "a", ":", "/", "/">>}
Userinfos == {<<>>, <<"a", "@">>, <<"1", "-", ":", "1", "@">>, <<"-", ":", ".", "@">>}
Hosts     == {<<"a">>, <<"[", ":", "1", "]">>, <<"a", ".", "1">>, <<".", "-">>, <<"1", ".", "1", ".", "1", ".", "1">>}
Ports     == {<<>>, <<":", "1">>, <<":", "1", "1">>}
Tails     == Strings(2) \cup {<<"/">> \o t : t \in Strings(2)}

Authorities == {ui \o h \o p : ui \in Userinfos, h \in Hosts, p \in Ports}

ComposedUrls == {s \o a \o t : s \in Schemes, a \in Authorities, t \in Tails}

ScanUrls == ShortUrls \cup ComposedUrls

-----------------------------------------------------------------------------
A == <<"a", ":", "/", "/">>

(* Every host of up to six letters and dots, and what may follow it. *)
NameUrls ==
  {A \o h \o t : h \in UNION {[1 .. k -> {"a", "."}] : k \in 1 .. 6},
                 t \in {<<>>, <<":", "1">>, <<"?", "/", ".">>}}


(* Hosts that are or look like an IPv4 address: four groups of up to three *)
(* digits, spaces around them and one group possibly replaced by an odd    *)
(* one; and every short host of what addresses are made of.                *)
Groups    == {<<"0">>, <<"2", "5", "5">>, <<"2", "5", "6">>}
OddGroups == {<<>>, <<"9", "9", "9">>, <<"0", "0", "1">>, <<"3", "0", "0">>,
              <<"1", "1", "1", "1">>, <<"a">>, <<"1", " ">>, <<" ", "1">>,
              <<"1", ".", "1">>, <<"[">>, <<"[", "]">>, <<"1", "]">>}

Dotted(g) == g[1] \o <<".">> \o g[2] \o <<".">> \o g[3] \o <<".">> \o g[4]

FourGroups ==
  {[g EXCEPT ![k] = o] : g \in [1 .. 4 -> Groups], k \in 1 .. 4,
                         o \in Groups \cup OddGroups}

AddressHosts ==
  {s \o Dotted(g) \o s : g \in FourGroups, s \in {<<>>, <<" ">>}}
  \cup UNION {[1 .. k -> {"1", ".", " ", "a", "[", "]"}] : k \in 1 .. 4}

AddressUrls == {A \o h \o <<"/">> : h \in AddressHosts}

FreshUrls == ShortUrls \cup NameUrls \cup AddressUrls

(* URLs a caller decodes one after the other with the same handler: each   *)
(* kind of part present, absent and (the badly formed ones) empty.  Their  *)
(* last character is the one the caller has removed.                       *)
MixedUrls ==
  {u \o <<"-">> : u \in
    { A \o <<"a", ".", "1", "a">>,
      A \o <<"-", ".", "a", ".", "a", "/", "1">>,
      A \o <<"1", "@", "a", ".", "a", ":", "1", "1", "/", "?", "a", "#", "1">>,
      A \o <<"1", ".", "1", ".", "1", ".", "1", "/", "a", "a", "?", "?">>,
      A \o <<"[", ":", ":", "1", "]", ":", "1", "/">>,
      <<"a", "1", "/", "a", "#", "#">>,
      <<"a", ":", "a", "@", "a", "?", "1">>,
      A, <<>>, <<"a", "@">>, <<"/", "a">>, <<"?", "/">>, <<":", "1">>, <<"#", "?", "a">> }}

=============================================================================
