-------------------------------- MODULE Uri ---------------------------------
(***************************************************************************)
(* How the webserver takes a URI apart and finds who handles it            *)
(* (lib/civetweb/civetweb.c, configured as lib/webserver.c does).          *)
(*                                                                         *)
(* A text is a sequence of character codes.                                *)
(***************************************************************************)
EXTENDS Integers, Sequences, SequencesExt, FiniteSetsExt

CONSTANTS Port,     \* the port the server listens to
          Domain    \* its authentication_domain

Slash == 47   Dot == 46   Colon == 58   Percent == 37   Plus == 43

(* strchr: the place of the first of these characters, 0 for none *)
Find(text, chars) ==
  LET places == {i \in 1 .. Len(text) : text[i] \in chars}
  IN IF places = {} THEN 0 ELSE Min(places)

(* What strings say of a text: it ends before a zero. *)
Terminated(text) == LET z == Find(text, {0}) IN IF z = 0 THEN text ELSE SubSeq(text, 1, z - 1)

Lower(c) == IF c \in 65 .. 90 THEN c + 32 ELSE c
SameLetters(s, t) == Len(s) = Len(t) /\ \A i \in 1 .. Len(s) : Lower(s[i]) = Lower(t[i])
StartsWith(text, prefix) ==
  Len(prefix) <= Len(text) /\ SameLetters(prefix, SubSeq(text, 1, Len(prefix)))

(***************************************************************************)
(* mg_url_decode: room is the size of the destination.                     *)
(***************************************************************************)
HexDigits == (48 .. 57) \cup (65 .. 70) \cup (97 .. 102)
HexToInt(c) == IF c \in 48 .. 57 THEN c - 48 ELSE Lower(c) - 87

UrlDecode(src, room, is_form) ==
  LET n == Len(src)
      escaped(i) == i + 2 <= n /\ src[i] = Percent /\ src[i + 1] \in HexDigits /\ src[i + 2] \in HexDigits
      from[i \in 1 .. n + 1] ==
        IF i = n + 1 THEN << >>
        ELSE IF escaped(i) THEN <<16 * HexToInt(src[i + 1]) + HexToInt(src[i + 2])>> \o from[i + 3]
        ELSE <<IF is_form /\ src[i] = Plus THEN 32 ELSE src[i]>> \o from[i + 1]
  IN IF Len(from[1]) < room THEN [len |-> Len(from[1]), text |-> from[1]]
     ELSE [len |-> -1, text |-> SubSeq(from[1], 1, room - 1)]

(* mg_get_var: the first variable of that name. *)
GetVar(query, name, room) ==
  LET n == Len(name)
      starts == {p \in 1 .. Len(query) - n :
                   /\ p = 1 \/ query[p - 1] = 38
                   /\ query[p + n] = 61
                   /\ SameLetters(name, SubSeq(query, p, p + n - 1))}
      value == SubSeq(query, Min(starts) + n + 1, Len(query))
      end == Find(value, {38})
      decoded == UrlDecode(IF end = 0 THEN value ELSE SubSeq(value, 1, end - 1), room, TRUE)
  IN IF starts = {} THEN [len |-> -1, text |-> << >>]
     ELSE IF decoded.len = -1 THEN [decoded EXCEPT !.len = -2] ELSE decoded

(***************************************************************************)
(* get_uri_type and get_rel_url_at_current_server.                         *)
(***************************************************************************)
Invalid == {34, 60, 62, 92, 94, 96, 123, 124, 125}
ValidChar(c) == c \in 33 .. 126 /\ c \notin Invalid

abs_uri_protocols ==
  <<[proto |-> <<104, 116, 116, 112, 58, 47, 47>>, default_port |-> 80],
    [proto |-> <<104, 116, 116, 112, 115, 58, 47, 47>>, default_port |-> 443],
    [proto |-> <<119, 115, 58, 47, 47>>, default_port |-> 80],
    [proto |-> <<119, 115, 115, 58, 47, 47>>, default_port |-> 443]>>

(* strtoul, of what has no sign and is not too large: the number and what  *)
(* comes after it                                                          *)
Number(text) ==
  LET n == Find(Append(text, 0), (0 .. 255) \ (48 .. 57)) - 1
  IN [value |-> FoldLeft(LAMBDA v, c : 10 * v + c - 48, 0, SubSeq(text, 1, n)), digits |-> n]

(* An absolute URI without its protocol: where the host ends and what its  *)
(* port is.  A ':' after the host counts for get_uri_type only.            *)
HostEnd(rest) == Find(rest, {Slash})
PortIn(rest, colon) ==
  LET p == Number(SubSeq(rest, colon + 1, Len(rest)))
  IN IF colon + p.digits + 1 = HostEnd(rest) /\ p.value \in 1 .. 65535 THEN p.value ELSE 0

ProtocolOf(uri) == {k \in 1 .. Len(abs_uri_protocols) : StartsWith(uri, abs_uri_protocols[k].proto)}
Rest(uri, k) == SubSeq(uri, Len(abs_uri_protocols[k].proto) + 1, Len(uri))

get_uri_type(uri) ==
  LET k == Min(ProtocolOf(uri))
      rest == Rest(uri, k)
      colon == Find(rest, {Colon})
  IN IF uri = <<42>> THEN 1
     ELSE IF \E i \in 1 .. Len(uri) : ~ValidChar(uri[i]) THEN 0
     ELSE IF uri # << >> /\ uri[1] = Slash THEN 2
     ELSE IF ProtocolOf(uri) = {} \/ HostEnd(rest) = 0 THEN 0
     ELSE IF colon = 0 THEN 3
     ELSE IF PortIn(rest, colon) # 0 THEN 4 ELSE 0

(* The path when this server is meant, << >> otherwise. *)
get_rel_url_at_current_server(uri) ==
  LET k == Min(ProtocolOf(uri))
      rest == Rest(uri, k)
      end == HostEnd(rest)
      colon == Find(SubSeq(rest, 1, end), {Colon})
      port == IF colon = 0 THEN abs_uri_protocols[k].default_port ELSE PortIn(rest, colon)
      host == SubSeq(rest, 1, (IF colon = 0 THEN end ELSE colon) - 1)
      here == host = Domain \/ (Len(host) >= Len(Domain) + 2 /\ IsSuffix(<<Dot>> \o Domain, host))
  IN IF ProtocolOf(uri) # {} /\ end # 0 /\ port = Port /\ here THEN SubSeq(rest, end, Len(rest))
     ELSE << >>

(***************************************************************************)
(* handle_request until it calls a handler, get_request_handler.           *)
(***************************************************************************)
(* remove_double_dots_and_double_slashes *)
CleanPath(path) ==
  LET n == Len(path)
      dots(i) == i < n /\ path[i] = Dot /\ path[i + 1] = Dot
      slash(i) == i <= n /\ path[i] \in {Slash, 92}
      start[i \in 1 .. n + 1] == IF dots(i) THEN start[i + 1] ELSE i
      after[i \in 1 .. n + 1] == IF slash(i) THEN after[i + 1] ELSE IF dots(i) THEN after[i + 2] ELSE i
      from[i \in 1 .. n + 1] ==
        IF i = n + 1 THEN << >>
        ELSE <<path[i]>> \o from[IF slash(i) THEN after[i + 1] ELSE i + 1]
  IN from[start[1]]

Handlers == <<<<47, 106, 115, 111, 110>>,
              <<47, 115, 110, 97, 112, 115, 104, 111, 116>>,
              <<47>>>>

(* get_request_handler: the same text, then one with a '/' after it, then  *)
(* one that starts with it in any case; of these the first registered.     *)
HandlerOf(path) ==
  LET same == {h \in 1 .. Len(Handlers) : Handlers[h] = path}
      below == {h \in 1 .. Len(Handlers) :
                  /\ Len(Handlers[h]) < Len(path) /\ path[Len(Handlers[h]) + 1] = Slash
                  /\ IsPrefix(Handlers[h], path)}
      starting == {h \in 1 .. Len(Handlers) : StartsWith(path, Handlers[h])}
  IN IF same # {} THEN Min(same)
     ELSE IF below # {} THEN Min(below)
     ELSE IF starting # {} THEN Min(starting) ELSE 0

(* What is decoded ends before a zero; what decodes is not longer.         *)
LocalPath(local_uri) ==
  CleanPath(Terminated(UrlDecode(local_uri, Len(local_uri) + 1, FALSE).text))
=============================================================================
