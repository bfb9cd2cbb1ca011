------------------------------- MODULE MCHttp -------------------------------
(***************************************************************************)
(* Requests for TLC: one well-formed request and all that differ from it   *)
(* in one character, a few with other headers, and one whose URI is any of *)
(* a set: the URLs and keys of Texts in base64, as a client writes them,  *)
(* and URIs of every kind.  Before some of them came one that leaves       *)
(* something in the buffer.                                                *)
(***************************************************************************)
EXTENDS HttpRequest

Plain == <<GET, Space, URI, Space, HTTP11, CR, LF, Host, Colon, Space, 97, CR, LF, CR, LF>>
Alphabet == {CR, LF, Space, Colon, 1, 97, POST, URI, HTTP3}

Replaced == {[Plain EXCEPT ![i] = c] : i \in 1 .. Len(Plain), c \in Alphabet}
Inserted == {InsertAt(Plain, i, c) : i \in 1 .. Len(Plain), c \in Alphabet}
Removed == {RemoveAt(Plain, i) : i \in 1 .. Len(Plain)}
With(fields) == <<POST, Space, URI, Space, HTTP10, CR, LF>> \o fields \o <<CR, LF>>
Empty(name) == <<name, Colon, CR, LF>>
Others ==
  {Plain, With(<< >>), With(<<Host, Colon, 91, CR, LF>>), With(<<Host, Colon, 91, 93, CR, LF>>),
   With(<<ContentLength, Colon, 97, CR, LF>>), With(<<ContentLength, Colon, 49, CR, LF>>),
   <<GET, Space, URI, Space, HTTP10, LF, Host, Colon, 91, LF, LF>>,
   <<LF, LF>> \o SubSeq(Plain, 1, 7) \o <<CR, LF>>,
   With(Empty(97) \o Empty(ContentLength)), With(Empty(97) \o Empty(97) \o Empty(ContentLength)),
   SubSeq(Plain, 1, 13) \o Empty(97) \o Empty(97)}
Before == {Plain, <<1>> \o Plain, SubSeq(Plain, 1, 8), <<97, 1, GET, Space, URI, Space, HTTP10, LF, LF>>}

(* What clients ask for. *)
Texts == UNION {[1 .. n -> {99, 251, 254}] : n \in 0 .. 4}
Json == <<47, 106, 115, 111, 110>>

OtherUris ==
  {<<42>>, <<47>>, Json, <<47>> \o Json, <<47, 74, 83, 79, 78>>, Json \o <<47, 120>>, Json \o <<120>>,
   Json \o <<63, 117, 61>>, <<47, 46, 46, 47>> \o Tail(Json), <<120>>, <<47, 34>>,
   <<119, 115, 58, 47, 47, 109>>, <<119, 115, 58, 47, 47, 109>> \o Json,
   <<119, 115, 58, 47, 47, 120, 46, 109, 58, 56, 48>> \o Json,
   <<119, 115, 58, 47, 47, 120, 109>> \o Json, <<119, 115, 58, 47, 47, 109, 58, 56>> \o Json}

(* Clients: what they ask for is known to the property only. *)
Client(stream, uri, asks, value, escapes) ==
  [stream |-> stream, uri |-> uri, asks |-> asks, value |-> value, escapes |-> escapes]
Other(stream, uri) == Client(stream, uri, "other", << >>, {})
Simple(stream) == Other(stream, Json)
Asking ==
  {Client(Plain, Asked(asks) \o Escaped(Encode(v), chars), asks, v, chars) :
     asks \in {"json", "key"}, v \in Texts, chars \in {{10}, {10, 61, 89}}}

MCVisits ==
  {<<c>> : c \in Asking \cup {Other(Plain, u) : u \in OtherUris}}
    \cup {<<Simple(s)>> : s \in Replaced \cup Inserted \cup Removed}
    \cup {<<Simple(b), Simple(s)>> : b \in Before, s \in Others}
MCDomain == <<109>>
=============================================================================
