---------------------------- MODULE HttpRequest -----------------------------
(***************************************************************************)
(* One worker of the webserver reads requests, one for a connection: the   *)
(* bytes come in pieces into the buffer that it keeps for all connections, *)
(* until they hold the end of a header; then they are taken apart in place *)
(* and answered (lib/civetweb/civetweb.c, the handlers of lib/webserver.c).*)
(*                                                                         *)
(* A character is its code, and a whole word that the code compares is one *)
(* more character, above 255: what matters of it is which word it is.  The *)
(* URI is such a word; its text is a text.  That the server stops is left  *)
(* to WorkerPool, what handlers do with their value to WebServer.          *)
(***************************************************************************)
EXTENDS Base64, Uri

CONSTANTS Visits,      \* who may come to a worker: sequences of clients, records
                       \* of the stream that is sent and the text of its URI, and
                       \* of what is asked for, which properties know only
          buf_size,    \* max_request_size
          MaxHeaders,  \* MG_MAX_HEADERS
          Timeout,     \* request_timeout
          MaxLen       \* FAUP_MAXLEN and KEY_MAXLEN

ASSUME VisitsAssumption ==
  \A v \in Visits : /\ v # << >> /\ v \in Seq(Range(v))
                    /\ \A c \in Range(v) : c.stream \in Seq(Nat)

(* A word that may be a URI is one character: no other begins with a slash *)
(* or the first letter of a protocol.                                      *)
ASSUME UrisAssumption ==
  \A v \in Visits : \A c \in Range(v) :
    c.uri \in Seq(Nat) /\ Range(c.stream) \cap {47, 72, 87, 104, 119} = {}

ASSUME TimeoutAssumption == Timeout \in Nat \ {0}
ASSUME BufferAssumption == buf_size \in Nat \ {0}
ASSUME HeadersAssumption == MaxHeaders \in Nat \ {0}

CR == 13   LF == 10   Space == 32
GET == 300   POST == 301   URI == 302
HTTP10 == 303   HTTP11 == 304   HTTP3 == 305     \* "HTTP/..."
Host == 306   ContentLength == 307               \* names of headers

VARIABLES
  pc,          \* "reading" or "done"
  client,      \* the client of this connection
  later,       \* those that come after it
  buf,         \* the buffer, which no connection clears
  data_len,    \* how much of it was received on this connection
  now,         \* time since req_time
  last_action, \* last_action_time
  answer       \* what the client gets

requestVars == <<pc, client, later, buf, data_len, now, last_action, answer>>

(***************************************************************************)
(* Characters: ctype.h of the C locale.                                    *)
(***************************************************************************)
isspace(c) == c \in {9, 10, 11, 12, 13, 32}
iscntrl(c) == c \in (0 .. 31) \cup {127}
isgraph(c) == c \in 33 .. 126 \/ c > 255
Bad(c) == iscntrl(c) /\ c \notin {CR, LF}

(* The first place from i on where the test holds. *)
From(b, i, Test(_)) == CHOOSE j \in i .. Len(b) : Test(b[j]) /\ \A k \in i .. j - 1 : ~Test(b[k])
PastWord(b, i) == From(b, i, LAMBDA c : ~isgraph(c))
PastSpaces(b, i) == From(b, i, LAMBDA c : ~isspace(c))
PastName(b, i) == From(b, i, LAMBDA c : c = Colon \/ ~isgraph(c))
PastBlanks(b, i) == From(b, i, LAMBDA c : c # Space)
LineEnd(b, i) == From(b, i, LAMBDA c : c \in {CR, LF, 0})
StringEnd(b, i) == From(b, i, LAMBDA c : c = 0)

Zeroed(b, i, j) == [k \in 1 .. Len(b) |-> IF k \in i .. j THEN 0 ELSE b[k]]

(* get_http_header_len of the first n: 0 when the end has not come, -1     *)
(* when something else came before it.                                     *)
HeaderLen(b, n) ==
  LET two(i) == i + 1 <= n /\ b[i] = LF /\ b[i + 1] = LF
      four(i) == i + 3 <= n /\ SubSeq(b, i, i + 3) = <<CR, LF, CR, LF>>
      stops == {i \in 1 .. n : Bad(b[i]) \/ two(i) \/ four(i)}
      stop == Min(stops)
  IN IF stops = {} THEN 0
     ELSE IF Bad(b[stop]) THEN -1
     ELSE IF two(stop) THEN stop + 1 ELSE stop + 3

(***************************************************************************)
(* parse_http_request, on the whole buffer: what it found and what it      *)
(* wrote.  A word ends where it is terminated; the next begins at at.      *)
(***************************************************************************)
Failed(b) == [ok |-> FALSE, buf |-> b]

(* skip_to_end_of_word_and_terminate *)
SkipWord(b, i, eol) ==
  LET end == PastWord(b, i)
      next == PastSpaces(b, end + 1)
      after == Zeroed(b, end, next - 1)
  IN IF (eol /\ b[end] \notin {CR, LF}) \/ (~eol /\ b[end] # Space) THEN Failed(b)
     ELSE IF ~eol /\ ~isgraph(b[next]) THEN Failed(after)
     ELSE [ok |-> TRUE, buf |-> after, word |-> SubSeq(b, i, end - 1), at |-> next]

NextWord(so_far, eol) == SkipWord(so_far.buf, so_far.at, eol)

(* parse_http_headers: one turn of its loop, from at on, as long as it     *)
(* goes on.                                                                *)
ParseHeader(so_far) ==
  LET b == so_far.buf
      i == so_far.at
      colon == PastName(b, i)
      value == PastBlanks(b, colon + 1)
      end == LineEnd(b, value)
      cut == Zeroed(b, colon, colon)
      ended == Zeroed(cut, end, end + 1)
      header(text) == [name |-> SubSeq(b, i, colon - 1), value |-> text]
      last == [so_far EXCEPT !.goes_on = FALSE]
  IN IF colon = i THEN last
     ELSE IF b[colon] # Colon THEN [last EXCEPT !.ok = FALSE]
     ELSE IF b[end] # CR \/ b[end + 1] # LF
     THEN [last EXCEPT
             !.buf = cut,
             !.headers = Append(@, header(SubSeq(b, value, StringEnd(b, value) - 1)))]
     ELSE [so_far EXCEPT
             !.goes_on = ended[end + 2] # CR, !.buf = ended, !.at = end + 2,
             !.headers = Append(@, header(SubSeq(b, value, end - 1)))]

ParseHeaders(b, i) ==
  LET after[n \in 0 .. MaxHeaders] ==
        IF n = 0 THEN [goes_on |-> TRUE, ok |-> TRUE, buf |-> b, at |-> i, headers |-> << >>]
        ELSE IF after[n - 1].goes_on THEN ParseHeader(after[n - 1]) ELSE after[n - 1]
  IN after[MaxHeaders]

ParseRequest(b) ==
  LET start == PastSpaces(Append(b, 256), 1)
      head == SubSeq(b, start, Len(b))
      len == HeaderLen(head, Len(head))
      put(r) == [r EXCEPT !.buf = SubSeq(b, 1, start - 1) \o @]
      cut == Zeroed(head, len, len)
      method == NextWord([buf |-> cut, at |-> 1], FALSE)
      target == NextWord(method, FALSE)
      version == NextWord(target, TRUE)
      headers == ParseHeaders(version.buf, version.at)
  IN IF start > Len(b) \/ iscntrl(b[start]) \/ len <= 0 THEN Failed(b)
     ELSE IF ~method.ok THEN put(method)
     ELSE IF method.word \notin {<<GET>>, <<POST>>} THEN put(Failed(method.buf))
     ELSE IF ~target.ok THEN put(target)
     ELSE IF ~version.ok THEN put(version)
     ELSE IF version.word[1] \notin {HTTP10, HTTP11, HTTP3} THEN put(Failed(version.buf))
     ELSE IF ~headers.ok THEN put(Failed(headers.buf))
     ELSE put([ok |-> TRUE, buf |-> headers.buf, method |-> method.word, target |-> target.word,
               version |-> version.word, headers |-> headers.headers])

(* get_header: the first of that name *)
Values(request, name) ==
  LET named == SelectSeq(request.headers, LAMBDA h : h.name = <<name>>)
  IN [i \in 1 .. Len(named) |-> named[i].value]

(* alloc_get_host: a name in brackets must end with one. *)
HostOK(request) ==
  LET values == Values(request, Host)
      name == SelectSeq(values[1], LAMBDA c : ~isspace(c))
  IN values = << >> \/ ~IsPrefix(<<91>>, name) \/ Contains(name, 93)

(* strtoll: there is a number. *)
LengthOK(request) ==
  LET values == Values(request, ContentLength)
      text == SelectSeq(values[1], LAMBDA c : ~isspace(c))
  IN values = << >> \/ (text # << >> /\ text[1] \in 48 .. 57)

(***************************************************************************)
(* What is answered.                                                       *)
(***************************************************************************)
Answer(status, code, value) == [status |-> status, code |-> code, value |-> value]
Error(code) == Answer("error", code, << >>)
Closed == Answer("closed", 0, << >>)
Help == Answer("help", 200, << >>)

Text(word) == FlattenSeq([i \in 1 .. Len(word) |-> IF word[i] = URI THEN client.uri ELSE <<word[i]>>])

(* json_output: an empty URL gets no answer. *)
JsonOutput(url) ==
  LET text == Terminated(url.text)
  IN IF url.len < 0 THEN Help
     ELSE IF text = << >> THEN Closed
     ELSE Answer("json", 200, DecodeBlock(text).out)

(* snapshot_action_append_handler, snapshot_action_get_handler *)
SnapshotKey(key) ==
  IF key.len < 0 THEN Help
  ELSE Answer("key", 200, AsString(DecodeBlock(Terminated(key.text))))

(* handle_request: the query is what follows the first '?'. *)
HandleRequest(local_uri) ==
  LET mark == Find(local_uri, {63})
      path == LocalPath(IF mark = 0 THEN local_uri ELSE SubSeq(local_uri, 1, mark - 1))
      query == SubSeq(local_uri, mark + 1, Len(local_uri))
      handler == HandlerOf(path)
  IN IF handler = 3 THEN Answer("page", 200, << >>)
     ELSE IF mark = 0 THEN Help
     ELSE IF handler = 1 THEN JsonOutput(GetVar(query, <<117, 114, 108>>, MaxLen))
     ELSE SnapshotKey(GetVar(query, <<107, 101, 121>>, MaxLen))

(* get_request after parse_http_request, process_new_connection: a URI     *)
(* that is not of this server gets no answer.                              *)
Process(request) ==
  LET text == Text(request.target)
      type == get_uri_type(text)
      local_uri == IF type = 2 THEN text ELSE get_rel_url_at_current_server(text)
  IN IF ~HostOK(request) THEN Error(400)
     ELSE IF ~LengthOK(request) THEN Error(411)
     ELSE IF request.version \notin {<<HTTP10>>, <<HTTP11>>} THEN Error(505)
     ELSE IF type = 0 THEN Error(400)
     ELSE IF type = 1 \/ local_uri = << >> THEN Closed
     ELSE HandleRequest(local_uri)

(***************************************************************************)
(* Reading: read_message, get_message, pull_inner.                         *)
(***************************************************************************)
Unanswered == Answer("none", 0, << >>)

RequestInit ==
  /\ pc = "reading" /\ \E v \in Visits : client = v[1] /\ later = Tail(v)
  /\ buf = [i \in 1 .. buf_size |-> 0]
  /\ data_len = 0 /\ now = 0 /\ last_action = 0
  /\ answer = Unanswered

(* What was received is no request: nothing is said to who sent nothing. *)
NoMessage == IF data_len' > 0 THEN Error(400) ELSE Closed

GiveUpReading ==
  /\ pc' = "done" /\ answer' = NoMessage
  /\ UNCHANGED <<client, later, last_action>>

(* get_request reads the buffer when it has the end of a header. *)
Finish(b) ==
  LET request == ParseRequest(b)
  IN /\ pc' = "done" /\ buf' = request.buf
     /\ answer' = IF request.ok THEN Process(request) ELSE Error(400)
     /\ UNCHANGED <<client, later, last_action>>

(* A piece of the header came, or nothing: it goes on until a read began   *)
(* when the time was over.                                                 *)
LastedTooLong_Idle == now' - last_action > Timeout
LastedTooLong == last_action > Timeout

GoOn ==
  IF LastedTooLong THEN GiveUpReading
  ELSE last_action' = now' /\ UNCHANGED <<pc, client, later, answer>>

Received_Buffer(b, n) == HeaderLen(b, buf_size)
Received(b, n) == HeaderLen(b, n)

Receive ==
  /\ pc = "reading" /\ data_len < buf_size
  /\ \E n \in 1 .. Min({Len(client.stream), buf_size}) - data_len, wait \in 0 .. Timeout :
       LET b == [i \in 1 .. buf_size |->
                   IF i \in data_len + 1 .. data_len + n THEN client.stream[i] ELSE buf[i]]
           len == Received(b, data_len + n)
       IN /\ data_len' = data_len + n /\ now' = now + wait
          /\ CASE len > 0 -> Finish(b)
               [] len = 0 -> buf' = b /\ GoOn
               [] len < 0 -> buf' = b /\ GiveUpReading

Silence ==
  /\ pc = "reading" /\ data_len < buf_size
  /\ now' = now + Timeout /\ UNCHANGED <<buf, data_len>>
  /\ GoOn

(* The client closes, or the buffer is full. *)
StopReading ==
  /\ pc = "reading" /\ UNCHANGED <<buf, data_len, now>>
  /\ GiveUpReading

(* The next connection of this worker: reset_per_request_attributes. *)
NextConnection ==
  /\ pc = "done" /\ later # << >>
  /\ pc' = "reading" /\ client' = later[1] /\ later' = Tail(later)
  /\ data_len' = 0 /\ now' = 0 /\ last_action' = 0
  /\ answer' = Unanswered /\ UNCHANGED buf

RequestNext == Receive \/ Silence \/ StopReading \/ NextConnection

RequestSpec == RequestInit /\ [][RequestNext]_requestVars

(***************************************************************************)
(* Properties                                                              *)
(***************************************************************************)
(* What was received on this connection. *)
Own == SubSeq(client.stream, 1, data_len)

(* RFC 7230, of the first character on: a line with three words, lines     *)
(* with a name and a value, an empty line.                                 *)
CRLF(s, i) == i < Len(s) /\ s[i] = CR /\ s[i + 1] = LF
Ends(s) == {i \in 1 .. Len(s) - 3 : CRLF(s, i) /\ CRLF(s, i + 2)}

(* The smallest but n - 1 of a set; where the lines of the header end.     *)
Nth(S, n) == CHOOSE i \in S : Cardinality({j \in S : j <= i}) = n
Breaks(s) == {i \in 1 .. Min(Ends(s)) : CRLF(s, i)}
LinesOf(s) ==
  LET breaks == Breaks(s)
  IN [n \in 1 .. Cardinality(breaks) |->
        SubSeq(s, IF n = 1 THEN 1 ELSE Nth(breaks, n - 1) + 2, Nth(breaks, n) - 1)]

IsLine(line) == \A i \in 1 .. Len(line) : isgraph(line[i]) \/ line[i] = Space
IsField(line) == LET c == Find(line, {Colon}) IN c > 1 /\ \A i \in 1 .. c - 1 : isgraph(line[i])
Field(line) ==
  LET c == Find(line, {Colon})
      value == SubSeq(line, c + 1, Len(line))
      blanks == {n \in 0 .. Len(value) : \A i \in 1 .. n : value[i] = Space}
  IN [name |-> SubSeq(line, 1, c - 1), value |-> SubSeq(value, Max(blanks) + 1, Len(value))]

IsRequestLine(line) ==
  Len(line) = 5 /\ line[1] \in {GET, POST} /\ line[2] = Space /\ line[3] = URI /\ line[4] = Space
                /\ line[5] \in {HTTP10, HTTP11}
IsRfc(s) ==
  /\ Ends(s) # {}
  /\ LET lines == LinesOf(s)
     IN /\ IsRequestLine(lines[1])
        /\ \A n \in 2 .. Len(lines) : IsLine(lines[n]) /\ IsField(lines[n])
RfcRequest(s) ==
  LET lines == LinesOf(s)
  IN [target |-> <<lines[1][3]>>, version |-> <<lines[1][5]>>,
      headers |-> [n \in 1 .. Min({Len(lines) - 1, MaxHeaders}) |-> Field(lines[n + 1])]]

(* The words that a client sent, whatever is between them. *)
WordStarts(s) == {i \in 1 .. Len(s) : isgraph(s[i]) /\ (i = 1 \/ ~isgraph(s[i - 1]))}
OnlyBlank(s) == \E n \in 1 .. Len(s) : HeaderLen(s, n) = n /\ \A i \in 1 .. n : isspace(s[i])

(* get_request: what is answered depends on what the client sent and not   *)
(* on how it was cut into pieces, nor on what the worker read before: a    *)
(* request that is well formed is answered for what it says, once its      *)
(* header is there (for the first MaxHeaders fields of it); whoever gets a *)
(* handler's answer sent the words of a request.  The worker reads on in   *)
(* what is left of earlier requests when all it has are blank lines.       *)
AnsweredAsSent ==
  pc = "done" /\ ~OnlyBlank(Own) =>
    /\ IsRfc(Own) => answer = Process(RfcRequest(Own))
    /\ answer.code = 200 =>
         LET starts == WordStarts(Own)
             word(n) == Own[Nth(starts, n)]
         IN /\ Cardinality(starts) >= 3
            /\ word(1) \in {GET, POST} /\ word(2) = URI /\ word(3) \in {HTTP10, HTTP11}

(* What a client that asks for a URL or a key sends: both in base64, with  *)
(* some characters escaped; newlines always are.                           *)
HexDigit(d) == IF d < 10 THEN d + 48 ELSE d + 87
Escaped(text, chars) ==
  FlattenSeq([i \in 1 .. Len(text) |->
    IF text[i] \in chars THEN <<Percent, HexDigit(text[i] \div 16), HexDigit(text[i] % 16)>>
    ELSE <<text[i]>>])

JsonQuery == <<47, 106, 115, 111, 110, 63, 117, 114, 108, 61>>
KeyQuery == <<47, 115, 110, 97, 112, 115, 104, 111, 116, 63, 97, 38, 107, 101, 121, 61>>
Asked(asks) == IF asks = "json" THEN JsonQuery ELSE KeyQuery

ASSUME AskingAssumption ==
  \A v \in Visits : \A c \in Range(v) : c.asks \in {"json", "key"} =>
    /\ IsRfc(c.stream)
    /\ c.value \in Seq(1 .. 255) /\ Len(Encode(c.value)) < MaxLen
    /\ 10 \in c.escapes /\ c.uri = Asked(c.asks) \o Escaped(Encode(c.value), c.escapes)

(* json_output, snapshot_action_append_handler: what a client encodes and  *)
(* escapes is what faup decodes as a URL or appends as a key, except that  *)
(* a key whose length is a multiple of three is followed by what the stack *)
(* held.                                                                   *)
ValueArrives ==
  pc = "done" /\ answer.code = 200 /\ client.asks \in {"json", "key"} =>
    answer.value = IF client.asks = "key" /\ Len(client.value) % 3 = 0 /\ client.value # << >>
                   THEN Append(client.value, Unset) ELSE client.value
(* read_message: a client that is slow, or silent, keeps the worker for    *)
(* three times request_timeout at most.                                    *)
EndsInTime == now <= 3 * Timeout
=============================================================================
