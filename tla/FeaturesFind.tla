---------------------------- MODULE FeaturesFind ----------------------------
(***************************************************************************)
(* The left-to-right scanner of faup: faup_features_find() walks a URL one *)
(* character at a time and records where each part starts (its pos, -1     *)
(* when the part is absent).  Sizes are computed afterwards, by Decode.    *)
(***************************************************************************)
EXTENDS UrlChars

CONSTANT Urls           \* the URLs a caller may decode

ASSUME UrlsAssumption == Urls \subseteq Seq(Chars)

Fields == {"scheme", "hierarchical", "credential", "host", "subdomain", "domain",
           "domain_without_tld", "tld", "port", "resource_path", "query_string",
           "fragment"}

UrlTypes == {"HAS_NO_TLD", "HAS_MOZILLA_TLD", "HAS_UNKNOWN_TLD", "IPV4", "IPV6"}

VARIABLES
  decoded,              \* the handler has been given a URL (fh->faup.decoded)
  url,                  \* the URL being scanned
  current_pos,          \* the offset of the next character to read
  nb_slashes,           \* slashes read so far, the skipped ones included
  last_slash_meaning,   \* what the last meaningful slash stood for
  host_is_ipv6,         \* inside a bracketed or '::' host: skip up to ']'
  special_char_after_colons_pos,  \* where a delimiter right after ':' is inert
  pos,                  \* the start of every part, -1 when absent
  url_type

scanVars == <<decoded, url, current_pos, nb_slashes, last_slash_meaning, host_is_ipv6,
              special_char_after_colons_pos, pos, url_type>>

-----------------------------------------------------------------------------

At(k) == CharAt(url, k)

Exist(f) == pos[f] >= 0

(* Mutant: the end of the domain is forgotten. *)
BeforeDomainEnds_Forgotten == last_slash_meaning # "unknown"

BeforeDomainEnds == last_slash_meaning # "AFTER_DOMAIN"

(* A handler as faup_init leaves it: every feature is zeroed. *)
FeaturesZero ==
  /\ decoded = FALSE
  /\ url = <<>>
  /\ current_pos = 0
  /\ nb_slashes = 0
  /\ last_slash_meaning = "NOTFOUND"
  /\ host_is_ipv6 = FALSE
  /\ special_char_after_colons_pos = -1
  /\ pos = [f \in Fields |-> 0]
  /\ url_type = "HAS_NO_TLD"

(* Mutant: the positions of the previous URL are not cleared. *)
Find_KeepsPositions(u) ==
  /\ decoded' = TRUE
  /\ url' = u
  /\ current_pos' = 0
  /\ nb_slashes' = 0
  /\ last_slash_meaning' = "NOTFOUND"
  /\ host_is_ipv6' = FALSE
  /\ special_char_after_colons_pos' = -1
  /\ url_type' = "HAS_NO_TLD"
  /\ UNCHANGED pos

(* faup_decode hands u to faup_features_find, which forgets the positions  *)
(* of the previous URL before it reads anything.                           *)
Find(u) ==
  /\ decoded' = TRUE
  /\ url' = u
  /\ current_pos' = 0
  /\ nb_slashes' = 0
  /\ last_slash_meaning' = "NOTFOUND"
  /\ host_is_ipv6' = FALSE
  /\ special_char_after_colons_pos' = -1
  /\ pos' = [f \in Fields |-> -1]
  /\ url_type' = "HAS_NO_TLD"

(* Common to every step: the next character is c and is read. *)
Read(c) ==
  /\ current_pos < Len(url)
  /\ At(current_pos) = c
  /\ current_pos' = current_pos + 1
  /\ nb_slashes' = IF c = "/" THEN nb_slashes + 1 ELSE nb_slashes
  /\ UNCHANGED <<decoded, url>>

(* Outside of brackets the switch sees the character. *)
Switch(c) == Read(c) /\ ~(host_is_ipv6 /\ c # "]")

-----------------------------------------------------------------------------

(* Inside an IPv6 host everything but ']' is skipped. *)
SkipBracketed ==
  /\ host_is_ipv6
  /\ \E c \in Chars \ {"]"} : Read(c)
  /\ UNCHANGED <<last_slash_meaning, host_is_ipv6, special_char_after_colons_pos,
                 pos, url_type>>

EscapedSlash == At(current_pos - 1) = "\\"

OpeningSlash == nb_slashes = 0 /\ At(current_pos - 1) = ":"

(* '/' right after a backslash means nothing. *)
ReadEscapedSlash ==
  /\ Switch("/")
  /\ EscapedSlash
  /\ UNCHANGED <<last_slash_meaning, host_is_ipv6, special_char_after_colons_pos,
                 pos, url_type>>

(* Mutant: the scheme stays the host. *)
ReadOpeningSlash_KeepsHost ==
  /\ Switch("/")
  /\ ~EscapedSlash
  /\ OpeningSlash
  /\ IF BeforeDomainEnds
     THEN /\ last_slash_meaning' = "HIERARCHICAL"
          /\ pos' = [pos EXCEPT
               !["hierarchical"] = current_pos - 1,
               !["scheme"] = IF At(current_pos - 2) \in Letters THEN 0 ELSE @,
               !["port"] = -1]
     ELSE UNCHANGED <<last_slash_meaning, pos>>
  /\ UNCHANGED <<host_is_ipv6, special_char_after_colons_pos, url_type>>

(* The first '/' of the URL, right after a ':', opens the hierarchy: what  *)
(* was taken for a host was the scheme.  Once the domain is over it has no *)
(* effect.                                                                 *)
ReadOpeningSlash ==
  /\ Switch("/")
  /\ ~EscapedSlash
  /\ OpeningSlash
  /\ IF BeforeDomainEnds
     THEN /\ last_slash_meaning' = "HIERARCHICAL"
          /\ pos' = [pos EXCEPT
               !["hierarchical"] = current_pos - 1,
               !["scheme"] = IF At(current_pos - 2) \in Letters THEN 0 ELSE @,
               !["host"] = -1,
               !["port"] = -1]
     ELSE UNCHANGED <<last_slash_meaning, pos>>
  /\ UNCHANGED <<host_is_ipv6, special_char_after_colons_pos, url_type>>

(* Mutant: a scheme needs no host to be followed by a path. *)
AuthorityMayEnd_WithoutHost == Exist("scheme") \/ ~Exist("hierarchical")

(* Without a scheme and a hierarchy any delimiter may end the authority;   *)
(* with a scheme it has to follow a host.                                  *)
AuthorityMayEnd ==
  IF Exist("scheme") THEN Exist("host") ELSE ~Exist("hierarchical")

(* Any other '/' starts the resource path, if none was found. *)
ReadSlash ==
  LET startsPath == ~Exist("resource_path") /\ AuthorityMayEnd
  IN /\ Switch("/")
     /\ ~EscapedSlash
     /\ ~OpeningSlash
     /\ pos' = IF startsPath THEN [pos EXCEPT !["resource_path"] = current_pos]
                             ELSE pos
     /\ last_slash_meaning' =
          IF startsPath \/ Exist("host") THEN "AFTER_DOMAIN" ELSE last_slash_meaning
     /\ UNCHANGED <<host_is_ipv6, special_char_after_colons_pos, url_type>>

(* The first '@' before the end of the domain: what was taken for the host *)
(* was the credential, and a port found in it was a password.              *)
ReadAt ==
  LET opensHost == /\ BeforeDomainEnds
                   /\ special_char_after_colons_pos # current_pos
                   /\ ~Exist("credential")
                   /\ At(current_pos - 1) # "@"
  IN /\ Switch("@")
     /\ pos' = IF opensHost
               THEN [pos EXCEPT !["credential"] = pos["host"],
                                !["host"] = current_pos + 1,
                                !["port"] = -1]
               ELSE pos
     /\ UNCHANGED <<last_slash_meaning, host_is_ipv6, special_char_after_colons_pos,
                    url_type>>

(* ':' before the end of the domain starts a port, protects the delimiter  *)
(* that follows it, or (doubled, before any host) opens a bare IPv6 host.  *)
ReadColon ==
  LET next_c == At(current_pos + 1)
      looksForPort == ~Exist("port") /\ BeforeDomainEnds
      startsPort == looksForPort /\ IsAlnum(next_c)
      protects   == looksForPort /\ ~IsAlnum(next_c) /\ next_c # ":"
      startsIpv6 == looksForPort /\ next_c = ":" /\ ~Exist("host")
  IN /\ Switch(":")
     /\ pos' = IF startsPort THEN [pos EXCEPT !["port"] = current_pos + 1]
               ELSE IF startsIpv6 THEN [pos EXCEPT !["host"] = current_pos]
               ELSE pos
     /\ special_char_after_colons_pos' =
          IF protects THEN current_pos + 1 ELSE special_char_after_colons_pos
     /\ host_is_ipv6' = startsIpv6
     /\ url_type' = IF startsIpv6 THEN "IPV6" ELSE url_type
     /\ UNCHANGED last_slash_meaning

(* '?' starts the query, and ends the domain if nothing did before. *)
ReadQuestionMark ==
  LET meansQuery == /\ special_char_after_colons_pos # current_pos
                    /\ BeforeDomainEnds => ~Exist("resource_path") /\ AuthorityMayEnd
  IN /\ Switch("?")
     /\ pos' = IF meansQuery /\ ~Exist("query_string")
               THEN [pos EXCEPT !["query_string"] = current_pos]
               ELSE pos
     /\ last_slash_meaning' = IF meansQuery THEN "AFTER_DOMAIN" ELSE last_slash_meaning
     /\ UNCHANGED <<host_is_ipv6, special_char_after_colons_pos, url_type>>

(* Mutant: the last '#' wins. *)
ReadHash_LastWins ==
  /\ Switch("#")
  /\ pos' = IF special_char_after_colons_pos # current_pos
            THEN [pos EXCEPT !["fragment"] = current_pos]
            ELSE pos
  /\ UNCHANGED <<last_slash_meaning, host_is_ipv6, special_char_after_colons_pos,
                 url_type>>

(* The first '#', wherever it is, starts the fragment.  It does not end    *)
(* the domain.                                                             *)
ReadHash ==
  /\ Switch("#")
  /\ pos' = IF special_char_after_colons_pos # current_pos /\ ~Exist("fragment")
            THEN [pos EXCEPT !["fragment"] = current_pos]
            ELSE pos
  /\ UNCHANGED <<last_slash_meaning, host_is_ipv6, special_char_after_colons_pos,
                 url_type>>

(* '[' opens an IPv6 host when no host was found. *)
ReadOpenBracket ==
  /\ Switch("[")
  /\ pos' = IF Exist("host") THEN pos ELSE [pos EXCEPT !["host"] = current_pos]
  /\ host_is_ipv6' = ~Exist("host")
  /\ UNCHANGED <<last_slash_meaning, special_char_after_colons_pos, url_type>>

(* ']' closes it. *)
ReadCloseBracket ==
  /\ Switch("]")
  /\ host_is_ipv6' = FALSE
  /\ UNCHANGED <<last_slash_meaning, special_char_after_colons_pos, pos, url_type>>

(* Any other character starts the host when there is none, unless there is *)
(* a credential; the first character of the URL always does.               *)
ReadOther ==
  /\ \E c \in Others : Switch(c)
  /\ pos' = IF current_pos = 0 \/ (~Exist("host") /\ ~Exist("credential"))
            THEN [pos EXCEPT !["host"] = current_pos]
            ELSE pos
  /\ UNCHANGED <<last_slash_meaning, host_is_ipv6, special_char_after_colons_pos,
                 url_type>>

ReadChar ==
  \/ SkipBracketed
  \/ ReadEscapedSlash
  \/ ReadOpeningSlash
  \/ ReadSlash
  \/ ReadAt
  \/ ReadColon
  \/ ReadQuestionMark
  \/ ReadHash
  \/ ReadOpenBracket
  \/ ReadCloseBracket
  \/ ReadOther

-----------------------------------------------------------------------------

(* One call of faup_features_find on a new handler. *)
Init == FeaturesZero

Next ==
  \/ ~decoded /\ \E u \in Urls : Find(u)
  \/ ReadChar

Spec == Init /\ [][Next]_scanVars

ScanDone == current_pos = Len(url)

-----------------------------------------------------------------------------

(* Every position is an offset of the URL, or one past what was read, and  *)
(* -1 or 0 for what is absent or not decided yet.                          *)
TypeOK ==
  /\ decoded \in BOOLEAN
  /\ url \in Seq(Chars)
  /\ current_pos \in 0 .. Len(url)
  /\ nb_slashes \in 0 .. current_pos
  /\ last_slash_meaning \in {"NOTFOUND", "HIERARCHICAL", "AFTER_DOMAIN"}
  /\ host_is_ipv6 \in BOOLEAN
  /\ special_char_after_colons_pos \in -1 .. current_pos
  /\ pos \in [Fields -> -1 .. current_pos]
  /\ url_type \in UrlTypes

(* A part is only ever found at the delimiter that announces it, however   *)
(* often the scanner changed its mind about the parts before: the port     *)
(* follows a ':', the hierarchy is the ':' of "://", a credential is       *)
(* followed by an '@' right before the host unless the scheme was found    *)
(* after it, and the host is never in front of the hierarchy.              *)
PartsAtDelimiters ==
  decoded =>
    /\ Exist("resource_path") => At(pos["resource_path"]) = "/"
    /\ Exist("query_string")  => At(pos["query_string"]) = "?"
    /\ Exist("fragment")      => At(pos["fragment"]) = "#"
    /\ Exist("port") => At(pos["port"] - 1) = ":" /\ At(pos["port"]) \in Letters \cup Digits
    /\ Exist("hierarchical") => /\ At(pos["hierarchical"]) = ":"
                                /\ At(pos["hierarchical"] + 1) = "/"

(* The parts that are sized by subtracting two positions are in order:     *)
(* scheme < hierarchical < host and credential < host, both behind the     *)
(* cursor, and only the first slash opens the hierarchy.  (decode.c        *)
(* subtracts unsigned: an inversion would give a size near 2^32.)          *)
PartsInOrder ==
  decoded =>
    /\ pos["hierarchical"] < current_pos
    /\ pos["credential"] < current_pos
    /\ Exist("hierarchical") => nb_slashes > 0
    /\ Exist("scheme") => pos["scheme"] = 0 /\ pos["hierarchical"] > 0
    /\ Exist("hierarchical") /\ Exist("host") => pos["hierarchical"] < pos["host"]
    /\ Exist("credential") /\ Exist("host") => pos["credential"] < pos["host"]
    /\ Exist("hierarchical") /\ Exist("port") => pos["hierarchical"] < pos["port"]

(* What comes after the domain never reopens it: once a '/' or a '?' ended *)
(* the authority, no '@', ':' or "://" of the path or query can move the   *)
(* scheme, the credential, the port or a host that was found, and nothing  *)
(* takes the decision back.                                                *)
StepKeepsAuthority ==
  decoded /\ last_slash_meaning = "AFTER_DOMAIN" =>
    /\ \A f \in {"scheme", "hierarchical", "credential", "port"} : pos'[f] = pos[f]
    /\ Exist("host") => pos'["host"] = pos["host"]
    /\ last_slash_meaning' = "AFTER_DOMAIN"

AuthorityFrozen == [][StepKeepsAuthority]_scanVars

(* The first '/', '?' and '#' that count win: a path, query or fragment    *)
(* that was found is not moved by a later delimiter.                       *)
StepKeepsFound ==
  decoded => \A f \in {"resource_path", "query_string", "fragment"} :
               Exist(f) => pos'[f] = pos[f]

FirstDelimiterWins == [][StepKeepsFound]_scanVars

=============================================================================
