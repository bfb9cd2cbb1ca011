-------------------------- MODULE DecodeAgreement ---------------------------
(***************************************************************************)
(* What faup_decode reports, told without it: the parts as RFC 3986 has    *)
(* them, and whether the host is an address.                               *)
(***************************************************************************)
EXTENDS Decode, ScanAgreement

(* A well-formed URL is decoded as RFC 3986 has it, to the character,      *)
(* whatever the handler decoded before: no position or size of an earlier  *)
(* URL shows through.  (An empty path or query is never found, so every    *)
(* part it reports was sized by this call.)                                *)
PartsAsInRfc ==
  Returned /\ Regular(url) =>
    \A f \in DOMAIN Parts(url) :
      LET part == Parts(url)[f]
      IN /\ pos[f] = part[1]
         /\ part[1] >= 0 => size[f] = part[2] - part[1]

-----------------------------------------------------------------------------
(* What the host looks like, told without is_ipv4: split at the dots, look *)
(* at the groups.                                                          *)

SolidIn(host) == {k \in DOMAIN host : ~isspace(host[k])}
DotsOf(host)  == {k \in DOMAIN host : host[k] = "."}

(* The group that ends before k starts behind the dot before it, or is the *)
(* first and starts behind the spaces.                                     *)
GroupStart(host, k) ==
  Max({Min(SolidIn(host))} \cup {d + 1 : d \in {e \in DotsOf(host) : e < k}})
Group(host, k) == SubSeq(host, GroupStart(host, k), k - 1)
GroupsOf(host) ==
  {Group(host, k) : k \in DotsOf(host) \cup {Max(SolidIn(host)) + 1}}

Value(g) ==
  LET Digit(k) == IF k <= Len(g) THEN DigitValue[g[Len(g) + 1 - k]] ELSE 0
  IN Digit(1) + 10 * Digit(2) + 100 * Digit(3)
IsByte(g) == Len(g) <= 3 /\ Range(g) \subseteq Digits /\ Value(g) <= 255

(* Four groups of at most three digits worth at most 255, none empty but   *)
(* possibly the first, and the last if no space follows it; spaces around  *)
(* it do not matter as long as all fits in 15 characters.                  *)
IsFourBytes(host) ==
  /\ Len(host) <= 15
  /\ Cardinality(DotsOf(host)) = 3
  /\ \A g \in GroupsOf(host) : IsByte(g)
  /\ \A k \in DotsOf(host) : k + 1 \notin DotsOf(host)
  /\ LET last == Max(SolidIn(host)) IN host[last] = "." => last = Len(host)

IsBracketed(host) ==
  \E inside \in {SubSeq(host, 2, Len(host) - 1)} :
    inside # <<>> /\ host = <<"[">> \o inside \o <<"]">>

(* Whatever was decoded before, the host is reported as an IPv4 address    *)
(* exactly when it is one; as an IPv6 address when it has brackets around  *)
(* something, else only if its URL has two colons in a row (which the scan *)
(* takes for the sign of one).                                             *)
HasDoubleColon == \E k \in 1 .. Len(url) - 1 : url[k] = ":" /\ url[k + 1] = ":"

AddressesTold ==
  Returned /\ HostSized =>
    /\ url_type = "IPV4" <=> IsFourBytes(Host)
    /\ IsBracketed(Host) => url_type = "IPV6"
    /\ url_type = "IPV6" => IsBracketed(Host) \/ HasDoubleColon

=============================================================================
