------------------------------- MODULE Decode -------------------------------
(***************************************************************************)
(* faup_decode() on one handler, call after call: the scan of FeaturesFind *)
(* finds where the parts of the URL start, then each part gets its size    *)
(* and the host is cut into subdomain, domain and TLD.                     *)
(*                                                                         *)
(* Positions are cleared by every call, sizes are not: a size that a call  *)
(* does not compute is the one an earlier URL left in the handler.         *)
(*                                                                         *)
(* Which suffix of a host is a TLD is left open here (see TldTree): the    *)
(* extraction may return nothing, any suffix that starts a label, or the   *)
(* host without its first character.  Lua modules are not loaded.          *)
(***************************************************************************)
EXTENDS FeaturesFind, HostKind, FunctionUpdate, FiniteSetsExt

CONSTANTS
  Callers,              \* what a caller decodes (urls), whether all with the same
                        \* handler (reuses), and how many characters it has removed
                        \* from their end (chars_to_remove), by name of the caller
  SizeMod               \* sizes are unsigned: computed modulo SizeMod (2^32)

ASSUME CallersAssumption ==
  \A c \in DOMAIN Callers :
    /\ Callers[c].urls \subseteq Urls
    /\ Callers[c].reuses \in BOOLEAN
    /\ Callers[c].chars_to_remove \in Nat
ASSUME SizeModAssumption ==
  SizeMod \in Nat \ {0} /\ \A u \in Urls : Len(u) < SizeMod

VARIABLES
  caller,
  size,                 \* the size of every part, meaningful when its pos is not -1
  in_call               \* faup_decode is running

decodeVars == <<scanVars, caller, size, in_call>>

Returned == decoded /\ ~in_call

-----------------------------------------------------------------------------

(* Characters are removed from the end, unless that would remove them all. *)
Shortened(u) ==
  LET n == Callers[caller].chars_to_remove
  IN IF n >= Len(u) THEN u ELSE SubSeq(u, 1, Len(u) - n)

(* What ends a part: the part that comes next, in the order of a URL, if   *)
(* it was found.                                                           *)
QueryEnd == IF Exist("fragment") THEN pos["fragment"] ELSE Len(url)
PathEnd == IF Exist("query_string") THEN pos["query_string"] ELSE QueryEnd
PortEnd == IF Exist("resource_path") THEN pos["resource_path"] ELSE PathEnd
HostEnd_WithColon == IF Exist("port") THEN pos["port"] ELSE PortEnd   \* Mutant
HostEnd == IF Exist("port") THEN pos["port"] - 1 ELSE PortEnd

(* Mutant: the delimiter that ends a part counts as one of its characters. *)
SizeUpTo_Inclusive(f, end) ==
  IF Exist(f) /\ end > pos[f] THEN end - pos[f] + 1 ELSE size[f]

(* A part that does not end after its start keeps its old size. *)
SizeUpTo(f, end) ==
  IF Exist(f) /\ end > pos[f] THEN end - pos[f] ELSE size[f]

PartSizes ==
  [size EXCEPT
     !["scheme"] = IF Exist("scheme") /\ Exist("hierarchical")
                   THEN pos["hierarchical"] - pos["scheme"] ELSE @,
     !["credential"] = IF Exist("credential")
                       THEN (pos["host"] - pos["credential"] - 1) % SizeMod ELSE @,
     !["host"] = SizeUpTo("host", HostEnd),
     !["port"] = SizeUpTo("port", PortEnd),
     !["resource_path"] = SizeUpTo("resource_path", PathEnd),
     !["query_string"] = SizeUpTo("query_string", QueryEnd),
     !["fragment"] = IF Exist("fragment") THEN Len(url) - pos["fragment"] ELSE @]

-----------------------------------------------------------------------------
(* The host, when this call sized it.  Its parts are records with a        *)
(* <<pos, size>> for every name that was found.                            *)

HostSized == Exist("host") /\ HostEnd > pos["host"]
Host      == SubSeq(url, pos["host"] + 1, HostEnd)
WholeHost == <<pos["host"], Len(Host)>>

(* memrchr(host, '.', n) as an offset in the host, -1 if there is none. *)
LastDot(n) == Max({-1} \cup {k \in 0 .. n - 1 : Host[k + 1] = "."})

(* faup_tld_tree_extract(): offsets in the host where a TLD may start, whatever
   the list.  The TLD that the walk finds before the host when a list has a
   wildcard (see ExtractContract) is not among them.                           *)
TldStarts ==
  {k \in 1 .. Len(Host) - 1 : k = 1 \/ Host[k] = "."}

(* The parts of a host whose TLD starts at offset tld_pos and has tld_len  *)
(* characters.                                                             *)
Names(tld_pos, tld_len) ==
  LET dot == LastDot(Len(Host) - tld_len - 1)
      domain_pos == pos["host"] + dot + 1
      tld == [tld |-> <<pos["host"] + tld_pos, tld_len>>]
      with_domain == With(tld, "domain", <<domain_pos, HostEnd - domain_pos>>)
  IN IF dot < 0 \/ tld_pos <= dot THEN tld
     ELSE IF domain_pos > 1 THEN With(with_domain, "subdomain", <<pos["host"], dot>>)
     ELSE with_domain

(* The last label, without the slash or question mark it may end with. *)
LastLabelNames ==
  LET tld_pos == LastDot(Len(Host)) + 1
      trailing == IF Host[Len(Host)] \in {"/", "?"} THEN 1 ELSE 0
  IN Names(tld_pos, Len(Host) - tld_pos - trailing)

(* Every outcome for the host: what names it has and the type of the URL. *)
HostOutcomes ==
  IF ~HostSized THEN {[names |-> <<>>, url_type |-> url_type]}
  ELSE IF IsIpv6(Host) THEN {[names |-> [domain |-> WholeHost], url_type |-> "IPV6"]}
  ELSE IF IsIpv4(Host) THEN {[names |-> [domain |-> WholeHost], url_type |-> "IPV4"]}
  ELSE IF LastDot(Len(Host)) < 0
       THEN {[names |-> [domain |-> WholeHost], url_type |-> url_type]}
  ELSE IF Host[Len(Host)] = "." THEN {[names |-> <<>>, url_type |-> url_type]}
  ELSE {[names |-> LastLabelNames, url_type |-> "HAS_UNKNOWN_TLD"]}
       \cup {[names |-> Names(k, Len(Host) - k), url_type |-> "HAS_MOZILLA_TLD"] :
               k \in TldStarts}

(* Without domain and subdomain the domain is what the host is, sized or   *)
(* not.                                                                    *)
DomainOrHost(names, sizes) ==
  IF "domain" \in DOMAIN names THEN names["domain"]
  ELSE <<pos["host"], sizes["host"]>>

(* Mutant: the dot before the TLD is kept. *)
WithoutTld_KeepsDot(names, domain) ==
  IF domain[1] < 0 THEN names
  ELSE With(names, "domain_without_tld",
            <<domain[1], IF "tld" \in DOMAIN names
                         THEN (domain[2] - names["tld"][2]) % SizeMod
                         ELSE domain[2]>>)

(* The names with that of the domain without its TLD and the dot before it *)
WithoutTld(names, domain) ==
  IF domain[1] < 0 THEN names
  ELSE With(names, "domain_without_tld",
            <<domain[1], IF "tld" \in DOMAIN names
                         THEN (domain[2] - (names["tld"][2] + 1)) % SizeMod
                         ELSE domain[2]>>)

-----------------------------------------------------------------------------

Start ==
  /\ ~in_call
  /\ decoded => Callers[caller].reuses
  /\ in_call' = TRUE
  /\ \E u \in Callers[caller].urls : Find(Shortened(u))
  /\ UNCHANGED <<caller, size>>

Scan == in_call /\ ReadChar /\ UNCHANGED <<caller, size, in_call>>

(* The URL is read: size the parts, then name those of the host. *)
Finish ==
  /\ in_call /\ ScanDone
  /\ \E o \in HostOutcomes :
       LET domain == DomainOrHost(o.names, PartSizes)
           found == WithoutTld(With(o.names, "domain", domain), domain)
       IN /\ pos'  = [f \in Fields |-> IF f \in DOMAIN found THEN found[f][1] ELSE pos[f]]
          /\ size' = [f \in Fields |-> IF f \in DOMAIN found THEN found[f][2]
                                       ELSE PartSizes[f]]
          /\ url_type' = o.url_type
  /\ in_call' = FALSE
  /\ UNCHANGED <<decoded, url, current_pos, nb_slashes, last_slash_meaning,
                 host_is_ipv6, special_char_after_colons_pos, caller>>

DecodeInit ==
  /\ caller \in DOMAIN Callers
  /\ FeaturesZero
  /\ size = [f \in Fields |-> 0]
  /\ in_call = FALSE

DecodeNext == Start \/ Scan \/ Finish

DecodeSpec == DecodeInit /\ [][DecodeNext]_decodeVars

-----------------------------------------------------------------------------

(* Whatever the URL, every part the first call on a handler reports lies   *)
(* within it: what doc/library.md tells callers to pass to substr is in    *)
(* range.  (Not so for later calls: an empty part keeps the size an earlier *)
(* URL left.)  A credential is left out when the scan dropped its host (a "://" after    *)
(* the '@'): its size then wraps around.                                   *)
Within(f) == Exist(f) => pos[f] + size[f] <= Len(url)

PartsWithinUrl ==
  Returned /\ ~Callers[caller].reuses =>
              \A f \in Fields \ {"hierarchical"} :
                (f = "credential" => Exist("host")) => Within(f)

(* The names a call reports reassemble into the host: the domain without   *)
(* TLD, a dot and the TLD are the domain; the subdomain, a dot and the     *)
(* domain are the host; and the domain without TLD is a single label.  The *)
(* only exception is a host that ends in '/' or '?': the search for its     *)
(* domain skips one character less than the TLD and what follows it.       *)
EndOf(f) == pos[f] + size[f]

NamesReassemble ==
  /\ EndOf("domain_without_tld") + 1 = pos["tld"]
  /\ EndOf("tld") = EndOf("host")
  /\ EndOf("domain") = EndOf("host")
  /\ \A k \in pos["domain_without_tld"] .. EndOf("domain_without_tld") - 1 :
       At(k) # "."
  /\ IF Exist("subdomain")
     THEN pos["subdomain"] = pos["host"] /\ EndOf("subdomain") + 1 = pos["domain"]
     ELSE pos["domain"] = pos["host"] \/ At(pos["domain"] - 1) = "."

HostReassembles ==
  Returned /\ Exist("tld") /\ At(EndOf("host") - 1) \notin {"/", "?"} => NamesReassemble

=============================================================================
