--------------------------- MODULE ScanAgreement ----------------------------
(***************************************************************************)
(* Where the scanner and RFC 3986 have the parts of a URL: FeaturesFind    *)
(* against Rfc3986.                                                        *)
(***************************************************************************)
EXTENDS FeaturesFind, Rfc3986

FoundAsInRfc(fields) ==
  LET parts == Parts(url) IN \A f \in fields : pos[f] = parts[f][1]

(* On every URL it has a chance with, the scanner -- one pass, no          *)
(* backtracking, several reinterpretations of what it saw -- ends with     *)
(* every part exactly where the RFC's grammar has it.                      *)
RfcAgreement ==
  decoded /\ ScanDone /\ Regular(url) => FoundAsInRfc(DOMAIN Parts(url))

=============================================================================
