------------------------------ MODULE MCDecode ------------------------------
(***************************************************************************)
(* Model checking of faup_decode: a caller that takes a new handler for    *)
(* every URL, and one that decodes all of its URLs with the same.          *)
(***************************************************************************)
EXTENDS DecodeAgreement, UrlSets

DecodedUrls == FreshUrls \cup MixedUrls

MCCallers ==
  [once  |-> [urls |-> FreshUrls, reuses |-> FALSE, chars_to_remove |-> 0],
   again |-> [urls |-> MixedUrls, reuses |-> TRUE, chars_to_remove |-> 1]]

=============================================================================
