--------------------------- MODULE MCFeaturesFind ---------------------------
(***************************************************************************)
(* Model checking of the scanner, alone and against RFC 3986.              *)
(***************************************************************************)
EXTENDS ScanAgreement, UrlSets

=============================================================================
