--------------------------- MODULE FunctionUpdate ---------------------------
(***************************************************************************)
(* Functions that grow: directories and their files, tables and their      *)
(* counters.                                                               *)
(***************************************************************************)

(* f with the value v for x, whether it had one or not *)
With(f, x, v) == [y \in {x} \cup DOMAIN f |-> IF y = x THEN v ELSE f[y]]

=============================================================================
