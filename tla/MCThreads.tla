----------------------------- MODULE MCThreads ------------------------------
(***************************************************************************)
(* Threads, on three threads with a handler each, the last one with        *)
(* options of its own.                                                     *)
(***************************************************************************)
EXTENDS Threads

CONSTANTS t1, t2, t3, h1, h2, h3

Three == {t1, t2, t3}
OneEach == [t \in Three |-> CASE t = t1 -> h1 [] t = t2 -> h2 [] t = t3 -> h3]

=============================================================================
