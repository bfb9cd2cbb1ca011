-------------------------------- MODULE MCCli -------------------------------
(***************************************************************************)
(* Command lines of up to MaxWords words, streams of up to MaxChars        *)
(* characters, and modules of every kind.                                  *)
(***************************************************************************)
EXTENDS Cli

CONSTANTS MaxWords, MaxChars

Words == {"-e", "-l", "-p", "-f", "-o", "-m", "-ma", "-s", "host", "json", "a", "b", "n"}

(* Words that end or divert a command line, or that nothing depends on, come first. *)
Heads == {"-a", "-q", "-t", "-d", "-c", "-w", "-h"}

MCCommands ==
  LET lines == UNION {[1 .. n -> Words] : n \in 0 .. MaxWords}
  IN lines \cup {<<h>> \o l : h \in Heads, l \in {c \in lines : Len(c) < MaxWords}}

MCStreams == UNION {[1 .. n -> {"x", "y", LF, CR}] : n \in 0 .. MaxChars}

MCEnabled == <<"b", "a">>
=============================================================================
