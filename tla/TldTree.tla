------------------------------ MODULE TldTree -------------------------------
(***************************************************************************)
(* The list of TLDs and how a host is matched with it: tld.c reads the     *)
(* file, tld-tree.c stores its rules right to left in two tries (regular   *)
(* rules and exceptions) and walks a host from its end, a label at a time, *)
(* for as long as what it has read is in the trie.                         *)
(*                                                                         *)
(* A trie is the set of the strings that lead to its nodes, read forwards: *)
(* all the ends of its rules.  eot holds the nodes a lookup may end at.    *)
(***************************************************************************)
EXTENDS Integers, SequencesExt, FiniteSetsExt

CONSTANTS
  Files,                \* the TLD files: sequences of lines, see ReadLine
  Hosts,                \* the hosts to match
  Befores,              \* what a host may be preceded by
  Afters,               \* what may follow it in its buffer
  Beyond,               \* how much of that is after the end of the URL
  Null                  \* the pointer

ASSUME FilesAssumption == Files \subseteq Seq(Seq(STRING))
ASSUME HostsAssumption == Hosts \cup Befores \cup Afters \subseteq Seq(STRING)
ASSUME BeyondAssumption == Beyond \in Nat
ASSUME NullAssumption == Null \notin Int

VARIABLES
  phase,                \* "read", "add", "ready", "walk", "decide", "done"
  file,                 \* the file that is loaded
  lines_read,
  begin_icann_domains,
  tlds,                 \* _tlds: the rules that were read, then those left to add
  kid, sibling,         \* the tries of regular rules and of exceptions
  before, host, after,
  p,                    \* the offset in the host of the next character to look at
  last, tld_len,        \* the last lookup that succeeded: where (or Null), length
  tld_extracted         \* [pos, size], offsets in the host

hostVars == <<before, host, after>>
walkVars == <<p, last, tld_len>>
treeVars == <<file, lines_read, begin_icann_domains, tlds, kid, sibling>>
tldVars  == <<phase, treeVars, hostVars, walkVars, tld_extracted>>

NotFound == [pos |-> -1, size |-> 0]

-----------------------------------------------------------------------------
(* The tries *)

End(s, n) == SubSeq(s, Len(s) - n + 1, Len(s))

NoTrie == [nodes |-> {}, eot |-> {}]
Exists(trie) == trie.nodes # {}

(* Mutant: only the whole rule ends a lookup. *)
EndsLookup_WholeRule(tld, n) == n = Len(tld)

(* The n last characters of a rule are a TLD of their own when they are    *)
(* the whole rule or what precedes them is a dot or the '!'.               *)
EndsLookup(tld, n) ==
  n > 0 /\ (n = Len(tld) \/ tld[Len(tld) - n] \in {".", "!"})

AddNode(trie, tld) ==
  [nodes |-> trie.nodes \cup {End(tld, n) : n \in 0 .. Len(tld)},
   eot |-> trie.eot \cup {End(tld, n) : n \in {k \in 0 .. Len(tld) : EndsLookup(tld, k)}}]

(* Mutant: a wildcard stands for any number of labels. *)
WildcardCovers_Dots(label) == TRUE

(* What is left of a tld that a wildcard matches.  Neither the first nor   *)
(* the last character of the label is looked at.                           *)
WildcardCovers(label) == \A k \in 2 .. Len(label) - 1 : label[k] # "."

(* The lookup descends, from the end of tld, as far as there are nodes.  A *)
(* wildcard counts only when no other node goes on with the next           *)
(* character, and stands for all the characters that are left.             *)
TldExists(trie, tld) ==
  LET known == Max({n \in 0 .. Len(tld) : End(tld, n) \in trie.nodes})
      left == SubSeq(tld, 1, Len(tld) - known)
  IN /\ Exists(trie)
     /\ IF left = <<>> THEN tld \in trie.eot
        ELSE <<"*">> \o End(tld, known) \in trie.nodes /\ WildcardCovers(left)

-----------------------------------------------------------------------------
(* Loading the list: faup_tld_tree_new() *)

MarkerLine == <<"/", "icann">>

(* fgets() returns a line with its newline, which is cut off; a last line  *)
(* that has none loses a character instead.                                *)
Newline == "\n"

(* A rule is a line after the marker that is neither a comment nor blank. *)
ReadLine ==
  LET line == Front(file[lines_read + 1])
      isRule == line # <<>> /\ line[1] \notin {"/", " ", "\r", Newline}
  IN /\ phase = "read" /\ lines_read < Len(file)
     /\ lines_read' = lines_read + 1
     /\ begin_icann_domains' = (begin_icann_domains \/ line = MarkerLine)
     /\ tlds' = IF isRule /\ begin_icann_domains THEN Append(tlds, line) ELSE tlds
     /\ UNCHANGED <<phase, file, kid, sibling, hostVars, walkVars, tld_extracted>>

ListRead ==
  /\ phase = "read" /\ lines_read = Len(file)
  /\ phase' = "add"
  /\ UNCHANGED <<treeVars, hostVars, walkVars, tld_extracted>>

(* Exceptions start with '!' and have a trie of their own. *)
AddTld ==
  /\ phase = "add" /\ tlds # <<>>
  /\ IF Head(tlds)[1] = "!"
     THEN sibling' = AddNode(sibling, Head(tlds)) /\ UNCHANGED kid
     ELSE kid' = AddNode(kid, Head(tlds)) /\ UNCHANGED sibling
  /\ tlds' = Tail(tlds)
  /\ UNCHANGED <<phase, file, lines_read, begin_icann_domains, hostVars, walkVars, tld_extracted>>

TreeReady ==
  /\ phase = "add" /\ tlds = <<>>
  /\ phase' = "ready"
  /\ UNCHANGED <<treeVars, hostVars, walkVars, tld_extracted>>

-----------------------------------------------------------------------------
(* Matching a host: faup_tld_tree_extract() *)

(* The buffer back to the first NUL before the host. *)
Buffer == before \o host \o after

Char(k) == Buffer[Len(before) + k + 1]
Slice(k, n) == SubSeq(Buffer, Len(before) + k + 1, Len(before) + k + n)

(* decode.c asks for hosts that have a dot and do not end with one. *)
Extract(b, h, a) ==
  /\ phase = "ready"
  /\ Len(a) >= Beyond
  /\ \E k \in 1 .. Len(h) : h[k] = "."
  /\ h[Len(h)] # "."
  /\ before' = b /\ host' = h /\ after' = a
  /\ p' = Len(h) - 1
  /\ phase' = IF Exists(kid) THEN "walk" ELSE "done"
  /\ UNCHANGED <<treeVars, last, tld_len, tld_extracted>>

(* Going left from p, the walk stops at a dot, at the start of the host,   *)
(* or at the start of the buffer.                                          *)
StopsAt(k) == Char(k) = "." \/ (k = 0 /\ p > 0) \/ k = -Len(before)

LabelStart == Max({k \in -Len(before) .. p : StopsAt(k)})

(* The characters looked up: all those after a dot, all but the last one   *)
(* where there is no dot to skip.                                          *)
TriedFrom == IF Char(LabelStart) = "." THEN LabelStart + 1 ELSE LabelStart
TriedLen == Len(host) - LabelStart - 1

(* Mutant: the walk does not step over the dot it stopped at. *)
TryLabel_StaysOnDot ==
  /\ phase = "walk" /\ p # 0 /\ p >= -Len(before)
  /\ IF TldExists(kid, Slice(TriedFrom, TriedLen))
     THEN /\ last' = TriedFrom
          /\ tld_len' = TriedLen
          /\ p' = LabelStart
          /\ UNCHANGED phase
     ELSE phase' = "decide" /\ UNCHANGED walkVars
  /\ UNCHANGED <<treeVars, hostVars, tld_extracted>>

(* The counter of the loop is p, unsigned: it ends the loop at 0 only.     *)
TryLabel ==
  /\ phase = "walk" /\ p # 0 /\ p >= -Len(before)
  /\ IF TldExists(kid, Slice(TriedFrom, TriedLen))
     THEN /\ last' = TriedFrom
          /\ tld_len' = TriedLen
          /\ p' = LabelStart - 1
          /\ UNCHANGED phase
     ELSE phase' = "decide" /\ UNCHANGED walkVars
  /\ UNCHANGED <<treeVars, hostVars, tld_extracted>>

HostWalked ==
  /\ phase = "walk" /\ p = 0
  /\ phase' = "decide"
  /\ UNCHANGED <<treeVars, hostVars, walkVars, tld_extracted>>

(* The walk has left the buffer.  What it reads there is not defined: a    *)
(* wildcard may match it or not (Bound: once more).                        *)
BufferWalked ==
  /\ phase = "walk" /\ p < -Len(before)
  /\ phase' = "decide"
  /\ \/ last' = p /\ tld_len' = Len(host) - p - 1
     \/ UNCHANGED <<last, tld_len>>
  /\ UNCHANGED <<treeVars, hostVars, p, tld_extracted>>

(* Is the TLD an exception?  It is looked up with as many characters after *)
(* the host as the buffer has after the URL.  (No exception is so long    *)
(* that it starts before the buffer.)                                      *)
IsException ==
  last >= -Len(before) /\ TldExists(sibling, Slice(last, Len(host) - last + Beyond))

(* Mutant: the label of an exception is dropped, its dot is kept. *)
Extracted_KeepsDot ==
  LET dots == {k \in 0 .. tld_len - 1 : Char(last + k) = "."}
      len == IF IsException /\ dots # {} THEN tld_len - Min(dots) ELSE tld_len
  IN [pos |-> Len(host) - len, size |-> len]

(* An exception loses its first label. *)
Extracted ==
  LET dots == {k \in 0 .. tld_len - 1 : Char(last + k) = "."}
      len == IF IsException /\ dots # {} THEN tld_len - Min(dots) - 1 ELSE tld_len
  IN [pos |-> Len(host) - len, size |-> len]

Decide ==
  /\ phase = "decide"
  /\ tld_extracted' = IF last = Null THEN NotFound ELSE Extracted
  /\ phase' = "done"
  /\ UNCHANGED <<treeVars, hostVars, walkVars>>

(* The call is over and leaves nothing behind. *)
Return ==
  /\ phase = "done"
  /\ phase' = "ready"
  /\ before' = <<>> /\ host' = <<>> /\ after' = <<>>
  /\ p' = 0 /\ last' = Null /\ tld_len' = 0
  /\ tld_extracted' = NotFound
  /\ UNCHANGED treeVars

-----------------------------------------------------------------------------

TldInit ==
  /\ phase = "read"
  /\ file \in Files
  /\ lines_read = 0
  /\ begin_icann_domains = FALSE
  /\ tlds = <<>>
  /\ kid = NoTrie /\ sibling = NoTrie
  /\ before = <<>> /\ host = <<>> /\ after = <<>>
  /\ p = 0 /\ last = Null /\ tld_len = 0
  /\ tld_extracted = NotFound

Load == ReadLine \/ ListRead \/ AddTld \/ TreeReady

Match == TryLabel \/ HostWalked \/ BufferWalked \/ Decide

TldNext ==
  \/ Load
  \/ \E b \in Befores, h \in Hosts, a \in Afters : Extract(b, h, a)
  \/ Match
  \/ Return

(* Loading and matching are plain loops: they go on until they end. *)
TldSpec == TldInit /\ [][TldNext]_tldVars /\ WF_tldVars(Load) /\ WF_tldVars(Match)

=============================================================================
