---------------------------- MODULE DecodeProofs ----------------------------
(***************************************************************************)
(* What the scanner guarantees for every set of URLs of every length; and, *)
(* for every caller and every choice of the TLD as well, that the parts of *)
(* a URL lie within it and the names of its host fit together.  Then what  *)
(* both make of a well-formed URL: what RFC 3986 says it consists of.  At  *)
(* last that a host is said to be an address exactly when it is one.       *)
(***************************************************************************)
EXTENDS DecodeAgreement, FiniteSetTheorems, SequenceTheorems, WellFoundedInduction, TLAPS

-----------------------------------------------------------------------------
(* The scanner *)

(* A position that was moved within bounds leaves all of them in bounds. *)
LEMMA PosUpdate ==
  ASSUME NEW n \in Nat, NEW p \in [Fields -> -1 .. n], NEW f, NEW v \in -1 .. n
  PROVE  [p EXCEPT ![f] = v] \in [Fields -> -1 .. n]
  OBVIOUS

(* What every step that reads a character does to the cursor. *)
LEMMA ReadStep ==
  ASSUME TypeOK, NEW c, Read(c)
  PROVE  /\ current_pos \in Nat /\ current_pos' \in Nat
         /\ current_pos' = current_pos + 1
         /\ -1 \in -1 .. current_pos' /\ 0 \in -1 .. current_pos'
         /\ current_pos \in -1 .. current_pos'
         /\ current_pos - 1 \in -1 .. current_pos'
         /\ current_pos' \in -1 .. current_pos'
         /\ Len(url) \in Nat /\ current_pos' \in 0 .. Len(url)
         /\ decoded' = decoded /\ url' = url /\ url' \in Seq(Chars)
         /\ At(current_pos) = c
         /\ nb_slashes' \in 0 .. current_pos' /\ nb_slashes' >= nb_slashes
         /\ c = "/" => nb_slashes' >= 1
         /\ pos \in [Fields -> -1 .. current_pos']
         /\ special_char_after_colons_pos \in -1 .. current_pos'
  <1>1. Len(url) \in Nat
    BY DEF TypeOK
  <1> QED
    BY <1>1 DEF TypeOK, Read

(* So a step that reads a character keeps the types if it keeps the type   *)
(* of what the cursor does not determine.                                  *)
LEMMA ReadKeepsTypes ==
  ASSUME TypeOK, NEW c, Read(c),
         last_slash_meaning' \in {"NOTFOUND", "HIERARCHICAL", "AFTER_DOMAIN"},
         host_is_ipv6' \in BOOLEAN,
         special_char_after_colons_pos' \in -1 .. current_pos',
         pos' \in [Fields -> -1 .. current_pos'],
         url_type' \in UrlTypes
  PROVE  TypeOK'
  BY ReadStep DEF TypeOK

(* One step per action: no step leaves the types.                          *)
LEMMA TypeStep == ASSUME TypeOK, [Next]_scanVars PROVE TypeOK'
<1>1. CASE ~decoded /\ \E u \in Urls : Find(u)
  <2>1. PICK u \in Urls : Find(u)
    BY <1>1
  <2>2. url' \in Seq(Chars) /\ Len(url') \in Nat
    BY <2>1, UrlsAssumption DEF Find
  <2>3. pos' \in [Fields -> -1 .. current_pos']
    BY <2>1 DEF Find
  <2>4. current_pos' \in 0 .. Len(url') /\ nb_slashes' \in 0 .. current_pos'
    BY <2>1, <2>2 DEF Find
  <2>5. special_char_after_colons_pos' \in -1 .. current_pos'
    BY <2>1 DEF Find
  <2> QED
    BY <2>1, <2>2, <2>3, <2>4, <2>5 DEF TypeOK, Find, UrlTypes
<1>2. CASE SkipBracketed
  <2>1. PICK c \in Chars : Read(c)
    BY <1>2 DEF SkipBracketed
  <2> QED
    BY <1>2, <2>1, ReadStep, ReadKeepsTypes DEF SkipBracketed, TypeOK
<1>3. CASE ReadEscapedSlash
  <2>1. Read("/")
    BY <1>3 DEF ReadEscapedSlash, Switch
  <2> QED
    BY <1>3, <2>1, ReadStep, ReadKeepsTypes DEF ReadEscapedSlash, TypeOK
<1>4. CASE ReadOpeningSlash
  <2>1. Read("/")
    BY <1>4 DEF ReadOpeningSlash, Switch
  <2>2. pos' \in [Fields -> -1 .. current_pos']
    BY <1>4, <2>1, ReadStep, PosUpdate DEF ReadOpeningSlash
  <2> QED
    BY <1>4, <2>1, <2>2, ReadStep, ReadKeepsTypes DEF ReadOpeningSlash, TypeOK, UrlTypes
<1>5. CASE ReadSlash
  <2>1. Read("/")
    BY <1>5 DEF ReadSlash, Switch
  <2>2. pos' \in [Fields -> -1 .. current_pos']
    BY <1>5, <2>1, ReadStep, PosUpdate DEF ReadSlash
  <2> QED
    BY <1>5, <2>1, <2>2, ReadStep, ReadKeepsTypes DEF ReadSlash, TypeOK, UrlTypes
<1>6. CASE ReadAt
  <2>1. Read("@")
    BY <1>6 DEF ReadAt, Switch
  <2>2. pos' \in [Fields -> -1 .. current_pos']
    <3>1. pos["host"] \in -1 .. current_pos'
      BY <2>1, ReadStep DEF Fields
    <3> QED
      BY <1>6, <2>1, <3>1, ReadStep, PosUpdate DEF ReadAt
  <2> QED
    BY <1>6, <2>1, <2>2, ReadStep, ReadKeepsTypes DEF ReadAt, TypeOK, UrlTypes
<1>7. CASE ReadColon
  <2>1. Read(":")
    BY <1>7 DEF ReadColon, Switch
  <2>2. pos' \in [Fields -> -1 .. current_pos']
    BY <1>7, <2>1, ReadStep, PosUpdate DEF ReadColon
  <2> QED
    BY <1>7, <2>1, <2>2, ReadStep, ReadKeepsTypes DEF ReadColon, TypeOK, UrlTypes
<1>8. CASE ReadQuestionMark
  <2>1. Read("?")
    BY <1>8 DEF ReadQuestionMark, Switch
  <2>2. pos' \in [Fields -> -1 .. current_pos']
    BY <1>8, <2>1, ReadStep, PosUpdate DEF ReadQuestionMark
  <2> QED
    BY <1>8, <2>1, <2>2, ReadStep, ReadKeepsTypes DEF ReadQuestionMark, TypeOK, UrlTypes
<1>9. CASE ReadHash
  <2>1. Read("#")
    BY <1>9 DEF ReadHash, Switch
  <2>2. pos' \in [Fields -> -1 .. current_pos']
    BY <1>9, <2>1, ReadStep, PosUpdate DEF ReadHash
  <2> QED
    BY <1>9, <2>1, <2>2, ReadStep, ReadKeepsTypes DEF ReadHash, TypeOK, UrlTypes
<1>10. CASE ReadOpenBracket
  <2>1. Read("[")
    BY <1>10 DEF ReadOpenBracket, Switch
  <2>2. pos' \in [Fields -> -1 .. current_pos']
    BY <1>10, <2>1, ReadStep, PosUpdate DEF ReadOpenBracket
  <2> QED
    BY <1>10, <2>1, <2>2, ReadStep, ReadKeepsTypes DEF ReadOpenBracket, TypeOK, UrlTypes
<1>11. CASE ReadCloseBracket
  <2>1. Read("]")
    BY <1>11 DEF ReadCloseBracket, Switch
  <2> QED
    BY <1>11, <2>1, ReadStep, ReadKeepsTypes DEF ReadCloseBracket, TypeOK
<1>12. CASE ReadOther
  <2>1. PICK c \in Others : Read(c)
    BY <1>12 DEF ReadOther, Switch
  <2>2. pos' \in [Fields -> -1 .. current_pos']
    BY <1>12, <2>1, ReadStep, PosUpdate DEF ReadOther
  <2> QED
    BY <1>12, <2>1, <2>2, ReadStep, ReadKeepsTypes DEF ReadOther, TypeOK, UrlTypes
<1>13. CASE UNCHANGED scanVars
  BY <1>13 DEF scanVars, TypeOK
<1> QED
  BY <1>1, <1>2, <1>3, <1>4, <1>5, <1>6, <1>7, <1>8, <1>9, <1>10, <1>11,
     <1>12, <1>13 DEF Next, ReadChar

(* Every position stays within the URL, whatever the URL.                  *)
THEOREM TypeCorrect == Spec => []TypeOK
<1>1. Init => TypeOK
  <2> SUFFICES ASSUME Init PROVE TypeOK
    OBVIOUS
  <2>1. url \in Seq(Chars) /\ Len(url) = 0
    BY DEF Init, FeaturesZero
  <2>2. pos \in [Fields -> -1 .. current_pos]
    BY DEF Init, FeaturesZero
  <2> QED
    <3>1. current_pos \in 0 .. Len(url) /\ nb_slashes \in 0 .. current_pos
      BY <2>1 DEF Init, FeaturesZero
    <3>2. special_char_after_colons_pos \in -1 .. current_pos
      BY DEF Init, FeaturesZero
    <3> QED
      BY <2>1, <2>2, <3>1, <3>2 DEF Init, FeaturesZero, TypeOK, UrlTypes
<1>2. TypeOK /\ [Next]_scanVars => TypeOK'
  BY TypeStep
<1> QED
  BY <1>1, <1>2, PTL DEF Spec

(* The positions as plain integers. *)
PosInts ==
  /\ pos \in [Fields -> Int]
  /\ pos["scheme"] \in Int /\ pos["hierarchical"] \in Int
  /\ pos["credential"] \in Int /\ pos["port"] \in Int
  /\ pos["host"] \in Int /\ pos["host"] <= current_pos
  /\ pos["resource_path"] \in Int /\ pos["query_string"] \in Int
  /\ pos["fragment"] \in Int

LEMMA PosTypes == ASSUME TypeOK PROVE PosInts
<1>1. \A f \in Fields : pos[f] \in Int /\ pos[f] <= current_pos
  BY DEF TypeOK
<1> QED
  BY <1>1 DEF TypeOK, Fields, PosInts

(* What reading c does to the cursor, without what only the types need. *)
CursorMoves(c) ==
  /\ decoded' = decoded /\ url' = url /\ At(current_pos) = c
  /\ current_pos \in Nat /\ current_pos' = current_pos + 1
  /\ current_pos - 1 + 1 = current_pos /\ current_pos + 1 - 1 = current_pos
  /\ nb_slashes \in Nat /\ nb_slashes' \in Nat /\ nb_slashes' >= nb_slashes
  /\ c = "/" => nb_slashes' > 0

LEMMA CursorStep == ASSUME TypeOK, NEW c, Read(c) PROVE CursorMoves(c)
  BY ReadStep DEF TypeOK, CursorMoves

-----------------------------------------------------------------------------

(* No action moves a position away from its delimiter.                      *)
LEMMA DelimitersStep ==
  ASSUME TypeOK, PartsAtDelimiters, [Next]_scanVars
  PROVE  PartsAtDelimiters'
<1> USE DEF Exist, At, Fields
<1>1. CASE ~decoded /\ \E u \in Urls : Find(u)
  BY <1>1 DEF Find, PartsAtDelimiters
<1>2. CASE SkipBracketed
  <2>1. PICK c \in Chars : CursorMoves(c)
    BY <1>2, CursorStep DEF SkipBracketed, Switch, Chars
  <2> QED
    BY <1>2, <2>1, PosTypes DEF SkipBracketed, PartsAtDelimiters, PosInts, CursorMoves
<1>3. CASE ReadEscapedSlash
  <2>1. CursorMoves("/")
    BY <1>3, CursorStep DEF ReadEscapedSlash, Switch
  <2> QED
    BY <1>3, <2>1, PosTypes DEF ReadEscapedSlash, PartsAtDelimiters, PosInts, CursorMoves
<1>4. CASE ReadOpeningSlash
  <2>1. CursorMoves("/")
    BY <1>4, CursorStep DEF ReadOpeningSlash, Switch
  <2> QED
    BY <1>4, <2>1, PosTypes DEF ReadOpeningSlash, PartsAtDelimiters, PosInts, CursorMoves, OpeningSlash
<1>5. CASE ReadSlash
  <2>1. CursorMoves("/")
    BY <1>5, CursorStep DEF ReadSlash, Switch
  <2> QED
    BY <1>5, <2>1, PosTypes DEF ReadSlash, PartsAtDelimiters, PosInts, CursorMoves
<1>6. CASE ReadAt
  <2>1. CursorMoves("@")
    BY <1>6, CursorStep DEF ReadAt, Switch
  <2> QED
    BY <1>6, <2>1, PosTypes DEF ReadAt, PartsAtDelimiters, PosInts, CursorMoves
<1>7. CASE ReadColon
  <2>1. CursorMoves(":")
    BY <1>7, CursorStep DEF ReadColon, Switch
  <2> QED
    BY <1>7, <2>1, PosTypes DEF ReadColon, IsAlnum, PartsAtDelimiters, PosInts, CursorMoves
<1>8. CASE ReadQuestionMark
  <2>1. CursorMoves("?")
    BY <1>8, CursorStep DEF ReadQuestionMark, Switch
  <2> QED
    BY <1>8, <2>1, PosTypes DEF ReadQuestionMark, PartsAtDelimiters, PosInts, CursorMoves
<1>9. CASE ReadHash
  <2>1. CursorMoves("#")
    BY <1>9, CursorStep DEF ReadHash, Switch
  <2> QED
    BY <1>9, <2>1, PosTypes DEF ReadHash, PartsAtDelimiters, PosInts, CursorMoves
<1>10. CASE ReadOpenBracket
  <2>1. CursorMoves("[")
    BY <1>10, CursorStep DEF ReadOpenBracket, Switch
  <2> QED
    BY <1>10, <2>1, PosTypes DEF ReadOpenBracket, PartsAtDelimiters, PosInts, CursorMoves
<1>11. CASE ReadCloseBracket
  <2>1. CursorMoves("]")
    BY <1>11, CursorStep DEF ReadCloseBracket, Switch
  <2> QED
    BY <1>11, <2>1, PosTypes DEF ReadCloseBracket, PartsAtDelimiters, PosInts, CursorMoves
<1>12. CASE ReadOther
  <2>1. PICK c \in Chars : CursorMoves(c)
    BY <1>12, CursorStep DEF ReadOther, Switch, Chars
  <2> QED
    BY <1>12, <2>1, PosTypes DEF ReadOther, PartsAtDelimiters, PosInts, CursorMoves
<1>13. CASE UNCHANGED scanVars
  BY <1>13 DEF scanVars, PartsAtDelimiters
<1> QED
  BY <1>1, <1>2, <1>3, <1>4, <1>5, <1>6, <1>7, <1>8, <1>9, <1>10, <1>11, <1>12, <1>13 DEF Next, ReadChar

(* Every part starts at the delimiter that announces it, for every URL.    *)
THEOREM DelimitersCorrect == Spec => []PartsAtDelimiters
<1>1. Init => PartsAtDelimiters
  BY DEF Init, FeaturesZero, PartsAtDelimiters
<1>2. TypeOK /\ PartsAtDelimiters /\ [Next]_scanVars => PartsAtDelimiters'
  BY DelimitersStep
<1> QED
  BY <1>1, <1>2, TypeCorrect, PTL DEF Spec

(* No action puts the parts out of order.                                  *)
LEMMA OrderStep ==
  ASSUME TypeOK, PartsInOrder, [Next]_scanVars
  PROVE  PartsInOrder'
<1> USE DEF Exist, At, Fields
<1>1. CASE ~decoded /\ \E u \in Urls : Find(u)
  BY <1>1 DEF Find, PartsInOrder
<1>2. CASE SkipBracketed
  <2>1. PICK c \in Chars : CursorMoves(c)
    BY <1>2, CursorStep DEF SkipBracketed, Switch, Chars
  <2> QED
    BY <1>2, <2>1, PosTypes DEF SkipBracketed, PartsInOrder, PosInts, CursorMoves
<1>3. CASE ReadEscapedSlash
  <2>1. CursorMoves("/")
    BY <1>3, CursorStep DEF ReadEscapedSlash, Switch
  <2> QED
    BY <1>3, <2>1, PosTypes DEF ReadEscapedSlash, PartsInOrder, PosInts, CursorMoves
<1>4. CASE ReadOpeningSlash
  <2>1. CursorMoves("/")
    BY <1>4, CursorStep DEF ReadOpeningSlash, Switch
  <2>2. CharAt(url, current_pos - 2) \in Letters => current_pos - 1 > 0
    BY <2>1 DEF CharAt, Letters, CursorMoves
  <2> QED
    BY <1>4, <2>1, <2>2, PosTypes
    DEF ReadOpeningSlash, PartsInOrder, PosInts, CursorMoves
<1>5. CASE ReadSlash
  <2>1. CursorMoves("/")
    BY <1>5, CursorStep DEF ReadSlash, Switch
  <2> QED
    BY <1>5, <2>1, PosTypes DEF ReadSlash, PartsInOrder, PosInts, CursorMoves
<1>6. CASE ReadAt
  <2>1. CursorMoves("@")
    BY <1>6, CursorStep DEF ReadAt, Switch
  <2> QED
    BY <1>6, <2>1, PosTypes DEF ReadAt, PartsInOrder, PosInts, CursorMoves
<1>7. CASE ReadColon
  <2>1. CursorMoves(":")
    BY <1>7, CursorStep DEF ReadColon, Switch
  <2> QED
    BY <1>7, <2>1, PosTypes DEF ReadColon, PartsInOrder, PosInts, CursorMoves
<1>8. CASE ReadQuestionMark
  <2>1. CursorMoves("?")
    BY <1>8, CursorStep DEF ReadQuestionMark, Switch
  <2> QED
    BY <1>8, <2>1, PosTypes DEF ReadQuestionMark, PartsInOrder, PosInts, CursorMoves
<1>9. CASE ReadHash
  <2>1. CursorMoves("#")
    BY <1>9, CursorStep DEF ReadHash, Switch
  <2> QED
    BY <1>9, <2>1, PosTypes DEF ReadHash, PartsInOrder, PosInts, CursorMoves
<1>10. CASE ReadOpenBracket
  <2>1. CursorMoves("[")
    BY <1>10, CursorStep DEF ReadOpenBracket, Switch
  <2> QED
    BY <1>10, <2>1, PosTypes DEF ReadOpenBracket, PartsInOrder, PosInts, CursorMoves
<1>11. CASE ReadCloseBracket
  <2>1. CursorMoves("]")
    BY <1>11, CursorStep DEF ReadCloseBracket, Switch
  <2> QED
    BY <1>11, <2>1, PosTypes DEF ReadCloseBracket, PartsInOrder, PosInts, CursorMoves
<1>12. CASE ReadOther
  <2>1. PICK c \in Chars : CursorMoves(c)
    BY <1>12, CursorStep DEF ReadOther, Switch, Chars
  <2> QED
    BY <1>12, <2>1, PosTypes DEF ReadOther, PartsInOrder, PosInts, CursorMoves
<1>13. CASE UNCHANGED scanVars
  BY <1>13 DEF scanVars, PartsInOrder
<1> QED
  BY <1>1, <1>2, <1>3, <1>4, <1>5, <1>6, <1>7, <1>8, <1>9, <1>10, <1>11, <1>12, <1>13 DEF Next, ReadChar

(* The subtractions that size scheme, credential and host never underflow   *)
(* for want of order, for every URL.                                       *)
THEOREM OrderCorrect == Spec => []PartsInOrder
<1>1. Init => PartsInOrder
  BY DEF Init, FeaturesZero, PartsInOrder
<1>2. TypeOK /\ PartsInOrder /\ [Next]_scanVars => PartsInOrder'
  BY OrderStep
<1> QED
  BY <1>1, <1>2, TypeCorrect, PTL DEF Spec

-----------------------------------------------------------------------------

(* No action of the scanner reopens a domain that is over.                 *)
LEMMA AuthorityStep ==
  ASSUME TypeOK, [Next]_scanVars
  PROVE  [StepKeepsAuthority]_scanVars
<1> SUFFICES ASSUME decoded /\ last_slash_meaning = "AFTER_DOMAIN", Next PROVE StepKeepsAuthority
  BY DEF StepKeepsAuthority
<1> USE DEF StepKeepsAuthority, Exist, Fields
<1>1. CASE ~decoded /\ \E u \in Urls : Find(u)
  BY <1>1
<1>2. CASE SkipBracketed
  BY <1>2, PosTypes DEF SkipBracketed, PosInts, BeforeDomainEnds
<1>3. CASE ReadEscapedSlash
  BY <1>3, PosTypes DEF ReadEscapedSlash, PosInts, BeforeDomainEnds
<1>4. CASE ReadOpeningSlash
  BY <1>4, PosTypes DEF ReadOpeningSlash, PosInts, BeforeDomainEnds
<1>5. CASE ReadSlash
  BY <1>5, PosTypes DEF ReadSlash, PosInts, BeforeDomainEnds
<1>6. CASE ReadAt
  BY <1>6, PosTypes DEF ReadAt, PosInts, BeforeDomainEnds
<1>7. CASE ReadColon
  BY <1>7, PosTypes DEF ReadColon, PosInts, BeforeDomainEnds
<1>8. CASE ReadQuestionMark
  BY <1>8, PosTypes DEF ReadQuestionMark, PosInts, BeforeDomainEnds
<1>9. CASE ReadHash
  BY <1>9, PosTypes DEF ReadHash, PosInts, BeforeDomainEnds
<1>10. CASE ReadOpenBracket
  BY <1>10, PosTypes DEF ReadOpenBracket, PosInts, BeforeDomainEnds
<1>11. CASE ReadCloseBracket
  BY <1>11, PosTypes DEF ReadCloseBracket, PosInts, BeforeDomainEnds
<1>12. CASE ReadOther
  BY <1>12, PosTypes DEF ReadOther, PosInts, BeforeDomainEnds
<1> QED
  BY <1>1, <1>2, <1>3, <1>4, <1>5, <1>6, <1>7, <1>8, <1>9, <1>10, <1>11, <1>12 DEF Next, ReadChar

(* Once the domain is over the scanner never revises its authority.        *)
THEOREM AuthorityFrozenCorrect == Spec => AuthorityFrozen
<1>1. TypeOK /\ [Next]_scanVars => [StepKeepsAuthority]_scanVars
  BY AuthorityStep
<1> QED
  BY <1>1, TypeCorrect, PTL DEF Spec, AuthorityFrozen

(* No action moves a path, query or fragment that was found.               *)
LEMMA FirstDelimiterStep ==
  ASSUME TypeOK, [Next]_scanVars
  PROVE  [StepKeepsFound]_scanVars
<1> SUFFICES ASSUME decoded, Next PROVE StepKeepsFound
  BY DEF StepKeepsFound
<1> USE DEF StepKeepsFound, Exist, Fields
<1>1. CASE ~decoded /\ \E u \in Urls : Find(u)
  BY <1>1
<1>2. CASE SkipBracketed
  BY <1>2, PosTypes DEF SkipBracketed, PosInts
<1>3. CASE ReadEscapedSlash
  BY <1>3, PosTypes DEF ReadEscapedSlash, PosInts
<1>4. CASE ReadOpeningSlash
  BY <1>4, PosTypes DEF ReadOpeningSlash, PosInts
<1>5. CASE ReadSlash
  BY <1>5, PosTypes DEF ReadSlash, PosInts
<1>6. CASE ReadAt
  BY <1>6, PosTypes DEF ReadAt, PosInts
<1>7. CASE ReadColon
  BY <1>7, PosTypes DEF ReadColon, PosInts
<1>8. CASE ReadQuestionMark
  BY <1>8, PosTypes DEF ReadQuestionMark, PosInts
<1>9. CASE ReadHash
  BY <1>9, PosTypes DEF ReadHash, PosInts
<1>10. CASE ReadOpenBracket
  BY <1>10, PosTypes DEF ReadOpenBracket, PosInts
<1>11. CASE ReadCloseBracket
  BY <1>11, PosTypes DEF ReadCloseBracket, PosInts
<1>12. CASE ReadOther
  BY <1>12, PosTypes DEF ReadOther, PosInts
<1> QED
  BY <1>1, <1>2, <1>3, <1>4, <1>5, <1>6, <1>7, <1>8, <1>9, <1>10, <1>11, <1>12 DEF Next, ReadChar

(* The path, query and fragment stay where they were first found.          *)
THEOREM FirstDelimiterCorrect == Spec => FirstDelimiterWins
<1>1. TypeOK /\ [Next]_scanVars => [StepKeepsFound]_scanVars
  BY FirstDelimiterStep
<1> QED
  BY <1>1, TypeCorrect, PTL DEF Spec, FirstDelimiterWins

-----------------------------------------------------------------------------
(* The decoder *)

HostNames == {"subdomain", "domain", "domain_without_tld", "tld"}

(***************************************************************************)
(* While a call runs the scan has its own invariants, and no name of the   *)
(* host is there: they are found by Finish, and only by Finish.            *)
(***************************************************************************)
Scanning ==
  /\ TypeOK /\ PartsInOrder /\ decoded
  /\ \A f \in HostNames : pos[f] = -1
  /\ Len(url) < SizeMod

SizesTyped == size \in [Fields -> 0 .. SizeMod - 1]

(* Sizes of before are zero in the first call, the only one without reuse. *)
SizesFresh ==
  (in_call \/ ~decoded) /\ ~Callers[caller].reuses => \A f \in Fields : size[f] = 0

DecodeOK ==
  /\ caller \in DOMAIN Callers /\ in_call \in BOOLEAN /\ (~decoded => ~in_call)
  /\ in_call => Scanning
  /\ SizesTyped /\ SizesFresh
  /\ PartsWithinUrl /\ HostReassembles

(***************************************************************************)
(* Where a part ends: within the URL.                                      *)
(***************************************************************************)
LEMMA ScannedTypes ==
  ASSUME Scanning, ScanDone
  PROVE  /\ Len(url) \in Nat /\ Len(url) < SizeMod /\ SizeMod \in Nat
         /\ \A f \in Fields : pos[f] \in -1 .. Len(url)
BY SizeModAssumption DEF Scanning, ScanDone, TypeOK

LEMMA PartEnds ==
  ASSUME Scanning, ScanDone
  PROVE  /\ QueryEnd \in 0 .. Len(url) /\ PathEnd \in 0 .. Len(url) /\ PortEnd \in 0 .. Len(url)
         /\ HostEnd \in -1 .. Len(url)
<1>0. /\ Len(url) \in Nat /\ pos["fragment"] \in -1 .. Len(url) /\ pos["query_string"] \in -1 .. Len(url)
      /\ pos["resource_path"] \in -1 .. Len(url) /\ pos["port"] \in -1 .. Len(url)
  BY ScannedTypes DEF Fields
<1>1. QueryEnd \in 0 .. Len(url) BY <1>0 DEF QueryEnd, Exist
<1>2. PathEnd \in 0 .. Len(url) BY <1>0, <1>1 DEF PathEnd, Exist
<1>3. PortEnd \in 0 .. Len(url) BY <1>0, <1>2 DEF PortEnd, Exist
<1>4. HostEnd \in -1 .. Len(url)
  <2>1. CASE Exist("port") BY <1>0, <2>1 DEF HostEnd, Exist
  <2>2. CASE ~Exist("port") BY <1>0, <1>3, <2>2 DEF HostEnd
  <2> QED BY <2>1, <2>2
<1> QED BY <1>1, <1>2, <1>3, <1>4

(* A part ends there, or keeps the size it has.                            *)
LEMMA SizedUpTo ==
  ASSUME Scanning, ScanDone, SizesTyped, NEW f \in Fields, NEW end \in -1 .. Len(url)
  PROVE  /\ SizeUpTo(f, end) \in 0 .. SizeMod - 1
         /\ Exist(f) /\ end > pos[f] => SizeUpTo(f, end) = end - pos[f]
         /\ ~(Exist(f) /\ end > pos[f]) => SizeUpTo(f, end) = size[f]
BY ScannedTypes DEF SizeUpTo, Exist, SizesTyped

LEMMA PartsSized ==
  ASSUME Scanning, ScanDone, SizesTyped
  PROVE  /\ PartSizes \in [Fields -> 0 .. SizeMod - 1]
         /\ HostSized => PartSizes["host"] = HostEnd - pos["host"]
         /\ (\A f \in Fields : size[f] = 0) =>
              \A f \in Fields \ {"hierarchical"} :
                Exist(f) /\ (f = "credential" => Exist("host")) => pos[f] + PartSizes[f] <= Len(url)
<1> DEFINE scheme == IF Exist("scheme") /\ Exist("hierarchical")
                     THEN pos["hierarchical"] - pos["scheme"] ELSE size["scheme"]
           credential == IF Exist("credential")
                         THEN (pos["host"] - pos["credential"] - 1) % SizeMod ELSE size["credential"]
           host == SizeUpTo("host", HostEnd)
           port == SizeUpTo("port", PortEnd)
           resource_path == SizeUpTo("resource_path", PathEnd)
           query_string == SizeUpTo("query_string", QueryEnd)
           fragment == IF Exist("fragment") THEN Len(url) - pos["fragment"] ELSE size["fragment"]
<1>0. /\ Len(url) \in Nat /\ SizeMod \in Nat /\ Len(url) < SizeMod
      /\ pos["scheme"] \in -1 .. Len(url) /\ pos["hierarchical"] \in -1 .. Len(url)
      /\ pos["credential"] \in -1 .. Len(url) /\ pos["host"] \in -1 .. Len(url)
      /\ pos["fragment"] \in -1 .. Len(url)
      /\ size["scheme"] \in 0 .. SizeMod - 1 /\ size["credential"] \in 0 .. SizeMod - 1
      /\ size["fragment"] \in 0 .. SizeMod - 1
  BY ScannedTypes DEF SizesTyped, Fields
<1>1. scheme \in 0 .. SizeMod - 1 /\ (size["scheme"] = 0 /\ Exist("scheme") => pos["scheme"] + scheme <= Len(url))
  <2>1. Exist("scheme") => pos["scheme"] = 0 /\ pos["hierarchical"] > 0 BY DEF Scanning, PartsInOrder
  <2>2. PICK p, h, z : p = pos["scheme"] /\ h = pos["hierarchical"] /\ z = size["scheme"] OBVIOUS
  <2>3. scheme = IF p >= 0 /\ h >= 0 THEN h - p ELSE z BY <2>2 DEF Exist
  <2> HIDE DEF scheme
  <2> QED BY <1>0, <2>1, <2>2, <2>3 DEF Exist
<1>2. /\ credential \in 0 .. SizeMod - 1
      /\ Exist("credential") /\ Exist("host") => pos["credential"] + credential <= Len(url)
  <2>1. CASE Exist("credential")
    <3>1. Exist("host") => pos["credential"] < pos["host"] BY <2>1 DEF Scanning, PartsInOrder
    <3>2. PICK n : n = pos["host"] - pos["credential"] - 1 OBVIOUS
    <3>3. n \in Int BY <3>2, ScannedTypes DEF Fields
    <3>4. n % SizeMod \in 0 .. SizeMod - 1 BY <3>3, SizeModAssumption
    <3>5. Exist("host") => n \in 0 .. SizeMod - 1
      <4>1. PICK h, c : h = pos["host"] /\ c = pos["credential"] OBVIOUS
      <4>2. n = h - c - 1 /\ c >= 0 BY <2>1, <3>2, <4>1 DEF Exist
      <4> QED BY SMTT(30), <1>0, <3>1, <4>1, <4>2
    <3>6. Exist("host") => n % SizeMod = n BY <3>5, SizeModAssumption
    <3>7. credential = n % SizeMod BY <2>1, <3>2
    <3>8. Exist("host") => pos["credential"] + credential = pos["host"] - 1
      BY SMTT(30), <1>0, <3>2, <3>6, <3>7
    <3> HIDE DEF credential
    <3>9. credential \in 0 .. SizeMod - 1 BY <3>4, <3>7
    <3> QED BY <1>0, <3>8, <3>9
  <2>2. CASE ~Exist("credential") BY <1>0, <2>2
  <2> QED BY <2>1, <2>2
<1>3. ASSUME NEW f \in Fields, NEW end \in -1 .. Len(url)
      PROVE  size[f] = 0 /\ Exist(f) => pos[f] + SizeUpTo(f, end) <= Len(url)
  BY <1>3, SizedUpTo, ScannedTypes DEF Exist
<1>4. /\ host \in 0 .. SizeMod - 1 /\ port \in 0 .. SizeMod - 1
      /\ resource_path \in 0 .. SizeMod - 1 /\ query_string \in 0 .. SizeMod - 1
      /\ HostSized => host = HostEnd - pos["host"]
  <2>1. \A f \in {"host", "port", "resource_path", "query_string"} : f \in Fields BY DEF Fields
  <2>2. \A f \in Fields, end \in -1 .. Len(url) : SizeUpTo(f, end) \in 0 .. SizeMod - 1 BY SizedUpTo
  <2>3. /\ HostEnd \in -1 .. Len(url) /\ PortEnd \in -1 .. Len(url)
        /\ PathEnd \in -1 .. Len(url) /\ QueryEnd \in -1 .. Len(url)
    BY <1>0, PartEnds
  <2>4. HostSized => host = HostEnd - pos["host"] BY DEF HostSized, SizeUpTo
  <2> QED BY <2>1, <2>2, <2>3, <2>4
<1>5. /\ size["host"] = 0 /\ Exist("host") => pos["host"] + host <= Len(url)
      /\ size["port"] = 0 /\ Exist("port") => pos["port"] + port <= Len(url)
      /\ size["resource_path"] = 0 /\ Exist("resource_path") => pos["resource_path"] + resource_path <= Len(url)
      /\ size["query_string"] = 0 /\ Exist("query_string") => pos["query_string"] + query_string <= Len(url)
  <2>1. \A f \in {"host", "port", "resource_path", "query_string"} : f \in Fields BY DEF Fields
  <2>2. /\ HostEnd \in -1 .. Len(url) /\ PortEnd \in -1 .. Len(url)
        /\ PathEnd \in -1 .. Len(url) /\ QueryEnd \in -1 .. Len(url)
    BY <1>0, PartEnds
  <2> QED BY <1>3, <2>1, <2>2
<1>6. fragment \in 0 .. SizeMod - 1 /\ (Exist("fragment") => pos["fragment"] + fragment <= Len(url))
  <2>1. PICK p, z : p = pos["fragment"] /\ z = size["fragment"] OBVIOUS
  <2>2. fragment = IF p >= 0 THEN Len(url) - p ELSE z BY <2>1 DEF Exist
  <2> HIDE DEF fragment
  <2> QED BY SMTT(30), <1>0, <2>1, <2>2 DEF Exist
<1>7. PartSizes = [f \in Fields |->
                     CASE f = "scheme" -> scheme [] f = "credential" -> credential [] f = "host" -> host
                       [] f = "port" -> port [] f = "resource_path" -> resource_path
                       [] f = "query_string" -> query_string [] f = "fragment" -> fragment
                       [] OTHER -> size[f]]
  <2> HIDE DEF host, port, resource_path, query_string
  <2>1. PartSizes = [size EXCEPT !["scheme"] = scheme, !["credential"] = credential, !["host"] = host,
                       !["port"] = port, !["resource_path"] = resource_path,
                       !["query_string"] = query_string, !["fragment"] = fragment]
    BY DEF PartSizes, host, port, resource_path, query_string, SizesTyped, Fields
  <2> HIDE DEF scheme, credential, fragment
  <2> QED BY <2>1 DEF SizesTyped, Fields
<1> HIDE DEF scheme, credential, host, port, resource_path, query_string, fragment
<1>8. PartSizes \in [Fields -> 0 .. SizeMod - 1]
  BY <1>1, <1>2, <1>4, <1>6, <1>7 DEF Fields, SizesTyped
<1>9. HostSized => PartSizes["host"] = HostEnd - pos["host"] BY <1>4, <1>7 DEF Fields
<1>10. ASSUME \A f \in Fields : size[f] = 0, NEW f \in Fields \ {"hierarchical"}, Exist(f),
              f = "credential" => Exist("host")
       PROVE  pos[f] + PartSizes[f] <= Len(url)
  <2>1. f \in HostNames => ~Exist(f) BY DEF Scanning, Exist
  <2> QED BY <1>1, <1>2, <1>5, <1>6, <1>7, <1>10, <2>1 DEF Fields, HostNames
<1> QED BY <1>8, <1>9, <1>10

(***************************************************************************)
(* The host.                                                               *)
(***************************************************************************)
LEMMA HostIs ==
  ASSUME Scanning, ScanDone, HostSized
  PROVE  /\ pos["host"] \in Nat /\ HostEnd \in Nat /\ HostEnd <= Len(url)
         /\ Len(Host) = HostEnd - pos["host"] /\ Len(Host) \in Nat \ {0}
         /\ Host \in Seq(Chars)
         /\ \A k \in 0 .. Len(Host) - 1 : At(pos["host"] + k) = Host[k + 1]
<1>1. /\ pos["host"] \in Nat /\ HostEnd \in Nat /\ HostEnd <= Len(url) /\ Len(url) \in Nat
      /\ pos["host"] < HostEnd
  BY ScannedTypes, PartEnds DEF HostSized, Exist, Fields
<1>2. \A i \in pos["host"] + 1 .. HostEnd : url[i] \in Chars
  <2>1. url \in Seq(Chars) BY DEF Scanning, TypeOK
  <2> QED BY <1>1, <2>1
<1>3. /\ Host \in Seq(Chars) /\ Len(Host) = HostEnd - pos["host"]
      /\ \A i \in 1 .. HostEnd - pos["host"] : Host[i] = url[pos["host"] + i]
  <2>1. PICK m : m = pos["host"] + 1 OBVIOUS
  <2>2. m \in Int /\ HostEnd \in Int BY <1>1, <2>1
  <2>3. /\ SubSeq(url, m, HostEnd) \in Seq(Chars)
        /\ Len(SubSeq(url, m, HostEnd)) = IF m <= HostEnd THEN HostEnd - m + 1 ELSE 0
        /\ \A i \in 1 .. HostEnd - m + 1 : SubSeq(url, m, HostEnd)[i] = url[m + i - 1]
    BY <1>2, <2>1, <2>2, SubSeqProperties
  <2>4. Host = SubSeq(url, m, HostEnd) BY <2>1 DEF Host
  <2>5. Host \in Seq(Chars) /\ Len(Host) = HostEnd - pos["host"] BY <1>1, <2>1, <2>3, <2>4
  <2>6. ASSUME NEW i \in 1 .. HostEnd - pos["host"] PROVE Host[i] = url[pos["host"] + i]
    <3>1. i \in 1 .. HostEnd - m + 1 /\ m + i - 1 = pos["host"] + i BY <1>1, <2>1, <2>6
    <3> QED BY <2>3, <2>4, <3>1
  <2> QED BY <2>5, <2>6
<1>4. ASSUME NEW k \in 0 .. Len(Host) - 1 PROVE At(pos["host"] + k) = Host[k + 1]
  <2>1. k + 1 \in 1 .. HostEnd - pos["host"] BY <1>1, <1>3
  <2>2. pos["host"] + k \in 0 .. Len(url) - 1 BY <1>1, <1>3
  <2>3. PICK h, i : h = pos["host"] /\ i = k + 1 OBVIOUS
  <2>4. h + k + 1 = h + i
    <3>1. h \in Nat /\ k \in Int /\ i = k + 1 BY <1>1, <1>3, <2>3
    <3> QED BY <3>1
  <2>5. Host[i] = url[h + i] BY <1>3, <2>1, <2>3
  <2>6. At(h + k) = url[h + k + 1] BY <2>2, <2>3 DEF At, CharAt
  <2> QED BY <2>3, <2>4, <2>5, <2>6
<1> QED BY <1>1, <1>3, <1>4

LEMMA HasLargest ==
  ASSUME NEW n \in Nat, NEW S \in SUBSET (-1 .. n), S # {}
  PROVE  Max(S) \in S /\ \A x \in S : Max(S) >= x
<1> DEFINE T == {n - x : x \in S}
<1>1. T \subseteq Nat /\ T # {}
  <2>1. \A x \in S : n - x \in Nat OBVIOUS
  <2>2. \E x : x \in S OBVIOUS
  <2> QED BY <2>1, <2>2
<1>2. PICK m \in T : \A y \in T : ~(<<y, m>> \in OpToRel(<, Nat))
  BY <1>1, NatLessThanWellFounded, WFMin, Zenon
<1>3. ASSUME NEW y \in T PROVE m <= y
  <2> HIDE DEF T
  <2>1. y \in Nat /\ m \in Nat BY <1>1, <1>2
  <2>2. ~(y < m)
    <3>1. <<y, m>> \notin OpToRel(<, Nat) BY <1>2
    <3> QED BY <2>1, <3>1 DEF OpToRel
  <2> QED BY <2>1, <2>2
<1>4. PICK x \in S : m = n - x OBVIOUS
<1>5. ASSUME NEW y \in S PROVE x >= y
  <2>1. m <= n - y BY <1>3
  <2> QED BY <1>4, <2>1
<1>6. \E z \in S : \A y \in S : z >= y BY <1>5
<1> QED BY <1>6, Zenon DEF Max

LEMMA LastDotIs ==
  ASSUME NEW n \in Nat
  PROVE  /\ LastDot(n) \in -1 .. n - 1
         /\ LastDot(n) >= 0 => Host[LastDot(n) + 1] = "."
         /\ \A k \in 0 .. n - 1 : k > LastDot(n) => Host[k + 1] # "."
<1> DEFINE S == {-1} \cup {k \in 0 .. n - 1 : Host[k + 1] = "."}
<1>1. S \in SUBSET (-1 .. n) /\ S # {} OBVIOUS
<1>2. Max(S) \in S /\ \A x \in S : Max(S) >= x BY <1>1, HasLargest
<1>3. PICK d : d = Max(S) OBVIOUS
<1>4. d \in S /\ \A x \in S : d >= x BY <1>2, <1>3
<1>5. LastDot(n) = d BY <1>3 DEF LastDot
<1> QED BY <1>4, <1>5

(* Where the TLD is: at offset k, with n characters, before the trailing t *)
IsTld(k, n) ==
  /\ k \in 1 .. Len(Host) - 1 /\ n \in Nat /\ (k = 1 \/ Host[k] = ".")
  /\ \/ k + n = Len(Host)
     \/ k + n + 1 = Len(Host) /\ Host[Len(Host)] \in {"/", "?"}

LEMMA OutcomeIs ==
  ASSUME Scanning, ScanDone, NEW o \in HostOutcomes
  PROVE  \/ o.names = <<>> /\ "domain" \notin DOMAIN o.names
         \/ HostSized /\ o.names = [domain |-> WholeHost]
         \/ HostSized /\ \E k, n : IsTld(k, n) /\ o.names = Names(k, n)
<1>1. CASE ~HostSized
  <2>1. o.names = <<>> BY <1>1 DEF HostOutcomes
  <2> QED BY <2>1
<1>2. CASE HostSized /\ (IsIpv6(Host) \/ IsIpv4(Host) \/ LastDot(Len(Host)) < 0)
  BY <1>2 DEF HostOutcomes
<1>3. CASE HostSized /\ ~IsIpv6(Host) /\ ~IsIpv4(Host) /\ ~(LastDot(Len(Host)) < 0) /\ Host[Len(Host)] = "."
  <2>1. o.names = <<>> BY <1>3 DEF HostOutcomes
  <2> QED BY <2>1
<1>4. CASE HostSized /\ ~IsIpv6(Host) /\ ~IsIpv4(Host) /\ ~(LastDot(Len(Host)) < 0) /\ Host[Len(Host)] # "."
  <2>1. Len(Host) \in Nat \ {0} BY <1>4, HostIs
  <2>2. \/ o.names = LastLabelNames
        \/ \E k \in TldStarts : o.names = Names(k, Len(Host) - k)
    BY <1>4 DEF HostOutcomes
  <2>3. CASE o.names = LastLabelNames
    <3>1. PICK d, n : d = LastDot(Len(Host)) /\ n = Len(Host) OBVIOUS
    <3>2. d \in 0 .. n - 1 /\ Host[d + 1] = "." BY <1>4, <2>1, <3>1, LastDotIs
    <3>3. d # n - 1 BY <1>4, <3>1, <3>2
    <3>4. PICK t : t = IF Host[n] \in {"/", "?"} THEN 1 ELSE 0 OBVIOUS
    <3>5. t \in {0, 1} /\ d + 1 \in 1 .. n - 1 /\ n - (d + 1) - t \in Nat BY <2>1, <3>1, <3>2, <3>3, <3>4
    <3>6. o.names = Names(d + 1, n - (d + 1) - t) BY <2>3, <3>1, <3>4 DEF LastLabelNames
    <3>7. IsTld(d + 1, n - (d + 1) - t) BY <2>1, <3>1, <3>2, <3>4, <3>5 DEF IsTld
    <3> QED BY <1>4, <3>6, <3>7
  <2>4. CASE \E k \in TldStarts : o.names = Names(k, Len(Host) - k)
    <3>1. PICK k \in TldStarts : o.names = Names(k, Len(Host) - k) BY <2>4
    <3>2. IsTld(k, Len(Host) - k) BY <2>1, <3>1 DEF IsTld, TldStarts
    <3> QED BY <1>4, <3>1, <3>2
  <2> QED BY <2>2, <2>3, <2>4
<1> QED BY <1>1, <1>2, <1>3, <1>4

(***************************************************************************)
(* The names of the host.  With a TLD at offset k of n characters, the     *)
(* domain begins behind the dot d before it, or with the host.             *)
(***************************************************************************)
Dot(d, n) ==
  /\ d \in -1 .. Len(Host) - n - 2
  /\ d >= 0 => Host[d + 1] = "."
  /\ \A j \in 0 .. Len(Host) - n - 2 : j > d => Host[j + 1] # "."

Found(names) ==
  LET domain == DomainOrHost(names, PartSizes)
  IN WithoutTld(With(names, "domain", domain), domain)

HasSubdomain(d) == d >= 0 /\ pos["host"] + d + 1 > 1

FoundWith(found, k, n, d) ==
  /\ DOMAIN found = {"tld", "domain", "domain_without_tld"}
                      \cup (IF HasSubdomain(d) THEN {"subdomain"} ELSE {})
  /\ found["tld"] = <<pos["host"] + k, n>>
  /\ found["domain"] = <<pos["host"] + d + 1, Len(Host) - d - 1>>
  /\ found["domain_without_tld"] = <<pos["host"] + d + 1, Len(Host) - d - 1 - (n + 1)>>
  /\ HasSubdomain(d) => found["subdomain"] = <<pos["host"], d>>

LEMMA NamesAre ==
  ASSUME Scanning, ScanDone, HostSized, NEW k, NEW n, IsTld(k, n)
  PROVE  \E d : /\ Dot(d, n) /\ d < k
                /\ "tld" \in DOMAIN Names(k, n) /\ Names(k, n)["tld"] = <<pos["host"] + k, n>>
                /\ "domain" \in DOMAIN Names(k, n) <=> d >= 0
                /\ d >= 0 => Names(k, n)["domain"] = <<pos["host"] + d + 1, Len(Host) - d - 1>>
                /\ "subdomain" \in DOMAIN Names(k, n) <=> HasSubdomain(d)
                /\ HasSubdomain(d) => Names(k, n)["subdomain"] = <<pos["host"], d>>
                /\ DOMAIN Names(k, n) \subseteq {"tld", "domain", "subdomain"}
<1>1. PICK h, m, e : h = pos["host"] /\ m = Len(Host) /\ e = HostEnd OBVIOUS
<1>2. h \in Nat /\ e \in Nat /\ m \in Nat /\ m = e - h BY <1>1, HostIs
<1>3. k \in 1 .. m - 1 /\ n \in Nat /\ (k + n = m \/ k + n + 1 = m) BY <1>1, <1>2 DEF IsTld
<1>4. PICK d : d = LastDot(m - n - 1) OBVIOUS
<1>5. m - n - 1 \in Nat /\ m - n - 1 <= k BY <1>2, <1>3
<1>6. d \in -1 .. m - n - 1 - 1 /\ (d >= 0 => Host[d + 1] = ".")
      /\ \A j \in 0 .. m - n - 1 - 1 : j > d => Host[j + 1] # "."
  BY <1>4, <1>5, LastDotIs
<1>7. Dot(d, n) BY <1>1, <1>2, <1>3, <1>6 DEF Dot
<1>8. d < k BY <1>2, <1>3, <1>5, <1>6
<1>9. e - (h + d + 1) = m - d - 1 BY <1>2, <1>3, <1>6
<1>10. PICK tld, domain : tld = [tld |-> <<h + k, n>>] /\ domain = <<h + d + 1, m - d - 1>> OBVIOUS
<1>11. PICK whole : whole = With(tld, "domain", domain) OBVIOUS
<1>12. PICK all : all = With(whole, "subdomain", <<h, d>>) OBVIOUS
<1>13. Names(k, n) = IF d < 0 THEN tld ELSE IF h + d + 1 > 1 THEN all ELSE whole
  <2>1. ~(k <= d) BY <1>3, <1>6, <1>8
  <2>2. e - (h + d + 1) = m - d - 1 BY <1>9
  <2>3. d = LastDot(Len(Host) - n - 1) BY <1>1, <1>4
  <2>4. whole = With([tld |-> <<pos["host"] + k, n>>], "domain",
                     <<pos["host"] + d + 1, HostEnd - (pos["host"] + d + 1)>>)
    BY <1>1, <1>10, <1>11, <2>2
  <2>5. all = With(whole, "subdomain", <<pos["host"], d>>) BY <1>1, <1>12
  <2>6. tld = [tld |-> <<pos["host"] + k, n>>] BY <1>1, <1>10
  <2> QED BY <1>1, <2>1, <2>3, <2>4, <2>5, <2>6 DEF Names
<1>20. DOMAIN tld = {"tld"} /\ tld["tld"] = <<h + k, n>> BY <1>10
<1>21. DOMAIN whole = {"tld", "domain"} /\ whole["tld"] = <<h + k, n>> /\ whole["domain"] = domain
  <2>1. /\ DOMAIN whole = DOMAIN tld \cup {"domain"} /\ whole["domain"] = domain
        /\ \A y \in DOMAIN tld : y # "domain" => whole[y] = tld[y]
    BY <1>11 DEF With
  <2> QED BY <1>20, <2>1
<1>22. /\ DOMAIN all = {"tld", "domain", "subdomain"} /\ all["tld"] = <<h + k, n>>
       /\ all["domain"] = domain /\ all["subdomain"] = <<h, d>>
  <2>1. /\ DOMAIN all = DOMAIN whole \cup {"subdomain"} /\ all["subdomain"] = <<h, d>>
        /\ \A y \in DOMAIN whole : y # "subdomain" => all[y] = whole[y]
    BY <1>12 DEF With
  <2> QED BY <1>21, <2>1
<1>14. d < 0 <=> ~(d >= 0) BY <1>3, <1>6
<1>15. HasSubdomain(d) <=> d >= 0 /\ h + d + 1 > 1 BY <1>1 DEF HasSubdomain
<1>17. CASE d < 0 BY <1>1, <1>7, <1>8, <1>13, <1>14, <1>15, <1>17, <1>20
<1>18. CASE d >= 0 /\ h + d + 1 > 1
  BY <1>1, <1>7, <1>8, <1>10, <1>13, <1>14, <1>15, <1>18, <1>22
<1>19. CASE d >= 0 /\ ~(h + d + 1 > 1)
  BY <1>1, <1>7, <1>8, <1>10, <1>13, <1>14, <1>15, <1>19, <1>21
<1> QED BY <1>14, <1>17, <1>18, <1>19

LEMMA FoundWithTld ==
  ASSUME Scanning, ScanDone, SizesTyped, HostSized, NEW k, NEW n, IsTld(k, n)
  PROVE  \E d : Dot(d, n) /\ d < k /\ FoundWith(Found(Names(k, n)), k, n, d)
<1>1. PICK d : /\ Dot(d, n) /\ d < k
               /\ "tld" \in DOMAIN Names(k, n) /\ Names(k, n)["tld"] = <<pos["host"] + k, n>>
               /\ "domain" \in DOMAIN Names(k, n) <=> d >= 0
               /\ d >= 0 => Names(k, n)["domain"] = <<pos["host"] + d + 1, Len(Host) - d - 1>>
               /\ "subdomain" \in DOMAIN Names(k, n) <=> HasSubdomain(d)
               /\ HasSubdomain(d) => Names(k, n)["subdomain"] = <<pos["host"], d>>
               /\ DOMAIN Names(k, n) \subseteq {"tld", "domain", "subdomain"}
  BY NamesAre
<1>2. PICK h, m : h = pos["host"] /\ m = Len(Host) OBVIOUS
<1>3. h \in Nat /\ m \in Nat /\ h + m <= Len(url) /\ PartSizes["host"] = m
  BY <1>2, HostIs, PartsSized
<1>4. n \in Nat /\ d \in -1 .. m - n - 2 BY <1>1, <1>2 DEF Dot, IsTld
<1>5. PICK names : names = Names(k, n) OBVIOUS
<1>6. PICK p, l : p = h + d + 1 /\ l = m - d - 1 OBVIOUS
<1>7. p \in Nat /\ l \in Nat /\ l - (n + 1) \in 0 .. SizeMod - 1
  BY <1>3, <1>4, <1>6, ScannedTypes
<1>8. DomainOrHost(names, PartSizes) = <<p, l>>
  <2>1. CASE d >= 0 BY <1>1, <1>2, <1>5, <1>6, <2>1 DEF DomainOrHost
  <2>2. CASE d = -1
    <3>1. p = h /\ l = m BY <1>3, <1>6, <2>2
    <3> QED BY <1>1, <1>2, <1>3, <1>5, <2>2, <3>1 DEF DomainOrHost
  <2> QED BY <1>3, <1>4, <2>1, <2>2
<1>9. PICK f : f = With(names, "domain", <<p, l>>) OBVIOUS
<1>10. /\ DOMAIN f = {"tld", "domain"} \cup (IF HasSubdomain(d) THEN {"subdomain"} ELSE {})
       /\ f["tld"] = <<h + k, n>> /\ f["domain"] = <<p, l>>
       /\ HasSubdomain(d) => f["subdomain"] = <<h, d>>
  <2>1. /\ DOMAIN f = DOMAIN names \cup {"domain"} /\ f["domain"] = <<p, l>>
        /\ \A y \in DOMAIN names : y # "domain" => f[y] = names[y]
    BY <1>9 DEF With
  <2> QED BY <1>1, <1>2, <1>5, <2>1 DEF HasSubdomain
<1>11. PICK v : v = <<p, l - (n + 1)>> OBVIOUS
<1>12. WithoutTld(f, <<p, l>>) = With(f, "domain_without_tld", v)
  <2>1. (l - (n + 1)) % SizeMod = l - (n + 1) BY <1>7, SizeModAssumption
  <2> QED BY <1>7, <1>10, <1>11, <2>1 DEF WithoutTld
<1>13. Found(names) = With(f, "domain_without_tld", v) BY <1>8, <1>9, <1>12 DEF Found
<1>14. /\ DOMAIN Found(names) = {"tld", "domain", "domain_without_tld"}
                                  \cup (IF HasSubdomain(d) THEN {"subdomain"} ELSE {})
       /\ Found(names)["tld"] = <<h + k, n>> /\ Found(names)["domain"] = <<p, l>>
       /\ Found(names)["domain_without_tld"] = v
       /\ HasSubdomain(d) => Found(names)["subdomain"] = <<h, d>>
  <2>1. PICK g : g = Found(names) OBVIOUS
  <2>2. /\ DOMAIN g = DOMAIN f \cup {"domain_without_tld"} /\ g["domain_without_tld"] = v
        /\ \A y \in DOMAIN f : y # "domain_without_tld" => g[y] = f[y]
    BY <1>13, <2>1 DEF With
  <2> QED BY <1>10, <2>1, <2>2
<1> QED BY <1>1, <1>2, <1>5, <1>6, <1>11, <1>14 DEF FoundWith

(* Whatever names the host gets, they are typed, lie in the URL, and with  *)
(* a TLD are those of FoundWith.                                           *)
LEMMA FoundNames ==
  ASSUME Scanning, ScanDone, SizesTyped, NEW o \in HostOutcomes, NEW g, g = Found(o.names)
  PROVE  /\ DOMAIN g \subseteq HostNames
         /\ \A f \in DOMAIN g : g[f][1] \in Int /\ g[f][2] \in 0 .. SizeMod - 1
         /\ (\A x \in Fields : size[x] = 0) =>
              \A f \in DOMAIN g : g[f][1] >= 0 => g[f][1] + g[f][2] <= Len(url)
         /\ "tld" \in DOMAIN g =>
              HostSized /\ \E k, n, d : IsTld(k, n) /\ Dot(d, n) /\ d < k /\ FoundWith(g, k, n, d)
<1>1. PICK h, z, len : h = pos["host"] /\ z = PartSizes["host"] /\ len = Len(url) OBVIOUS
<1>2. h \in -1 .. len /\ z \in 0 .. SizeMod - 1 /\ len \in Nat /\ len < SizeMod /\ SizeMod \in Nat
  BY <1>1, ScannedTypes, PartsSized DEF Fields
<1>3. CASE o.names = <<>> /\ "domain" \notin DOMAIN o.names
  <2>1. DomainOrHost(o.names, PartSizes) = <<h, z>> BY <1>1, <1>3 DEF DomainOrHost
  <2>2. PICK f : f = With(o.names, "domain", <<h, z>>) OBVIOUS
  <2>3. DOMAIN f = {"domain"} /\ f["domain"] = <<h, z>> BY <1>3, <2>2 DEF With
  <2>4. g = WithoutTld(f, <<h, z>>) BY <2>1, <2>2 DEF Found
  <2>5. g = IF h < 0 THEN f ELSE With(f, "domain_without_tld", <<h, z>>) BY <2>3, <2>4 DEF WithoutTld
  <2>6. /\ DOMAIN g \subseteq {"domain", "domain_without_tld"}
        /\ \A x \in DOMAIN g : g[x] = <<h, z>>
    BY <2>3, <2>5 DEF With
  <2>7. (\A x \in Fields : size[x] = 0) => (h >= 0 => h + z <= len)
    BY <1>1, PartsSized DEF Exist, Fields
  <2> QED BY <1>1, <1>2, <2>6, <2>7 DEF HostNames
<1>4. CASE HostSized /\ o.names = [domain |-> WholeHost]
  <2>1. PICK n : n = Len(Host) OBVIOUS
  <2>2. WholeHost = <<h, n>> /\ n \in Nat /\ h \in Nat /\ h + n <= len BY <1>1, <1>4, <2>1, HostIs DEF WholeHost
  <2>3. DomainOrHost(o.names, PartSizes) = <<h, n>> BY <1>4, <2>2 DEF DomainOrHost
  <2>4. PICK f : f = With(o.names, "domain", <<h, n>>) OBVIOUS
  <2>5. DOMAIN f = {"domain"} /\ f["domain"] = <<h, n>> BY <1>4, <2>4 DEF With
  <2>6. g = WithoutTld(f, <<h, n>>) BY <2>3, <2>4 DEF Found
  <2>7. g = With(f, "domain_without_tld", <<h, n>>) BY <2>2, <2>5, <2>6 DEF WithoutTld
  <2>8. /\ DOMAIN g \subseteq {"domain", "domain_without_tld"}
        /\ \A x \in DOMAIN g : g[x] = <<h, n>>
    BY <2>5, <2>7 DEF With
  <2> QED BY <1>1, <1>2, <2>2, <2>8 DEF HostNames
<1>5. CASE HostSized /\ \E k, n : IsTld(k, n) /\ o.names = Names(k, n)
  <2>1. PICK k, n : IsTld(k, n) /\ o.names = Names(k, n) BY <1>5
  <2>2. PICK d : Dot(d, n) /\ d < k /\ FoundWith(g, k, n, d) BY <1>5, <2>1, FoundWithTld
  <2>3. PICK m : m = Len(Host) OBVIOUS
  <2>4. m \in Nat /\ h \in Nat /\ h + m <= len BY <1>1, <1>5, <2>3, HostIs
  <2>5. k \in 1 .. m - 1 /\ n \in Nat /\ k + n <= m /\ d \in -1 .. m - n - 2
    BY <2>1, <2>2, <2>3, <2>4 DEF IsTld, Dot
  <2>6. DOMAIN g \subseteq HostNames BY <2>2 DEF FoundWith, HostNames
  <2>7. /\ h + k \in Nat /\ n \in 0 .. SizeMod - 1 /\ h + k + n <= len
        /\ h + d + 1 \in Nat /\ m - d - 1 \in 0 .. SizeMod - 1 /\ h + d + 1 + (m - d - 1) <= len
        /\ m - d - 1 - (n + 1) \in 0 .. SizeMod - 1 /\ h + d + 1 + (m - d - 1 - (n + 1)) <= len
        /\ d >= 0 => d \in 0 .. SizeMod - 1 /\ h + d <= len
    BY <1>2, <2>4, <2>5
  <2> DEFINE Fits(x) == g[x][1] \in Int /\ g[x][2] \in 0 .. SizeMod - 1 /\ g[x][1] + g[x][2] <= len
  <2>8. ASSUME NEW f \in DOMAIN g PROVE Fits(f)
    <3>1. CASE f = "tld" BY <1>1, <2>2, <2>7, <3>1 DEF FoundWith
    <3>2. CASE f = "domain" BY <1>1, <2>2, <2>3, <2>7, <3>2 DEF FoundWith
    <3>3. CASE f = "domain_without_tld" BY <1>1, <2>2, <2>3, <2>7, <3>3 DEF FoundWith
    <3>4. CASE f = "subdomain"
      <4>1. HasSubdomain(d) BY <2>2, <2>8, <3>4 DEF FoundWith
      <4>2. d >= 0 /\ g[f][1] = h /\ g[f][2] = d BY <1>1, <2>2, <3>4, <4>1 DEF FoundWith, HasSubdomain
      <4>3. d \in 0 .. SizeMod - 1 /\ h + d <= len /\ h \in Int BY <1>2, <2>7, <4>2
      <4> QED BY <4>2, <4>3
    <3>5. f \in {"subdomain", "domain", "domain_without_tld", "tld"} BY <2>6, <2>8 DEF HostNames
    <3> HIDE DEF Fits
    <3> QED BY <3>1, <3>2, <3>3, <3>4, <3>5
  <2> QED BY <1>1, <1>5, <2>1, <2>2, <2>6, <2>8
<1> QED BY <1>3, <1>4, <1>5, OutcomeIs

(***************************************************************************)
(* The end of a call.                                                      *)
(***************************************************************************)
FinishedWith(g) ==
  /\ pos' = [f \in Fields |-> IF f \in DOMAIN g THEN g[f][1] ELSE pos[f]]
  /\ size' = [f \in Fields |-> IF f \in DOMAIN g THEN g[f][2] ELSE PartSizes[f]]
  /\ url' = url /\ caller' = caller /\ decoded' = decoded /\ in_call' = FALSE

LEMMA FinishIs ==
  ASSUME Finish
  PROVE  \E o \in HostOutcomes : FinishedWith(Found(o.names))
<1>1. PICK o \in HostOutcomes :
        LET domain == DomainOrHost(o.names, PartSizes)
            found == WithoutTld(With(o.names, "domain", domain), domain)
        IN /\ pos'  = [f \in Fields |-> IF f \in DOMAIN found THEN found[f][1] ELSE pos[f]]
           /\ size' = [f \in Fields |-> IF f \in DOMAIN found THEN found[f][2] ELSE PartSizes[f]]
  BY DEF Finish
<1>2. url' = url /\ caller' = caller /\ decoded' = decoded /\ in_call' = FALSE BY DEF Finish
<1> QED BY <1>1, <1>2 DEF FinishedWith, Found

LEMMA FinishTypes ==
  ASSUME DecodeOK, Finish
  PROVE  SizesTyped' /\ PartsWithinUrl'
<1>1. Scanning /\ ScanDone /\ SizesTyped BY DEF DecodeOK, Finish
<1>2. PICK o \in HostOutcomes : FinishedWith(Found(o.names)) BY FinishIs
<1>3. PICK g : g = Found(o.names) OBVIOUS
<1>4. FinishedWith(g) BY <1>2, <1>3
<1>5. /\ DOMAIN g \subseteq HostNames
      /\ \A f \in DOMAIN g : g[f][1] \in Int /\ g[f][2] \in 0 .. SizeMod - 1
      /\ (\A x \in Fields : size[x] = 0) =>
           \A f \in DOMAIN g : g[f][1] >= 0 => g[f][1] + g[f][2] <= Len(url)
  BY <1>1, <1>3, FoundNames
<1>6. /\ PartSizes \in [Fields -> 0 .. SizeMod - 1]
      /\ (\A f \in Fields : size[f] = 0) =>
           \A f \in Fields \ {"hierarchical"} :
             Exist(f) /\ (f = "credential" => Exist("host")) => pos[f] + PartSizes[f] <= Len(url)
  BY <1>1, PartsSized
<1>7. SizesTyped' BY <1>4, <1>5, <1>6 DEF FinishedWith, SizesTyped
<1>8. ASSUME ~Callers[caller].reuses, NEW f \in Fields \ {"hierarchical"},
             f = "credential" => Exist("host")', Exist(f)'
      PROVE  Within(f)'
  <2>1. \A x \in Fields : size[x] = 0 BY <1>8 DEF DecodeOK, SizesFresh, Finish
  <2>2. pos'["host"] = pos["host"] BY <1>4, <1>5 DEF FinishedWith, HostNames, Fields
  <2>3. CASE f \in DOMAIN g
    <3>1. pos'[f] = g[f][1] /\ size'[f] = g[f][2] BY <1>4, <2>3 DEF FinishedWith
    <3> QED BY <1>4, <1>5, <1>8, <2>1, <2>3, <3>1 DEF FinishedWith, Within, Exist
  <2>4. CASE f \notin DOMAIN g
    <3>1. pos'[f] = pos[f] /\ size'[f] = PartSizes[f] BY <1>4, <2>4 DEF FinishedWith
    <3>2. Exist(f) /\ (f = "credential" => Exist("host")) BY <1>8, <2>2, <3>1 DEF Exist
    <3> QED BY <1>4, <1>6, <1>8, <2>1, <3>1, <3>2 DEF FinishedWith, Within, Exist
  <2> QED BY <2>3, <2>4
<1>9. PartsWithinUrl'
  <2>1. Callers[caller'] = Callers[caller] BY <1>4 DEF FinishedWith
  <2> SUFFICES ASSUME ~Callers[caller'].reuses, NEW f \in Fields \ {"hierarchical"},
                      f = "credential" => Exist("host")'
               PROVE  Within(f)'
    BY DEF PartsWithinUrl
  <2>2. ~Exist(f)' => Within(f)' BY DEF Within
  <2> QED BY <1>8, <2>1, <2>2
<1> QED BY <1>7, <1>9

LEMMA FinishNames ==
  ASSUME DecodeOK, Finish, Exist("tld")', At(EndOf("host") - 1)' \notin {"/", "?"}
  PROVE  NamesReassemble'
<1>1. Scanning /\ ScanDone /\ SizesTyped BY DEF DecodeOK, Finish
<1>2. PICK o \in HostOutcomes : FinishedWith(Found(o.names)) BY FinishIs
<1>3. PICK g : g = Found(o.names) OBVIOUS
<1>4. FinishedWith(g) BY <1>2, <1>3
<1>5. DOMAIN g \subseteq HostNames BY <1>1, <1>3, FoundNames
<1>6. "tld" \in DOMAIN g
  <2>1. pos["tld"] = -1 BY <1>1 DEF Scanning, HostNames
  <2> QED BY <1>4, <2>1 DEF FinishedWith, Exist, Fields
<1>7. HostSized BY <1>1, <1>3, <1>6, FoundNames
<1>8. PICK k, n, d : IsTld(k, n) /\ Dot(d, n) /\ d < k /\ FoundWith(g, k, n, d)
  BY <1>1, <1>3, <1>6, FoundNames
<1>9. PICK h, m : h = pos["host"] /\ m = Len(Host) OBVIOUS
<1>10. /\ h \in Nat /\ m \in Nat \ {0} /\ HostEnd = h + m
       /\ \A j \in 0 .. m - 1 : At(h + j) = Host[j + 1]
  BY <1>1, <1>7, <1>9, HostIs
<1>11. pos'["host"] = h /\ size'["host"] = m
  <2>1. PartSizes["host"] = m BY <1>1, <1>7, <1>9, <1>10, PartsSized
  <2> QED BY <1>4, <1>5, <1>9, <2>1 DEF FinishedWith, HostNames, Fields
<1>12. \A j : At(j)' = At(j) BY <1>4 DEF FinishedWith, At
<1>13. k \in 1 .. m - 1 /\ n \in Nat /\ k + n = m /\ (k = 1 \/ Host[k] = ".")
  <2>1. At(h + (m - 1)) = Host[m] BY <1>10
  <2>2. EndOf("host")' - 1 = h + (m - 1) BY <1>10, <1>11 DEF EndOf
  <2>3. At(EndOf("host") - 1)' = At(h + (m - 1)) BY <1>12, <2>2
  <2>4. Host[m] \notin {"/", "?"} BY <2>1, <2>3
  <2> QED BY <1>8, <1>9, <2>4 DEF IsTld
<1>14. d \in -1 .. m - n - 2 /\ (d >= 0 => Host[d + 1] = ".")
       /\ \A j \in 0 .. m - n - 2 : j > d => Host[j + 1] # "."
  BY <1>8, <1>9 DEF Dot
<1>15. /\ pos'["tld"] = h + k /\ size'["tld"] = n
       /\ pos'["domain"] = h + d + 1 /\ size'["domain"] = m - d - 1
       /\ pos'["domain_without_tld"] = h + d + 1
       /\ size'["domain_without_tld"] = m - d - 1 - (n + 1)
       /\ HasSubdomain(d) => pos'["subdomain"] = h /\ size'["subdomain"] = d
       /\ ~HasSubdomain(d) => pos'["subdomain"] = -1
  <2>1. \A f \in DOMAIN g : pos'[f] = g[f][1] /\ size'[f] = g[f][2]
    BY <1>4, <1>5 DEF FinishedWith, HostNames, Fields
  <2>2. "subdomain" \notin DOMAIN g => pos'["subdomain"] = -1
    BY <1>1, <1>4 DEF FinishedWith, Scanning, HostNames, Fields
  <2> QED BY <1>8, <1>9, <2>1, <2>2 DEF FoundWith
<1>16. EndOf("domain_without_tld")' + 1 = pos'["tld"]
  BY <1>10, <1>13, <1>14, <1>15 DEF EndOf
<1>17. EndOf("tld")' = EndOf("host")' /\ EndOf("domain")' = EndOf("host")'
  BY <1>10, <1>11, <1>13, <1>14, <1>15 DEF EndOf
<1>18. ASSUME NEW i \in pos'["domain_without_tld"] .. EndOf("domain_without_tld")' - 1
       PROVE  At(i)' # "."
  <2>1. PICK j : j = i - h OBVIOUS
  <2>2. i \in Int /\ h + d + 1 <= i /\ i <= h + d + 1 + (m - d - 1 - (n + 1)) - 1
    <3>1. EndOf("domain_without_tld")' = h + d + 1 + (m - d - 1 - (n + 1)) BY <1>15 DEF EndOf
    <3>2. PICK a, b : a = h + d + 1 /\ b = h + d + 1 + (m - d - 1 - (n + 1)) OBVIOUS
    <3>3. pos'["domain_without_tld"] = a /\ EndOf("domain_without_tld")' = b BY <1>15, <3>1, <3>2
    <3>4. i \in a .. b - 1 BY <1>18, <3>3
    <3>5. a \in Int /\ b \in Int BY <1>10, <1>13, <1>14, <3>2
    <3>6. i \in Int /\ a <= i /\ i <= b - 1 BY <3>4, <3>5
    <3> QED BY <1>10, <1>13, <1>14, <3>2, <3>6
  <2>3. j \in 0 .. m - n - 2 /\ j > d /\ i = h + j /\ j \in 0 .. m - 1
    BY <1>10, <1>13, <1>14, <2>1, <2>2
  <2>4. At(i) = Host[j + 1] BY <1>10, <2>3
  <2> QED BY <1>12, <1>14, <2>3, <2>4
<1>19. CASE HasSubdomain(d)
  <2>1. Exist("subdomain")' BY <1>10, <1>15, <1>19 DEF Exist
  <2>2. pos'["subdomain"] = pos'["host"] /\ EndOf("subdomain")' + 1 = pos'["domain"]
    BY <1>10, <1>11, <1>14, <1>15, <1>19 DEF EndOf
  <2> QED BY <1>16, <1>17, <1>18, <2>1, <2>2 DEF NamesReassemble
<1>20. CASE ~HasSubdomain(d)
  <2>1. ~Exist("subdomain")' BY <1>15, <1>20 DEF Exist
  <2>2. pos'["domain"] = pos'["host"] \/ At(pos["domain"] - 1)' = "."
    <3>1. CASE d = -1 BY <1>10, <1>11, <1>15, <3>1
    <3>2. CASE d # -1
      <4>1. d \in 0 .. m - 1 /\ Host[d + 1] = "." BY <1>13, <1>14, <3>2
      <4>2. pos'["domain"] - 1 = h + d BY <1>10, <1>15, <4>1
      <4>3. At(h + d) = "." BY <1>10, <4>1
      <4> QED BY <1>12, <4>2, <4>3
    <3> QED BY <3>1, <3>2
  <2> QED BY <1>16, <1>17, <1>18, <2>1, <2>2 DEF NamesReassemble
<1> QED BY <1>19, <1>20

(***************************************************************************)
(* The invariant.                                                          *)
(***************************************************************************)
LEMMA DecodeInitOK == DecodeInit => DecodeOK
<1> SUFFICES ASSUME DecodeInit PROVE DecodeOK
  OBVIOUS
<1>1. ~decoded /\ ~in_call /\ in_call = FALSE BY DEF DecodeInit, FeaturesZero
<1>2. SizesTyped BY SizeModAssumption DEF DecodeInit, SizesTyped
<1>3. SizesFresh BY DEF DecodeInit, SizesFresh
<1>4. PartsWithinUrl /\ HostReassembles BY <1>1 DEF PartsWithinUrl, HostReassembles, Returned
<1>5. caller \in DOMAIN Callers BY DEF DecodeInit
<1> QED BY <1>1, <1>2, <1>3, <1>4, <1>5 DEF DecodeOK

(* The URL without the characters that a caller removed *)
LEMMA ShortenedTyped ==
  ASSUME caller \in DOMAIN Callers, NEW u \in Callers[caller].urls
  PROVE  Shortened(u) \in Seq(Chars) /\ Len(Shortened(u)) < SizeMod
<1>1. u \in Seq(Chars) /\ Len(u) < SizeMod /\ Len(u) \in Nat
  <2>1. u \in Urls BY CallersAssumption
  <2> QED BY <2>1, UrlsAssumption, SizeModAssumption
<1>2. PICK n : n = Callers[caller].chars_to_remove OBVIOUS
<1>3. n \in Nat BY <1>2, CallersAssumption
<1>4. CASE n >= Len(u) BY <1>1, <1>2, <1>4 DEF Shortened
<1>5. CASE ~(n >= Len(u))
  <2>1. Shortened(u) = SubSeq(u, 1, Len(u) - n) BY <1>2, <1>5 DEF Shortened
  <2>2. PICK e : e = Len(u) - n OBVIOUS
  <2>3. e \in 1 .. Len(u) BY <1>1, <1>3, <1>5, <2>2
  <2>4. \A i \in 1 .. e : u[i] \in Chars BY <1>1, <2>3
  <2>5. SubSeq(u, 1, e) \in Seq(Chars) /\ Len(SubSeq(u, 1, e)) = IF 1 <= e THEN e - 1 + 1 ELSE 0
    BY <2>3, <2>4, SubSeqProperties
  <2>6. Len(SubSeq(u, 1, e)) = e BY <2>3, <2>5
  <2> QED BY <1>1, <2>1, <2>2, <2>3, <2>5, <2>6, SizeModAssumption
<1> QED BY <1>4, <1>5

LEMMA StartStep ==
  ASSUME DecodeOK, Start
  PROVE  DecodeOK'
<1>1. PICK u \in Callers[caller].urls : Find(Shortened(u)) BY DEF Start
<1>2. Shortened(u) \in Seq(Chars) /\ Len(Shortened(u)) < SizeMod /\ Len(Shortened(u)) \in Nat
  BY ShortenedTyped DEF DecodeOK
<1>3. TypeOK'
  <2>1. pos' \in [Fields -> -1 .. current_pos'] BY <1>1 DEF Find
  <2>2. url' \in Seq(Chars) /\ current_pos' \in 0 .. Len(url') /\ nb_slashes' \in 0 .. current_pos'
        /\ special_char_after_colons_pos' \in -1 .. current_pos'
    <3>1. url' = Shortened(u) /\ current_pos' = 0 /\ nb_slashes' = 0 /\ special_char_after_colons_pos' = -1
      BY <1>1 DEF Find
    <3> QED BY <1>2, <3>1
  <2> QED BY <1>1, <2>1, <2>2 DEF Find, TypeOK, UrlTypes
<1>4. PartsInOrder' BY <1>1 DEF Find, PartsInOrder, Exist, Fields
<1>5. decoded' /\ in_call' = TRUE /\ caller' = caller /\ size' = size BY <1>1 DEF Find, Start
<1>6. Scanning' BY <1>1, <1>2, <1>3, <1>4, <1>5 DEF Scanning, Find, HostNames, Fields
<1>7. SizesTyped' BY <1>5 DEF DecodeOK, SizesTyped
<1>8. SizesFresh'
  <2>1. ~Callers[caller].reuses => ~decoded BY DEF Start
  <2> QED BY <1>5, <2>1 DEF DecodeOK, SizesFresh
<1>9. ~Returned' BY <1>5 DEF Returned
<1>10. PartsWithinUrl' /\ HostReassembles' BY <1>9 DEF PartsWithinUrl, HostReassembles
<1>11. caller' \in DOMAIN Callers BY <1>5 DEF DecodeOK
<1> QED BY <1>5, <1>6, <1>7, <1>8, <1>10, <1>11 DEF DecodeOK

(* The scan names no part of the host. *)
LEMMA ScanKeepsNames ==
  ASSUME TypeOK, ReadChar, NEW f \in HostNames
  PROVE  pos'[f] = pos[f]
BY DEF TypeOK, Fields, HostNames, ReadChar, SkipBracketed, ReadEscapedSlash, ReadOpeningSlash, ReadSlash,
       ReadAt, ReadColon, ReadQuestionMark, ReadHash, ReadOpenBracket, ReadCloseBracket, ReadOther

LEMMA ScanStep ==
  ASSUME DecodeOK, Scan
  PROVE  DecodeOK'
<1>1. ReadChar /\ UNCHANGED <<caller, size, in_call>> /\ in_call /\ Scanning BY DEF DecodeOK, Scan
<1>2. [Next]_scanVars BY <1>1 DEF Next
<1>3. TypeOK' /\ PartsInOrder' BY <1>1, <1>2, TypeStep, OrderStep DEF Scanning
<1>4. decoded' = decoded /\ url' = url
  BY <1>1 DEF ReadChar, SkipBracketed, ReadEscapedSlash, ReadOpeningSlash, ReadSlash, ReadAt, ReadColon,
       ReadQuestionMark, ReadHash, ReadOpenBracket, ReadCloseBracket, ReadOther, Switch, Read
<1>5. Scanning' BY <1>1, <1>3, <1>4, ScanKeepsNames DEF Scanning
<1>6. SizesTyped' /\ SizesFresh' BY <1>1, <1>4 DEF DecodeOK, SizesTyped, SizesFresh, Scanning
<1>7. PartsWithinUrl' /\ HostReassembles' BY <1>1 DEF PartsWithinUrl, HostReassembles, Returned
<1> QED BY <1>1, <1>4, <1>5, <1>6, <1>7 DEF DecodeOK, Scanning

LEMMA FinishStep ==
  ASSUME DecodeOK, Finish
  PROVE  DecodeOK'
<1>1. in_call' = FALSE /\ caller' = caller /\ decoded' = decoded /\ decoded
  BY DEF Finish, DecodeOK, Scanning
<1>2. SizesFresh' BY <1>1 DEF SizesFresh
<1>3. HostReassembles' BY FinishNames DEF HostReassembles
<1> QED BY <1>1, <1>2, <1>3, FinishTypes DEF DecodeOK

(* Call after call, on any handler: types, the invariants of the scan, and *)
(* both of what follows.                                                   *)
THEOREM DecodeInvariant == DecodeSpec => []DecodeOK
<1>1. DecodeInit => DecodeOK BY DecodeInitOK
<1>2. DecodeOK /\ [DecodeNext]_decodeVars => DecodeOK'
  <2> SUFFICES ASSUME DecodeOK, [DecodeNext]_decodeVars PROVE DecodeOK'
    OBVIOUS
  <2>1. CASE Start BY <2>1, StartStep
  <2>2. CASE Scan BY <2>2, ScanStep
  <2>3. CASE Finish BY <2>3, FinishStep
  <2>4. CASE UNCHANGED decodeVars
    BY <2>4 DEF decodeVars, scanVars, DecodeOK, Scanning, TypeOK, PartsInOrder, SizesTyped, SizesFresh,
         PartsWithinUrl, HostReassembles, Returned, Within, Exist, At, EndOf, NamesReassemble
  <2> QED BY <2>1, <2>2, <2>3, <2>4 DEF DecodeNext
<1> QED BY <1>1, <1>2, PTL DEF DecodeSpec

(* faup_decode: every part that the first call on a handler reports lies   *)
(* within the URL, for every URL, whatever the list says of its host.      *)
THEOREM PartsLieWithin == DecodeSpec => []PartsWithinUrl
<1>1. DecodeOK => PartsWithinUrl BY DEF DecodeOK
<1> QED BY <1>1, DecodeInvariant, PTL

(* The names of the host reassemble into it, after every call on any       *)
(* handler, for every URL and every choice of the TLD.                     *)
THEOREM NamesFitTogether == DecodeSpec => []HostReassembles
<1>1. DecodeOK => HostReassembles BY DEF DecodeOK
<1> QED BY <1>1, DecodeInvariant, PTL

-----------------------------------------------------------------------------
(* RFC 3986 *)

LEMMA HasSmallest ==
  ASSUME NEW a \in Int, NEW b \in Int, NEW S \in SUBSET (a .. b), S # {}
  PROVE  Min(S) \in S /\ \A x \in S : Min(S) <= x
<1> DEFINE T == {x - a : x \in S}
<1>1. T \subseteq Nat /\ T # {}
  <2>1. \A x \in S : x - a \in Nat OBVIOUS
  <2>2. \E x : x \in S OBVIOUS
  <2> QED BY <2>1, <2>2
<1>2. PICK m \in T : \A y \in T : ~(<<y, m>> \in OpToRel(<, Nat))
  BY <1>1, NatLessThanWellFounded, WFMin, Zenon
<1>3. ASSUME NEW y \in T PROVE m <= y
  <2> HIDE DEF T
  <2>1. y \in Nat /\ m \in Nat BY <1>1, <1>2
  <2>2. ~(y < m) BY <1>2, <1>3, <2>1 DEF OpToRel
  <2> QED BY <2>1, <2>2
<1>4. PICK x \in S : m = x - a BY <1>2
<1>5. \A y \in S : x <= y
  <2>1. ASSUME NEW y \in S PROVE x <= y
    <3>1. y - a \in T OBVIOUS
    <3>2. m <= y - a BY <1>3, <3>1
    <3> QED BY <1>4, <3>2
  <2> QED BY <2>1
<1> QED BY <1>5 DEF Min

LEMMA CharKinds ==
  /\ \A c \in Name : c \in Others /\ c # "\\"
  /\ Digits \subseteq Name /\ Letters \subseteq Name
  /\ \A c \in Name : IsAlnum(c) \/ c \in {".", "-"}
  /\ \A c \in Digits : IsAlnum(c)
  /\ \A c \in Others : c \notin Delimiters
  BY DEF Name, Letters, Digits, Others, Delimiters, IsAlnum

(* The first offset that holds one of T, or the end. *)
LEMMA FirstFromIs ==
  ASSUME NEW u \in Seq(Chars), NEW k \in 0 .. Len(u), NEW T
  PROVE  LET f == FirstFrom(u, k, T)
         IN /\ f \in k .. Len(u)
            /\ f < Len(u) => CharAt(u, f) \in T
            /\ \A j \in k .. f - 1 : CharAt(u, j) \notin T
<1>1. Len(u) \in Nat OBVIOUS
<1> DEFINE places == {Len(u)} \cup {j \in k .. Len(u) - 1 : u[j + 1] \in T}
<1>2. places \in SUBSET (k .. Len(u)) /\ Len(u) \in places BY <1>1
<1>3. FirstFrom(u, k, T) = Min(places) BY DEF FirstFrom
<1>4. Min(places) \in places /\ \A x \in places : Min(places) <= x
  <2>1. k \in Int /\ Len(u) \in Int /\ places # {} BY <1>1, <1>2
  <2> HIDE DEF places
  <2> QED BY <1>2, <2>1, HasSmallest, Zenon
<1>5. Min(places) \in k .. Len(u) BY <1>2, <1>4
<1>6. Min(places) < Len(u) => CharAt(u, Min(places)) \in T BY <1>1, <1>4, <1>5 DEF CharAt
<1>7. ASSUME NEW j \in k .. Min(places) - 1 PROVE CharAt(u, j) \notin T
  <2>1. j \in 0 .. Len(u) - 1 /\ j \in k .. Len(u) - 1 /\ j < Min(places) BY <1>1, <1>5
  <2>2. j \notin places
    <3> HIDE DEF places
    <3> SUFFICES ASSUME j \in places PROVE FALSE OBVIOUS
    <3>1. Min(places) <= j BY <1>4
    <3> QED BY <1>1, <1>5, <2>1, <3>1
  <2> QED BY <2>1, <2>2 DEF CharAt
<1> QED BY <1>3, <1>5, <1>6, <1>7

UserColon(u) == FirstFrom(u, AuthorityStart(u), {":"})

(***************************************************************************)
(* The parts of a regular URL, and the characters in them.                 *)
(***************************************************************************)
SchemeIs(u) ==
  /\ FirstColon(u) \in 0 .. Len(u) /\ AuthorityStart(u) \in 0 .. Len(u)
  /\ ~HasScheme(u) => AuthorityStart(u) = 0
  /\ HasScheme(u) =>
       /\ FirstColon(u) > 0 /\ AuthorityStart(u) = FirstColon(u) + 3
       /\ CharAt(u, FirstColon(u)) = ":"
       /\ CharAt(u, FirstColon(u) + 1) = "/" /\ CharAt(u, FirstColon(u) + 2) = "/"
       /\ CharAt(u, FirstColon(u) - 1) \in Letters
       /\ \A k \in 0 .. FirstColon(u) - 1 : CharAt(u, k) \in Name

UserinfoIs(u) ==
  /\ AtSign(u) \in Int /\ HostStart(u) \in AuthorityStart(u) .. Len(u)
  /\ ~HasUserinfo(u) => HostStart(u) = AuthorityStart(u)
  /\ HasUserinfo(u) =>
       /\ AuthorityStart(u) < AtSign(u) /\ HostStart(u) = AtSign(u) + 1
       /\ CharAt(u, AtSign(u)) = "@"
       /\ \A k \in AuthorityStart(u) .. AtSign(u) - 1 :
            CharAt(u, k) \in Name \/ (k = UserColon(u) /\ CharAt(u, k) = ":")
       /\ UserColon(u) \in Int
       /\ UserColon(u) < AtSign(u) =>
            /\ AuthorityStart(u) < UserColon(u) /\ UserColon(u) + 1 < AtSign(u)
            /\ CharAt(u, UserColon(u) + 1) \in Name
       /\ CharAt(u, AtSign(u) - 1) \in Name

HostIsIn(u) ==
  /\ HostStop(u) \in Int /\ HostStart(u) < HostStop(u)
  /\ Bracketed(u) =>
       /\ ~HasUserinfo(u)
       /\ HostStart(u) + 2 < HostStop(u)
       /\ CharAt(u, HostStart(u)) = "[" /\ CharAt(u, HostStop(u) - 1) = "]"
       /\ \A k \in HostStart(u) + 1 .. HostStop(u) - 2 : CharAt(u, k) \in Chars \ {"]"}
  /\ ~Bracketed(u) => \A k \in HostStart(u) .. HostStop(u) - 1 : CharAt(u, k) \in Name

PortIs(u) ==
  /\ AuthorityEnd(u) \in HostStop(u) .. Len(u) /\ HostColon(u) \in Int
  /\ ~HasPort(u) => HostStop(u) = AuthorityEnd(u)
  /\ HasPort(u) =>
       /\ HostColon(u) = HostStop(u) /\ HostColon(u) + 1 < AuthorityEnd(u)
       /\ CharAt(u, HostColon(u)) = ":"
       /\ \A k \in HostColon(u) + 1 .. AuthorityEnd(u) - 1 : CharAt(u, k) \in Digits

TailIs(u) ==
  /\ AuthorityEnd(u) < Len(u) => CharAt(u, AuthorityEnd(u)) \in {"/", "?", "#"}
  /\ HasPath(u) => AuthorityEnd(u) < Len(u)
  /\ QueryStart(u) \in AuthorityEnd(u) .. Len(u) /\ FragmentStart(u) \in QueryStart(u) .. Len(u)
  /\ \A k \in AuthorityEnd(u) .. QueryStart(u) - 1 : CharAt(u, k) \notin {"?", "#"}
  /\ \A k \in AuthorityEnd(u) .. FragmentStart(u) - 1 : CharAt(u, k) # "#"
  /\ HasPath(u) => AuthorityEnd(u) < QueryStart(u)
  /\ ~HasPath(u) => AuthorityEnd(u) = QueryStart(u)
  /\ HasQuery(u) => QueryStart(u) < FragmentStart(u)
  /\ ~HasQuery(u) => QueryStart(u) = FragmentStart(u)
  /\ ~HasQuery(u) => \A k \in AuthorityEnd(u) .. Len(u) - 1 : CharAt(u, k) # "?"
  /\ HasFragment(u) => CharAt(u, FragmentStart(u)) = "#"
  /\ \A k \in FragmentStart(u) .. Len(u) - 1 : CharAt(u, k) # "?"
  /\ ~HasPath(u) =>
       \A k \in AuthorityEnd(u) .. Len(u) - 1 : CharAt(u, k) \in Chars \ {"/", "@", ":"}

LEMMA SchemeOfRegular == ASSUME NEW u \in Seq(Chars), Regular(u) PROVE SchemeIs(u)
<1>1. Len(u) \in Nat OBVIOUS
<1>2. /\ FirstColon(u) \in 0 .. Len(u)
      /\ FirstColon(u) < Len(u) => CharAt(u, FirstColon(u)) \in {":"}
  BY <1>1, FirstFromIs DEF FirstColon
<1>3. CASE HasScheme(u)
  <2>1. /\ FirstColon(u) > 0 /\ AuthorityStart(u) = FirstColon(u) + 3
        /\ CharAt(u, FirstColon(u) + 1) = "/" /\ CharAt(u, FirstColon(u) + 2) = "/"
    BY <1>3 DEF HasScheme, AuthorityStart
  <2>2. FirstColon(u) + 2 \in 0 .. Len(u) - 1 BY <2>1 DEF CharAt
  <2>3. WellFormedScheme(u) /\ SchemeEndsInLetter(u) BY DEF Regular, WellFormed
  <2>4. /\ CharAt(u, FirstColon(u) - 1) \in Letters
        /\ \A k \in 0 .. FirstColon(u) - 1 : CharAt(u, k) \in Name
    BY <1>3, <2>3 DEF WellFormedScheme, SchemeEndsInLetter, AllIn
  <2> QED BY <1>1, <1>2, <1>3, <2>1, <2>2, <2>4 DEF SchemeIs
<1>4. CASE ~HasScheme(u)
  BY <1>1, <1>2, <1>4 DEF SchemeIs, AuthorityStart
<1> QED BY <1>3, <1>4

LEMMA UserinfoOfRegular == ASSUME NEW u \in Seq(Chars), Regular(u) PROVE UserinfoIs(u)
<1>1. Len(u) \in Nat /\ AuthorityStart(u) \in 0 .. Len(u)
  BY SchemeOfRegular DEF SchemeIs
<1>2. /\ AtSign(u) \in AuthorityStart(u) .. Len(u)
      /\ AtSign(u) < Len(u) => CharAt(u, AtSign(u)) \in {"@"}
  BY <1>1, FirstFromIs DEF AtSign
<1>3. UserColon(u) \in AuthorityStart(u) .. Len(u)
      /\ (UserColon(u) < Len(u) => CharAt(u, UserColon(u)) \in {":"})
  BY <1>1, FirstFromIs DEF UserColon
<1>4. AuthorityEnd(u) \in AuthorityStart(u) .. Len(u) BY <1>1, FirstFromIs DEF AuthorityEnd
<1>5. CASE HasUserinfo(u)
  <2>1. AtSign(u) < AuthorityEnd(u) /\ HostStart(u) = AtSign(u) + 1
    BY <1>5 DEF HasUserinfo, HostStart
  <2>2. WellFormedUserinfo(u) BY DEF Regular, WellFormed
  <2>3. CASE UserColon(u) < AtSign(u)
    <3>1. /\ UserColon(u) > AuthorityStart(u) /\ UserColon(u) + 1 < AtSign(u)
          /\ \A k \in AuthorityStart(u) .. UserColon(u) - 1 : CharAt(u, k) \in Name
          /\ \A k \in UserColon(u) + 1 .. AtSign(u) - 1 : CharAt(u, k) \in Name
      BY <1>5, <2>2, <2>3 DEF WellFormedUserinfo, AllIn, UserColon
    <3>2. \A k \in AuthorityStart(u) .. AtSign(u) - 1 :
            CharAt(u, k) \in Name \/ (k = UserColon(u) /\ CharAt(u, k) = ":")
      <4>1. ASSUME NEW k \in AuthorityStart(u) .. AtSign(u) - 1, k # UserColon(u)
            PROVE  k \in AuthorityStart(u) .. UserColon(u) - 1 \/ k \in UserColon(u) + 1 .. AtSign(u) - 1
        BY <1>1, <1>2, <1>3, <4>1
      <4> QED BY <1>2, <1>3, <1>4, <2>1, <2>3, <3>1, <4>1
    <3>3. CharAt(u, AtSign(u) - 1) \in Name /\ CharAt(u, UserColon(u) + 1) \in Name
      BY <1>2, <1>3, <3>1
    <3> QED BY <1>1, <1>2, <1>3, <1>4, <1>5, <2>1, <2>3, <3>1, <3>2, <3>3 DEF UserinfoIs
  <2>4. CASE ~(UserColon(u) < AtSign(u))
    <3>1. /\ AtSign(u) > AuthorityStart(u)
          /\ \A k \in AuthorityStart(u) .. AtSign(u) - 1 : CharAt(u, k) \in Name
      BY <1>5, <2>2, <2>4 DEF WellFormedUserinfo, AllIn, UserColon
    <3>2. CharAt(u, AtSign(u) - 1) \in Name BY <1>1, <1>2, <3>1
    <3> QED BY <1>1, <1>2, <1>3, <1>4, <1>5, <2>1, <2>4, <3>1, <3>2 DEF UserinfoIs
  <2> QED BY <2>3, <2>4
<1>6. CASE ~HasUserinfo(u)
  BY <1>1, <1>2, <1>6 DEF UserinfoIs, HostStart
<1> QED BY <1>5, <1>6

LEMMA HostOfRegular == ASSUME NEW u \in Seq(Chars), Regular(u) PROVE HostIsIn(u) /\ PortIs(u)
<1>1. /\ Len(u) \in Nat /\ AuthorityStart(u) \in 0 .. Len(u) /\ AtSign(u) \in Int
      /\ HostStart(u) \in AuthorityStart(u) .. Len(u)
      /\ HasUserinfo(u) => HostStart(u) = AtSign(u) + 1
      /\ ~HasUserinfo(u) => HostStart(u) = AuthorityStart(u)
  BY SchemeOfRegular, UserinfoOfRegular DEF SchemeIs, UserinfoIs
<1>2. AuthorityEnd(u) \in AuthorityStart(u) .. Len(u) BY <1>1, FirstFromIs DEF AuthorityEnd
<1>3. HostStart(u) <= AuthorityEnd(u) BY <1>1, <1>2 DEF HasUserinfo
<1>4. PICK k \in HostStart(u) .. Len(u) : HostColon(u) = FirstFrom(u, k, {":"})
  <2>1. HostStart(u) \in 0 .. Len(u) /\ HostStart(u) \in HostStart(u) .. Len(u) BY <1>1
  <2>2. FirstFrom(u, HostStart(u), {"]"}) \in HostStart(u) .. Len(u) BY <2>1, FirstFromIs
  <2> QED BY <2>1, <2>2 DEF HostColon
<1>5. HostColon(u) \in HostStart(u) .. Len(u)
      /\ (HostColon(u) < Len(u) => CharAt(u, HostColon(u)) \in {":"})
  <2>1. k \in 0 .. Len(u) BY <1>1
  <2> QED BY <1>1, <1>4, <2>1, FirstFromIs
<1>6. /\ HostStop(u) \in HostStart(u) .. AuthorityEnd(u)
      /\ HasPort(u) => HostStop(u) = HostColon(u) /\ HostColon(u) < AuthorityEnd(u)
      /\ ~HasPort(u) => HostStop(u) = AuthorityEnd(u)
  BY <1>1, <1>2, <1>3, <1>5 DEF HostStop, HasPort
<1>7. WellFormedHost(u) /\ WellFormedPort(u) /\ BracketsWithoutUserinfo(u)
  BY DEF Regular, WellFormed
<1>8. HostIsIn(u)
  <2>1. CASE Bracketed(u)
    <3>1. /\ HostStop(u) > HostStart(u) + 2
          /\ CharAt(u, HostStart(u)) = "[" /\ CharAt(u, HostStop(u) - 1) = "]"
          /\ \A j \in HostStart(u) + 1 .. (HostStop(u) - 1) - 1 :
               CharAt(u, j) \in Letters \cup Digits \cup {":"}
      BY <2>1 DEF Bracketed, AllIn
    <3>2. \A c \in Letters \cup Digits \cup {":"} : c \in Chars \ {"]"}
      BY DEF Letters, Digits, Chars, Others, Delimiters
    <3>3. (HostStop(u) - 1) - 1 = HostStop(u) - 2 BY <1>1, <1>6
    <3>4. ~HasUserinfo(u) BY <1>7, <2>1 DEF BracketsWithoutUserinfo
    <3> QED BY <1>1, <1>2, <1>6, <2>1, <3>1, <3>2, <3>3, <3>4 DEF HostIsIn
  <2>2. CASE ~Bracketed(u)
    <3>1. HostStop(u) > HostStart(u) /\ \A j \in HostStart(u) .. HostStop(u) - 1 : CharAt(u, j) \in Name
      BY <1>7, <2>2 DEF WellFormedHost, AllIn
    <3> QED BY <1>1, <1>2, <1>6, <2>2, <3>1 DEF HostIsIn
  <2> QED BY <2>1, <2>2
<1>9. PortIs(u)
  <2>1. AuthorityEnd(u) \in HostStop(u) .. Len(u) /\ HostColon(u) \in Int BY <1>1, <1>2, <1>5, <1>6
  <2>2. ASSUME HasPort(u)
        PROVE  /\ HostColon(u) + 1 < AuthorityEnd(u) /\ CharAt(u, HostColon(u)) = ":"
               /\ \A j \in HostColon(u) + 1 .. AuthorityEnd(u) - 1 : CharAt(u, j) \in Digits
    BY <1>1, <1>2, <1>5, <1>6, <1>7, <2>2 DEF WellFormedPort, AllIn
  <2> QED BY <1>6, <2>1, <2>2 DEF PortIs
<1> QED BY <1>8, <1>9

LEMMA TailOfRegular == ASSUME NEW u \in Seq(Chars), Regular(u) PROVE TailIs(u)
<1>1. Len(u) \in Nat /\ AuthorityStart(u) \in 0 .. Len(u)
  BY SchemeOfRegular DEF SchemeIs
<1>2. /\ AuthorityEnd(u) \in 0 .. Len(u)
      /\ AuthorityEnd(u) < Len(u) => CharAt(u, AuthorityEnd(u)) \in {"/", "?", "#"}
  BY <1>1, FirstFromIs DEF AuthorityEnd
<1>3. /\ QueryStart(u) \in AuthorityEnd(u) .. Len(u)
      /\ QueryStart(u) < Len(u) => CharAt(u, QueryStart(u)) \in {"?", "#"}
      /\ \A k \in AuthorityEnd(u) .. QueryStart(u) - 1 : CharAt(u, k) \notin {"?", "#"}
  BY <1>2, FirstFromIs DEF QueryStart
<1>4. /\ FragmentStart(u) \in AuthorityEnd(u) .. Len(u)
      /\ FragmentStart(u) < Len(u) => CharAt(u, FragmentStart(u)) \in {"#"}
      /\ \A k \in AuthorityEnd(u) .. FragmentStart(u) - 1 : CharAt(u, k) \notin {"#"}
  BY <1>2, FirstFromIs DEF FragmentStart
<1>5. QueryStart(u) <= FragmentStart(u)
  <2> SUFFICES ASSUME FragmentStart(u) < QueryStart(u) PROVE FALSE BY <1>1, <1>2, <1>3, <1>4
  <2>1. FragmentStart(u) \in AuthorityEnd(u) .. QueryStart(u) - 1 /\ FragmentStart(u) < Len(u)
    BY <1>1, <1>2, <1>3, <1>4
  <2> QED BY <1>3, <1>4, <2>1
<1>6. \A k \in FragmentStart(u) .. Len(u) - 1 : CharAt(u, k) # "?"
  BY DEF Regular, NoQueryInFragment, AllIn
<1>7. ASSUME HasQuery(u) PROVE QueryStart(u) < FragmentStart(u)
  <2>1. CharAt(u, QueryStart(u)) = "?" BY <1>7 DEF HasQuery
  <2>2. QueryStart(u) < Len(u) BY <1>1, <1>2, <1>3, <2>1 DEF CharAt
  <2>3. FragmentStart(u) # QueryStart(u) BY <1>4, <2>1, <2>2
  <2> QED BY <1>1, <1>2, <1>3, <1>4, <1>5, <2>3
<1>8. ASSUME ~HasQuery(u) PROVE QueryStart(u) = FragmentStart(u)
  <2>1. CharAt(u, QueryStart(u)) # "?" BY <1>8 DEF HasQuery
  <2>2. CASE QueryStart(u) = Len(u) BY <1>1, <1>2, <1>3, <1>4, <1>5, <2>2
  <2>3. CASE QueryStart(u) < Len(u)
    <3>1. CharAt(u, QueryStart(u)) = "#" BY <1>3, <2>1, <2>3
    <3>2. ~(QueryStart(u) < FragmentStart(u)) BY <1>2, <1>3, <1>4, <3>1
    <3> QED BY <1>1, <1>2, <1>3, <1>4, <1>5, <3>2
  <2> QED BY <1>1, <1>2, <1>3, <2>2, <2>3
<1>9. ASSUME ~HasQuery(u), NEW k \in AuthorityEnd(u) .. Len(u) - 1 PROVE CharAt(u, k) # "?"
  <2>1. k \in AuthorityEnd(u) .. QueryStart(u) - 1 \/ k \in FragmentStart(u) .. Len(u) - 1
    BY <1>1, <1>2, <1>3, <1>4, <1>8, <1>9
  <2> QED BY <1>3, <1>6, <2>1
<1>10. HasPath(u) => AuthorityEnd(u) < QueryStart(u)
  <2> SUFFICES ASSUME HasPath(u), AuthorityEnd(u) = QueryStart(u) PROVE FALSE BY <1>1, <1>2, <1>3
  <2>1. CharAt(u, AuthorityEnd(u)) = "/" BY DEF HasPath
  <2>2. AuthorityEnd(u) < Len(u) BY <1>1, <1>2, <2>1 DEF CharAt
  <2> QED BY <1>3, <2>1, <2>2
<1>11. ASSUME ~HasPath(u) PROVE AuthorityEnd(u) = QueryStart(u)
  <2> SUFFICES ASSUME AuthorityEnd(u) < QueryStart(u) PROVE FALSE BY <1>1, <1>2, <1>3
  <2>1. AuthorityEnd(u) < Len(u) /\ AuthorityEnd(u) \in AuthorityEnd(u) .. QueryStart(u) - 1
    BY <1>1, <1>2, <1>3
  <2> QED BY <1>2, <1>3, <1>11, <2>1 DEF HasPath
<1>12. ASSUME ~HasPath(u), NEW k \in AuthorityEnd(u) .. Len(u) - 1
      PROVE  CharAt(u, k) \in Chars \ {"/", "@", ":"}
  BY <1>12 DEF Regular, PathShieldsAuthority, AllIn
<1>13. ASSUME HasPath(u) PROVE AuthorityEnd(u) < Len(u) BY <1>1, <1>2, <1>13 DEF HasPath, CharAt
<1>14. ASSUME HasFragment(u) PROVE CharAt(u, FragmentStart(u)) = "#" BY <1>4, <1>14 DEF HasFragment
<1>15. FragmentStart(u) \in QueryStart(u) .. Len(u) BY <1>1, <1>2, <1>3, <1>4, <1>5
<1> QED BY <1>2, <1>3, <1>4, <1>6, <1>7, <1>8, <1>9, <1>10, <1>11, <1>12, <1>13, <1>14, <1>15
      DEF TailIs

(* Where the parts of a regular URL are with respect to each other. *)
Layout(u) ==
  /\ FirstColon(u) \in Int /\ AuthorityStart(u) \in Int /\ AtSign(u) \in Int
  /\ UserColon(u) \in Int /\ HostStart(u) \in Int /\ HostStop(u) \in Int
  /\ HostColon(u) \in Int /\ AuthorityEnd(u) \in Int /\ QueryStart(u) \in Int
  /\ FragmentStart(u) \in Int /\ Len(u) \in Nat
  /\ ~HasScheme(u) => AuthorityStart(u) = 0
  /\ HasScheme(u) => FirstColon(u) > 0 /\ AuthorityStart(u) = FirstColon(u) + 3
  /\ ~HasUserinfo(u) => HostStart(u) = AuthorityStart(u)
  /\ HasUserinfo(u) => AuthorityStart(u) < AtSign(u) /\ HostStart(u) = AtSign(u) + 1
  /\ HasUserinfo(u) /\ UserColon(u) < AtSign(u) =>
       AuthorityStart(u) < UserColon(u) /\ UserColon(u) + 1 < AtSign(u)
  /\ HostStart(u) < HostStop(u) /\ HostStop(u) <= AuthorityEnd(u)
  /\ Bracketed(u) => ~HasUserinfo(u) /\ HostStart(u) + 2 < HostStop(u)
  /\ ~HasPort(u) => HostStop(u) = AuthorityEnd(u)
  /\ HasPort(u) => HostColon(u) = HostStop(u) /\ HostColon(u) + 1 < AuthorityEnd(u)
  /\ AuthorityEnd(u) <= QueryStart(u) /\ QueryStart(u) <= FragmentStart(u)
  /\ FragmentStart(u) <= Len(u)

LEMMA LayoutOfRegular == ASSUME NEW u \in Seq(Chars), Regular(u) PROVE Layout(u)
<1>1. Len(u) \in Nat /\ SchemeIs(u) /\ UserinfoIs(u) /\ HostIsIn(u) /\ PortIs(u) /\ TailIs(u)
  BY SchemeOfRegular, UserinfoOfRegular, HostOfRegular, TailOfRegular
<1>2. AuthorityStart(u) \in 0 .. Len(u) /\ UserColon(u) \in Int
  BY <1>1, FirstFromIs DEF SchemeIs, UserColon
<1> QED BY <1>1, <1>2 DEF SchemeIs, UserinfoIs, HostIsIn, PortIs, TailIs, Layout

(* What the character at offset k of a regular URL is.                     *)
LEMMA Regions ==
  ASSUME NEW u \in Seq(Chars), Regular(u), NEW k \in 0 .. Len(u) - 1
  PROVE  LET c == CharAt(u, k)
         IN \/ HasScheme(u) /\ k < FirstColon(u) /\ c \in Name
            \/ HasScheme(u) /\ k = FirstColon(u) /\ c = ":"
            \/ HasScheme(u) /\ k = FirstColon(u) + 1 /\ c = "/"
            \/ HasScheme(u) /\ k = FirstColon(u) + 2 /\ c = "/"
            \/ /\ HasUserinfo(u) /\ k \in AuthorityStart(u) .. AtSign(u) - 1
               /\ c \in Name \/ (k = UserColon(u) /\ c = ":")
            \/ HasUserinfo(u) /\ k = AtSign(u) /\ c = "@"
            \/ ~Bracketed(u) /\ k \in HostStart(u) .. HostStop(u) - 1 /\ c \in Name
            \/ Bracketed(u) /\ k = HostStart(u) /\ c = "["
            \/ /\ Bracketed(u) /\ k \in HostStart(u) + 1 .. HostStop(u) - 2
               /\ c \in Chars \ {"]"}
            \/ Bracketed(u) /\ k = HostStop(u) - 1 /\ c = "]"
            \/ HasPort(u) /\ k = HostColon(u) /\ c = ":"
            \/ HasPort(u) /\ k \in HostColon(u) + 1 .. AuthorityEnd(u) - 1 /\ c \in Digits
            \/ k >= AuthorityEnd(u)
<1>1. Layout(u) /\ SchemeIs(u) /\ UserinfoIs(u) /\ HostIsIn(u) /\ PortIs(u)
  BY SchemeOfRegular, UserinfoOfRegular, HostOfRegular, LayoutOfRegular
<1>2. k \in Nat OBVIOUS
<1>3. CASE k < AuthorityStart(u)
  <2>1. HasScheme(u) BY <1>1, <1>2, <1>3 DEF Layout
  <2>2. \/ k < FirstColon(u) \/ k = FirstColon(u)
        \/ k = FirstColon(u) + 1 \/ k = FirstColon(u) + 2
    BY SMTT(30), <1>1, <1>2, <1>3, <2>1 DEF Layout
  <2>3. k < FirstColon(u) => k \in 0 .. FirstColon(u) - 1 BY <1>1, <1>2 DEF Layout
  <2> QED BY <1>1, <2>1, <2>2, <2>3 DEF SchemeIs
<1>4. CASE AuthorityStart(u) <= k /\ k < HostStart(u)
  <2>1. HasUserinfo(u) /\ (k = AtSign(u) \/ k \in AuthorityStart(u) .. AtSign(u) - 1)
    BY <1>1, <1>2, <1>4 DEF Layout
  <2> QED BY <1>1, <2>1 DEF UserinfoIs
<1>5. CASE HostStart(u) <= k /\ k < HostStop(u)
  <2>1. k \in HostStart(u) .. HostStop(u) - 1 BY <1>1, <1>2, <1>5 DEF Layout
  <2>2. CASE Bracketed(u)
    <3>1. \/ k = HostStart(u) \/ k = HostStop(u) - 1
          \/ k \in HostStart(u) + 1 .. HostStop(u) - 2
      <4>1. HostStart(u) \in Int /\ HostStop(u) \in Int BY <1>1 DEF Layout
      <4> QED BY <1>2, <1>5, <4>1
    <3> QED BY <1>1, <2>2, <3>1 DEF HostIsIn
  <2> QED BY <1>1, <2>1, <2>2 DEF HostIsIn
<1>6. CASE HostStop(u) <= k /\ k < AuthorityEnd(u)
  <2>1. HasPort(u) /\ (k = HostColon(u) \/ k \in HostColon(u) + 1 .. AuthorityEnd(u) - 1)
    BY <1>1, <1>2, <1>6 DEF Layout
  <2> QED BY <1>1, <2>1 DEF PortIs
<1> QED BY <1>1, <1>2, <1>3, <1>4, <1>5, <1>6 DEF Layout

(***************************************************************************)
(* The scan of a regular URL, one character after the other: where each    *)
(* part has been found to start when k characters of u have been read.     *)
(***************************************************************************)
Opened(u, k)     == HasScheme(u) /\ k > FirstColon(u) + 1
InUserinfo(u, k) == HasUserinfo(u) /\ k > AuthorityStart(u) /\ k <= AtSign(u)
InBrackets(u, k) == Bracketed(u) /\ k > HostStart(u) /\ k < HostStop(u)

StartIf(found, start) == IF found THEN start ELSE -1

SchemeAt(u, k)       == StartIf(Opened(u, k), 0)
HierarchicalAt(u, k) == StartIf(Opened(u, k), FirstColon(u))
CredentialAt(u, k)   == StartIf(HasUserinfo(u) /\ k > AtSign(u), AuthorityStart(u))
PortAt(u, k)         == StartIf(HasPort(u) /\ k > HostColon(u), HostColon(u) + 1)
PathAt(u, k)         == StartIf(HasPath(u) /\ k > AuthorityEnd(u), AuthorityEnd(u))
QueryAt(u, k)        == StartIf(HasQuery(u) /\ k > QueryStart(u), QueryStart(u))
FragmentAt(u, k)     == StartIf(HasFragment(u) /\ k > FragmentStart(u), FragmentStart(u))

(* The scheme and the userinfo are taken for the host at first. *)
HostAt(u, k) ==
  IF InUserinfo(u, k) THEN AuthorityStart(u)
  ELSE IF k > AuthorityStart(u) THEN HostStart(u)
  ELSE StartIf(k > 0 /\ ~Opened(u, k), 0)

(* A password is taken for the port at first. *)
PortAsRead ==
  /\ InUserinfo(url, current_pos) => pos["port"] = -1 \/ current_pos > UserColon(url)
  /\ ~InUserinfo(url, current_pos) => pos["port"] = PortAt(url, current_pos)

AuthorityAsRead ==
  /\ pos["scheme"] = SchemeAt(url, current_pos)
  /\ pos["hierarchical"] = HierarchicalAt(url, current_pos)
  /\ pos["credential"] = CredentialAt(url, current_pos)
  /\ pos["host"] = HostAt(url, current_pos)
  /\ PortAsRead
  /\ HasScheme(url) => (nb_slashes = 0 <=> ~Opened(url, current_pos))
  /\ host_is_ipv6 <=> InBrackets(url, current_pos)
  /\ special_char_after_colons_pos < AuthorityEnd(url)
  /\ HasUserinfo(url) => special_char_after_colons_pos # AtSign(url)

TailAsRead ==
  /\ pos["resource_path"] = PathAt(url, current_pos)
  /\ pos["query_string"] = QueryAt(url, current_pos)
  /\ pos["fragment"] = FragmentAt(url, current_pos)
  /\ current_pos <= AuthorityEnd(url) => last_slash_meaning # "AFTER_DOMAIN"
  /\ current_pos > AuthorityEnd(url) /\ HasPath(url) =>
       nb_slashes > 0 /\ last_slash_meaning = "AFTER_DOMAIN"

(* The invariant: of every regular URL the scan has found what the RFC has *)
(* in the characters that were read, and what is not sure yet.             *)
ReadAsInRfc == decoded /\ Regular(url) => AuthorityAsRead /\ TailAsRead

(* A step that reads a character of a regular URL. *)
Reading ==
  /\ TypeOK /\ decoded /\ Regular(url) /\ AuthorityAsRead /\ TailAsRead
  /\ ReadChar

LEMMA ReadingIs ==
  ASSUME Reading
  PROVE  /\ Layout(url) /\ PosInts /\ CursorMoves(At(current_pos))
         /\ current_pos \in 0 .. Len(url) - 1 /\ url \in Seq(Chars)
         /\ special_char_after_colons_pos \in Int
<1>1. \E c \in Chars : Read(c)
  BY DEF Reading, ReadChar, SkipBracketed, ReadEscapedSlash, ReadOpeningSlash, ReadSlash, ReadAt,
         ReadColon, ReadQuestionMark, ReadHash, ReadOpenBracket, ReadCloseBracket, ReadOther,
         Switch, Chars, Delimiters
<1>2. PICK c \in Chars : Read(c) BY <1>1
<1>3. c = At(current_pos) /\ current_pos < Len(url) BY <1>2 DEF Read
<1>4. CursorMoves(c) BY <1>2, CursorStep DEF Reading
<1>5. url \in Seq(Chars) /\ Len(url) \in Nat /\ current_pos \in 0 .. Len(url)
      /\ special_char_after_colons_pos \in Int BY DEF Reading, TypeOK
<1> QED BY <1>3, <1>4, <1>5, PosTypes, LayoutOfRegular DEF Reading

(* The character decides which case of the switch is taken. *)
LEMMA SwitchIs ==
  ASSUME Reading
  PROVE  LET c == At(current_pos)
         IN /\ host_is_ipv6 /\ c # "]" => SkipBracketed
            /\ ~host_is_ipv6 /\ c = "/" => ReadEscapedSlash \/ ReadOpeningSlash \/ ReadSlash
            /\ ~host_is_ipv6 /\ c = "@" => ReadAt
            /\ ~host_is_ipv6 /\ c = ":" => ReadColon
            /\ ~host_is_ipv6 /\ c = "?" => ReadQuestionMark
            /\ ~host_is_ipv6 /\ c = "#" => ReadHash
            /\ ~host_is_ipv6 /\ c = "[" => ReadOpenBracket
            /\ c = "]" => ReadCloseBracket
            /\ ~host_is_ipv6 /\ c \in Others => ReadOther
<1>1. \A c \in Others : c \notin Delimiters BY CharKinds
<1> QED
  BY <1>1 DEF Reading, ReadChar, SkipBracketed, ReadEscapedSlash, ReadOpeningSlash, ReadSlash, ReadAt,
       ReadColon, ReadQuestionMark, ReadHash, ReadOpenBracket, ReadCloseBracket, ReadOther,
       Switch, Read, Delimiters

(* Before the authority is over, nothing of the tail is found. *)
LEMMA BeforeTail ==
  ASSUME Reading, current_pos < AuthorityEnd(url), last_slash_meaning' # "AFTER_DOMAIN",
         pos'["resource_path"] = pos["resource_path"],
         pos'["query_string"] = pos["query_string"], pos'["fragment"] = pos["fragment"]
  PROVE  TailAsRead'
<1>1. /\ Layout(url) /\ CursorMoves(At(current_pos))
  BY ReadingIs
<1>2. url' = url /\ current_pos' = current_pos + 1 /\ current_pos \in Nat BY <1>1 DEF CursorMoves
<1>3. /\ PathAt(url, current_pos) = -1 /\ PathAt(url, current_pos + 1) = -1
      /\ QueryAt(url, current_pos) = -1 /\ QueryAt(url, current_pos + 1) = -1
      /\ FragmentAt(url, current_pos) = -1 /\ FragmentAt(url, current_pos + 1) = -1
  BY <1>1, <1>2 DEF Layout, PathAt, QueryAt, FragmentAt, StartIf
<1>4. ~(current_pos + 1 > AuthorityEnd(url)) BY <1>1, <1>2 DEF Layout
<1> QED BY <1>2, <1>3, <1>4 DEF Reading, TailAsRead

(* A character of a name, of a userinfo or of a port is at most taken for  *)
(* the beginning of the host.                                              *)
InName(u, k) ==
  \/ HasScheme(u) /\ k < FirstColon(u)
  \/ HasUserinfo(u) /\ k \in AuthorityStart(u) .. AtSign(u) - 1
  \/ ~Bracketed(u) /\ k \in HostStart(u) .. HostStop(u) - 1
  \/ HasPort(u) /\ k \in HostColon(u) + 1 .. AuthorityEnd(u) - 1

NameKeeps(u, k) ==
  /\ SchemeAt(u, k + 1) = SchemeAt(u, k)
  /\ HierarchicalAt(u, k + 1) = HierarchicalAt(u, k)
  /\ CredentialAt(u, k + 1) = CredentialAt(u, k)
  /\ HostAt(u, k + 1) = IF k = 0 \/ (HostAt(u, k) = -1 /\ CredentialAt(u, k) = -1)
                        THEN k ELSE HostAt(u, k)
  /\ HostAt(u, k) = -1 \/ HostAt(u, k) >= 0
  /\ CredentialAt(u, k) = -1 \/ CredentialAt(u, k) >= 0
  /\ k < AuthorityEnd(u)
  /\ PortAt(u, k + 1) = PortAt(u, k)
  /\ InUserinfo(u, k + 1) => InUserinfo(u, k) \/ PortAt(u, k) = -1
  /\ InUserinfo(u, k) => InUserinfo(u, k + 1)
  /\ k > UserColon(u) => k + 1 > UserColon(u)
  /\ Opened(u, k + 1) <=> Opened(u, k)
  /\ ~InBrackets(u, k) /\ ~InBrackets(u, k + 1)

LEMMA NameMovesHost ==
  ASSUME NEW u, Layout(u), NEW k \in Nat, InName(u, k) PROVE NameKeeps(u, k)
<1>1. CASE HasScheme(u) /\ k < FirstColon(u)
  <2>1. /\ ~Opened(u, k) /\ ~Opened(u, k + 1) /\ k < AuthorityEnd(u)
        /\ ~InUserinfo(u, k) /\ ~InUserinfo(u, k + 1)
        /\ ~InBrackets(u, k) /\ ~InBrackets(u, k + 1)
    BY <1>1 DEF Layout, Opened, InUserinfo, InBrackets
  <2>2. /\ CredentialAt(u, k) = -1 /\ CredentialAt(u, k + 1) = -1
        /\ PortAt(u, k) = -1 /\ PortAt(u, k + 1) = -1
    BY <1>1 DEF Layout, CredentialAt, PortAt, StartIf
  <2>3. HostAt(u, k) = (IF k = 0 THEN -1 ELSE 0) /\ HostAt(u, k + 1) = 0
    BY <1>1, <2>1 DEF Layout, HostAt, StartIf
  <2>4. k > UserColon(u) => k + 1 > UserColon(u) BY DEF Layout
  <2> QED BY <2>1, <2>2, <2>3, <2>4 DEF NameKeeps, SchemeAt, HierarchicalAt, StartIf
<1>2. CASE HasUserinfo(u) /\ k \in AuthorityStart(u) .. AtSign(u) - 1
  <2>1. /\ (Opened(u, k) <=> HasScheme(u)) /\ (Opened(u, k + 1) <=> HasScheme(u))
        /\ k < AuthorityEnd(u)
        /\ (InUserinfo(u, k) <=> k > AuthorityStart(u))
        /\ InUserinfo(u, k + 1)
        /\ ~InBrackets(u, k) /\ ~InBrackets(u, k + 1)
    BY <1>2 DEF Layout, Opened, InUserinfo, InBrackets
  <2>2. /\ CredentialAt(u, k) = -1 /\ CredentialAt(u, k + 1) = -1
        /\ PortAt(u, k) = -1 /\ PortAt(u, k + 1) = -1
    BY <1>2 DEF Layout, CredentialAt, PortAt, StartIf
  <2>3. /\ k = AuthorityStart(u) => HostAt(u, k) = -1
        /\ k > AuthorityStart(u) => HostAt(u, k) = AuthorityStart(u)
        /\ HostAt(u, k + 1) = AuthorityStart(u) /\ AuthorityStart(u) >= 0
    BY <1>2, <2>1 DEF Layout, HostAt, StartIf
  <2>4. k > UserColon(u) => k + 1 > UserColon(u) BY DEF Layout
  <2>5. k = AuthorityStart(u) \/ k > AuthorityStart(u) BY <1>2 DEF Layout
  <2>6. k = 0 => AuthorityStart(u) = 0 BY <1>2 DEF Layout
  <2> QED BY <2>1, <2>2, <2>3, <2>4, <2>5, <2>6 DEF NameKeeps, SchemeAt, HierarchicalAt, Layout, StartIf
<1>3. CASE ~Bracketed(u) /\ k \in HostStart(u) .. HostStop(u) - 1
  <2>1. /\ (Opened(u, k) <=> HasScheme(u)) /\ (Opened(u, k + 1) <=> HasScheme(u))
        /\ k < AuthorityEnd(u)
        /\ ~InUserinfo(u, k) /\ ~InUserinfo(u, k + 1)
        /\ ~InBrackets(u, k) /\ ~InBrackets(u, k + 1)
    BY <1>3 DEF Layout, Opened, InUserinfo, InBrackets
  <2>2. /\ CredentialAt(u, k) = StartIf(HasUserinfo(u), AuthorityStart(u))
        /\ CredentialAt(u, k + 1) = CredentialAt(u, k)
        /\ PortAt(u, k) = -1 /\ PortAt(u, k + 1) = -1
    BY SMTT(30), <1>3 DEF Layout, CredentialAt, PortAt, StartIf
  <2>3. /\ k = AuthorityStart(u) => HostAt(u, k) = -1
        /\ k > AuthorityStart(u) => HostAt(u, k) = HostStart(u)
        /\ HostAt(u, k + 1) = HostStart(u)
    BY SMTT(30), <1>3, <2>1 DEF Layout, HostAt, StartIf
  <2>4. k > UserColon(u) => k + 1 > UserColon(u) BY DEF Layout
  <2>5. /\ k = AuthorityStart(u) \/ k > AuthorityStart(u)
        /\ k = AuthorityStart(u) => ~HasUserinfo(u) /\ HostStart(u) = k
        /\ HostStart(u) >= 0 /\ AuthorityStart(u) >= 0
    BY <1>3 DEF Layout
  <2> QED BY <2>1, <2>2, <2>3, <2>4, <2>5 DEF NameKeeps, SchemeAt, HierarchicalAt, Layout, StartIf
<1>4. CASE HasPort(u) /\ k \in HostColon(u) + 1 .. AuthorityEnd(u) - 1
  <2>1. /\ (Opened(u, k) <=> HasScheme(u)) /\ (Opened(u, k + 1) <=> HasScheme(u))
        /\ k < AuthorityEnd(u)
        /\ ~InUserinfo(u, k) /\ ~InUserinfo(u, k + 1)
        /\ ~InBrackets(u, k) /\ ~InBrackets(u, k + 1)
    BY SMTT(30), <1>4 DEF Layout, Opened, InUserinfo, InBrackets
  <2>2. /\ CredentialAt(u, k) = StartIf(HasUserinfo(u), AuthorityStart(u))
        /\ CredentialAt(u, k + 1) = CredentialAt(u, k)
        /\ PortAt(u, k) = PortAt(u, k + 1)
    BY <1>4 DEF Layout, CredentialAt, PortAt, StartIf
  <2>3. /\ HostAt(u, k) = HostStart(u) /\ HostAt(u, k + 1) = HostStart(u)
        /\ HostStart(u) >= 0 /\ AuthorityStart(u) >= 0 /\ k > 0
    BY <1>4, <2>1 DEF Layout, HostAt
  <2>4. k > UserColon(u) => k + 1 > UserColon(u) BY DEF Layout
  <2> QED BY <2>1, <2>2, <2>3, <2>4 DEF NameKeeps, SchemeAt, HierarchicalAt, Layout, StartIf
<1> QED BY <1>1, <1>2, <1>3, <1>4 DEF InName

LEMMA ReadName ==
  ASSUME Reading, InName(url, current_pos), At(current_pos) \in Name
  PROVE  AuthorityAsRead' /\ TailAsRead'
<1>1. /\ Layout(url) /\ PosInts /\ CursorMoves(At(current_pos))
      /\ special_char_after_colons_pos \in Int
  BY ReadingIs
<1>2. url' = url /\ current_pos' = current_pos + 1 /\ current_pos \in Nat BY <1>1 DEF CursorMoves
<1> DEFINE k == current_pos
<1>3. NameKeeps(url, k) BY <1>1, <1>2, NameMovesHost
<1>6. ReadOther BY <1>3, CharKinds, SwitchIs DEF NameKeeps, Reading, AuthorityAsRead
<1>7. /\ pos'["scheme"] = pos["scheme"] /\ pos'["hierarchical"] = pos["hierarchical"]
      /\ pos'["credential"] = pos["credential"] /\ pos'["port"] = pos["port"]
      /\ pos'["resource_path"] = pos["resource_path"]
      /\ pos'["query_string"] = pos["query_string"] /\ pos'["fragment"] = pos["fragment"]
      /\ pos'["host"] = HostAt(url, k + 1)
      /\ UNCHANGED <<last_slash_meaning, host_is_ipv6, special_char_after_colons_pos>>
  BY <1>1, <1>3, <1>6 DEF NameKeeps, ReadOther, PosInts, Fields, Exist, Reading, AuthorityAsRead
<1>8. nb_slashes' = nb_slashes
  BY <1>6 DEF ReadOther, Switch, Read, Others, Letters, Digits
<1>9. AuthorityAsRead'
  BY <1>2, <1>3, <1>7, <1>8 DEF NameKeeps, Reading, AuthorityAsRead, PortAsRead
<1>10. TailAsRead'
  BY <1>1, <1>3, <1>7, BeforeTail DEF NameKeeps, Reading, TailAsRead, Layout, CursorMoves
<1> QED BY <1>9, <1>10

(* What the delimiters of the authority leave alone. *)
Kept ==
  /\ pos'["resource_path"] = pos["resource_path"]
  /\ pos'["query_string"] = pos["query_string"] /\ pos'["fragment"] = pos["fragment"]
  /\ last_slash_meaning' # "AFTER_DOMAIN"

(* The ':' of the scheme protects the slash behind it. *)
LEMMA ReadSchemeColon ==
  ASSUME Reading, HasScheme(url), current_pos = FirstColon(url), At(current_pos) = ":"
  PROVE  AuthorityAsRead' /\ TailAsRead'
<1>1. /\ Layout(url) /\ PosInts /\ CursorMoves(At(current_pos))
      /\ special_char_after_colons_pos \in Int
  BY ReadingIs
<1>2. url' = url /\ current_pos' = current_pos + 1 /\ current_pos \in Nat BY <1>1 DEF CursorMoves
<1> DEFINE k == current_pos
<1>3. /\ SchemeAt(url, k + 1) = SchemeAt(url, k)
      /\ HierarchicalAt(url, k + 1) = HierarchicalAt(url, k)
      /\ CredentialAt(url, k + 1) = CredentialAt(url, k)
      /\ HostAt(url, k + 1) = HostAt(url, k) /\ HostAt(url, k) = 0
      /\ PortAt(url, k + 1) = PortAt(url, k) /\ PortAt(url, k) = -1
      /\ ~InUserinfo(url, k) /\ ~InUserinfo(url, k + 1)
      /\ Opened(url, k + 1) <=> Opened(url, k)
      /\ ~InBrackets(url, k) /\ ~InBrackets(url, k + 1)
      /\ k + 1 < AuthorityEnd(url) /\ (HasUserinfo(url) => k + 1 # AtSign(url))
  BY SMTT(30), <1>1, <1>2 DEF Layout, SchemeAt, HierarchicalAt, CredentialAt, PortAt, HostAt, InUserinfo,
     Opened, InBrackets, StartIf
<1>4. ReadColon BY <1>3, SwitchIs DEF Reading, AuthorityAsRead
<1>5. At(current_pos + 1) = "/"
  BY ReadingIs, SchemeOfRegular DEF Reading, SchemeIs, At
<1>6. pos' = pos /\ special_char_after_colons_pos' = k + 1 /\ ~host_is_ipv6' /\ Kept
  <2>1. last_slash_meaning # "AFTER_DOMAIN" /\ pos["port"] = -1
    BY <1>1, <1>2, <1>3 DEF Reading, TailAsRead, AuthorityAsRead, PortAsRead, Layout
  <2>2. ~Exist("port") /\ BeforeDomainEnds BY <2>1 DEF Exist, BeforeDomainEnds
  <2>3. ~IsAlnum("/") BY DEF IsAlnum, Letters, Digits
  <2> QED BY <1>4, <1>5, <2>1, <2>2, <2>3 DEF ReadColon, Kept
<1>7. nb_slashes' = nb_slashes BY <1>4 DEF ReadColon, Switch, Read
<1>8. AuthorityAsRead'
  BY <1>2, <1>3, <1>6, <1>7 DEF Reading, AuthorityAsRead, PortAsRead
<1>9. TailAsRead' BY <1>1, <1>2, <1>3, <1>6, BeforeTail DEF Kept, Layout
<1> QED BY <1>8, <1>9

(* The first slash makes the host a scheme. *)
LEMMA ReadFirstSlash ==
  ASSUME Reading, HasScheme(url), current_pos = FirstColon(url) + 1, At(current_pos) = "/"
  PROVE  AuthorityAsRead' /\ TailAsRead'
<1>1. /\ Layout(url) /\ PosInts /\ CursorMoves(At(current_pos))
      /\ special_char_after_colons_pos \in Int
  BY ReadingIs
<1>2. url' = url /\ current_pos' = current_pos + 1 /\ current_pos \in Nat /\ nb_slashes' > 0
  BY <1>1 DEF CursorMoves
<1> DEFINE k == current_pos
<1>3. /\ SchemeAt(url, k) = -1 /\ SchemeAt(url, k + 1) = 0
      /\ HierarchicalAt(url, k + 1) = FirstColon(url)
      /\ CredentialAt(url, k + 1) = CredentialAt(url, k)
      /\ HostAt(url, k + 1) = -1
      /\ PortAt(url, k + 1) = -1
      /\ ~InUserinfo(url, k) /\ ~InUserinfo(url, k + 1)
      /\ Opened(url, k + 1) /\ ~Opened(url, k)
      /\ ~InBrackets(url, k) /\ ~InBrackets(url, k + 1)
      /\ k < AuthorityEnd(url)
  BY SMTT(30), <1>1, <1>2 DEF Layout, SchemeAt, HierarchicalAt, CredentialAt, PortAt, HostAt, InUserinfo,
     Opened, InBrackets, StartIf
<1>4. CharAt(url, k - 1) = ":" /\ CharAt(url, k - 2) \in Letters
  <2>1. k - 1 = FirstColon(url) /\ k - 2 = FirstColon(url) - 1
    <3>1. FirstColon(url) \in Int BY <1>1 DEF Layout
    <3> QED BY <3>1
  <2> QED BY <2>1, ReadingIs, SchemeOfRegular DEF Reading, SchemeIs
<1>5. nb_slashes = 0 /\ last_slash_meaning # "AFTER_DOMAIN"
  BY <1>1, <1>2, <1>3 DEF Reading, AuthorityAsRead, TailAsRead, Layout
<1>6. ReadOpeningSlash
  BY <1>3, <1>4, <1>5, SwitchIs DEF Reading, AuthorityAsRead, ReadEscapedSlash, EscapedSlash,
     ReadSlash, OpeningSlash, At
<1>7. /\ pos'["scheme"] = 0 /\ pos'["hierarchical"] = FirstColon(url)
      /\ pos'["credential"] = pos["credential"]
      /\ pos'["host"] = -1 /\ pos'["port"] = -1 /\ Kept
      /\ UNCHANGED <<host_is_ipv6, special_char_after_colons_pos>>
  <2>1. current_pos - 1 = FirstColon(url) BY SMTT(30), <1>1, <1>2 DEF Layout
  <2> QED BY <1>1, <1>4, <1>5, <1>6, <2>1
        DEF ReadOpeningSlash, Kept, BeforeDomainEnds, At, PosInts, Fields
<1>8. AuthorityAsRead'
  BY <1>1, <1>2, <1>3, <1>7 DEF Reading, AuthorityAsRead, PortAsRead, CursorMoves
<1>9. TailAsRead' BY <1>3, <1>7, BeforeTail DEF Kept
<1> QED BY <1>8, <1>9

(* The second one has no effect: a path needs a host before it. *)
LEMMA ReadSecondSlash ==
  ASSUME Reading, HasScheme(url), current_pos = FirstColon(url) + 2, At(current_pos) = "/"
  PROVE  AuthorityAsRead' /\ TailAsRead'
<1>1. /\ Layout(url) /\ PosInts /\ CursorMoves(At(current_pos))
      /\ special_char_after_colons_pos \in Int
  BY ReadingIs
<1>2. url' = url /\ current_pos' = current_pos + 1 /\ current_pos \in Nat /\ nb_slashes' > 0
  BY <1>1 DEF CursorMoves
<1> DEFINE k == current_pos
<1>3. /\ SchemeAt(url, k) = 0 /\ SchemeAt(url, k + 1) = 0
      /\ HierarchicalAt(url, k + 1) = HierarchicalAt(url, k)
      /\ CredentialAt(url, k + 1) = CredentialAt(url, k)
      /\ HostAt(url, k) = -1 /\ HostAt(url, k + 1) = -1
      /\ PortAt(url, k + 1) = PortAt(url, k)
      /\ ~InUserinfo(url, k) /\ ~InUserinfo(url, k + 1)
      /\ Opened(url, k + 1) /\ Opened(url, k)
      /\ ~InBrackets(url, k) /\ ~InBrackets(url, k + 1)
      /\ k < AuthorityEnd(url)
  <2>1. /\ Opened(url, k + 1) /\ Opened(url, k) /\ k < AuthorityEnd(url)
        /\ ~InUserinfo(url, k) /\ ~InUserinfo(url, k + 1)
        /\ ~InBrackets(url, k) /\ ~InBrackets(url, k + 1)
    BY SMTT(30), <1>1, <1>2 DEF Layout, InUserinfo, Opened, InBrackets
  <2>2. /\ CredentialAt(url, k + 1) = -1 /\ CredentialAt(url, k) = -1
        /\ PortAt(url, k + 1) = -1 /\ PortAt(url, k) = -1
    <3>1. HasUserinfo(url) => ~(k > AtSign(url)) /\ ~(k + 1 > AtSign(url))
      BY SMTT(30), <1>1, <1>2 DEF Layout
    <3>2. HasPort(url) => ~(k > HostColon(url)) /\ ~(k + 1 > HostColon(url))
      BY SMTT(30), <1>1, <1>2 DEF Layout
    <3> QED BY <3>1, <3>2 DEF CredentialAt, PortAt, StartIf
  <2>3. HostAt(url, k) = -1 /\ HostAt(url, k + 1) = -1
    BY SMTT(30), <1>1, <1>2, <2>1 DEF Layout, HostAt, StartIf
  <2> QED BY <2>1, <2>2, <2>3 DEF SchemeAt, HierarchicalAt, StartIf
<1>4. CharAt(url, k - 1) = "/"
  <2>1. k - 1 = FirstColon(url) + 1 BY SMTT(30), <1>1, <1>2 DEF Layout
  <2> QED BY <2>1, ReadingIs, SchemeOfRegular DEF Reading, SchemeIs
<1>5. last_slash_meaning # "AFTER_DOMAIN" BY SMTT(30), <1>1, <1>2, <1>3 DEF Reading, TailAsRead, Layout
<1>6. ReadSlash
  BY <1>3, <1>4, SwitchIs DEF Reading, AuthorityAsRead, ReadEscapedSlash, EscapedSlash,
     ReadOpeningSlash, OpeningSlash, At
<1>7. pos' = pos /\ Kept /\ UNCHANGED <<host_is_ipv6, special_char_after_colons_pos>>
  BY <1>3, <1>5, <1>6 DEF Reading, AuthorityAsRead, ReadSlash, AuthorityMayEnd, Exist, Kept
<1>8. AuthorityAsRead'
  BY <1>1, <1>2, <1>3, <1>7 DEF Reading, AuthorityAsRead, PortAsRead, CursorMoves
<1>9. TailAsRead' BY <1>3, <1>7, BeforeTail DEF Kept
<1> QED BY <1>8, <1>9

(* The ':' of a userinfo looks like that of a port, and is forgotten at    *)
(* the '@'.                                                                *)
LEMMA ReadUserColon ==
  ASSUME Reading, HasUserinfo(url), current_pos \in AuthorityStart(url) .. AtSign(url) - 1,
         current_pos = UserColon(url), At(current_pos) = ":"
  PROVE  AuthorityAsRead' /\ TailAsRead'
<1>1. /\ Layout(url) /\ PosInts /\ CursorMoves(At(current_pos))
      /\ special_char_after_colons_pos \in Int
  BY ReadingIs
<1>2. url' = url /\ current_pos' = current_pos + 1 /\ current_pos \in Nat BY <1>1 DEF CursorMoves
<1> DEFINE k == current_pos
<1>3. /\ SchemeAt(url, k + 1) = SchemeAt(url, k)
      /\ HierarchicalAt(url, k + 1) = HierarchicalAt(url, k)
      /\ CredentialAt(url, k + 1) = CredentialAt(url, k)
      /\ HostAt(url, k + 1) = HostAt(url, k) /\ HostAt(url, k) >= 0
      /\ InUserinfo(url, k) /\ InUserinfo(url, k + 1)
      /\ Opened(url, k + 1) <=> Opened(url, k)
      /\ ~InBrackets(url, k) /\ ~InBrackets(url, k + 1)
      /\ k + 1 < AuthorityEnd(url) /\ k + 1 # AtSign(url)
  <2>1. /\ (Opened(url, k) <=> HasScheme(url)) /\ (Opened(url, k + 1) <=> HasScheme(url))
        /\ k + 1 < AuthorityEnd(url) /\ k + 1 # AtSign(url)
        /\ InUserinfo(url, k) /\ InUserinfo(url, k + 1)
        /\ ~InBrackets(url, k) /\ ~InBrackets(url, k + 1)
    BY <1>1, <1>2 DEF Layout, InUserinfo, Opened, InBrackets
  <2>2. CredentialAt(url, k + 1) = -1 /\ CredentialAt(url, k) = -1
    BY <1>1, <1>2 DEF Layout, CredentialAt, StartIf
  <2>3. /\ HostAt(url, k) = AuthorityStart(url) /\ HostAt(url, k + 1) = AuthorityStart(url)
        /\ AuthorityStart(url) >= 0
    BY <1>1, <1>2, <2>1 DEF Layout, HostAt
  <2> QED BY <2>1, <2>2, <2>3 DEF SchemeAt, HierarchicalAt, StartIf
<1>4. ReadColon BY <1>3, SwitchIs DEF Reading, AuthorityAsRead
<1>5. At(current_pos + 1) \in Name
  BY <1>1, <1>2, ReadingIs, UserinfoOfRegular DEF Reading, UserinfoIs, At, Layout
<1>6. last_slash_meaning # "AFTER_DOMAIN" /\ pos["port"] = -1
  BY <1>1, <1>2, <1>3 DEF Reading, TailAsRead, AuthorityAsRead, PortAsRead, Layout
<1>7. ":" \notin Name BY DEF Name, Letters, Digits
<1>8. /\ pos'["scheme"] = pos["scheme"] /\ pos'["hierarchical"] = pos["hierarchical"]
      /\ pos'["credential"] = pos["credential"] /\ pos'["host"] = pos["host"] /\ Kept
      /\ special_char_after_colons_pos' \in {k + 1, special_char_after_colons_pos}
      /\ ~host_is_ipv6'
  BY <1>1, <1>4, <1>5, <1>6, <1>7 DEF ReadColon, Kept, PosInts, Fields
<1>9. nb_slashes' = nb_slashes BY <1>4 DEF ReadColon, Switch, Read
<1>10. current_pos' > UserColon(url) BY <1>2
<1>11. AuthorityAsRead'
  BY <1>2, <1>3, <1>8, <1>9, <1>10 DEF Reading, AuthorityAsRead, PortAsRead
<1>12. TailAsRead' BY <1>1, <1>2, <1>3, <1>8, BeforeTail DEF Kept, Layout
<1> QED BY <1>11, <1>12

(* The '@' makes the host a credential and the port a password. *)
LEMMA ReadAtSign ==
  ASSUME Reading, HasUserinfo(url), current_pos = AtSign(url), At(current_pos) = "@"
  PROVE  AuthorityAsRead' /\ TailAsRead'
<1>1. /\ Layout(url) /\ PosInts /\ CursorMoves(At(current_pos))
      /\ special_char_after_colons_pos \in Int
  BY ReadingIs
<1>2. url' = url /\ current_pos' = current_pos + 1 /\ current_pos \in Nat BY <1>1 DEF CursorMoves
<1> DEFINE k == current_pos
<1>3. /\ SchemeAt(url, k + 1) = SchemeAt(url, k)
      /\ HierarchicalAt(url, k + 1) = HierarchicalAt(url, k)
      /\ CredentialAt(url, k) = -1 /\ CredentialAt(url, k + 1) = HostAt(url, k)
      /\ HostAt(url, k + 1) = k + 1 /\ PortAt(url, k + 1) = -1
      /\ ~InUserinfo(url, k + 1)
      /\ Opened(url, k + 1) <=> Opened(url, k)
      /\ ~InBrackets(url, k) /\ ~InBrackets(url, k + 1)
      /\ k < AuthorityEnd(url)
  <2>1. /\ (Opened(url, k) <=> HasScheme(url)) /\ (Opened(url, k + 1) <=> HasScheme(url))
        /\ k < AuthorityEnd(url)
        /\ InUserinfo(url, k) /\ ~InUserinfo(url, k + 1)
        /\ ~InBrackets(url, k) /\ ~InBrackets(url, k + 1)
    BY <1>1, <1>2 DEF Layout, InUserinfo, Opened, InBrackets
  <2>2. /\ CredentialAt(url, k + 1) = AuthorityStart(url) /\ CredentialAt(url, k) = -1
        /\ PortAt(url, k + 1) = -1
    BY <1>1, <1>2 DEF Layout, CredentialAt, PortAt, StartIf
  <2>3. HostAt(url, k) = AuthorityStart(url) /\ HostAt(url, k + 1) = k + 1
    BY <1>1, <1>2, <2>1 DEF Layout, HostAt
  <2> QED BY <2>1, <2>2, <2>3 DEF SchemeAt, HierarchicalAt, StartIf
<1>4. ReadAt BY <1>3, SwitchIs DEF Reading, AuthorityAsRead
<1>5. At(current_pos - 1) # "@"
  <2>1. CharAt(url, AtSign(url) - 1) \in Name
    BY ReadingIs, UserinfoOfRegular DEF Reading, UserinfoIs
  <2>2. "@" \notin Name BY DEF Name, Letters, Digits
  <2> QED BY <2>1, <2>2 DEF At
<1>6. /\ BeforeDomainEnds /\ special_char_after_colons_pos # k /\ ~Exist("credential")
  BY <1>1, <1>2, <1>3
     DEF Reading, TailAsRead, AuthorityAsRead, Layout, BeforeDomainEnds, Exist
<1>7. /\ pos'["scheme"] = pos["scheme"] /\ pos'["hierarchical"] = pos["hierarchical"]
      /\ pos'["credential"] = pos["host"] /\ pos'["host"] = k + 1 /\ pos'["port"] = -1
      /\ Kept /\ UNCHANGED <<host_is_ipv6, special_char_after_colons_pos>>
  BY <1>1, <1>4, <1>5, <1>6 DEF ReadAt, Kept, PosInts, Fields, BeforeDomainEnds
<1>8. nb_slashes' = nb_slashes BY <1>4 DEF ReadAt, Switch, Read
<1>9. AuthorityAsRead'
  BY <1>2, <1>3, <1>7, <1>8 DEF Reading, AuthorityAsRead, PortAsRead
<1>10. TailAsRead' BY <1>3, <1>7, BeforeTail DEF Kept
<1> QED BY <1>9, <1>10

(* The '[' starts a host. *)
LEMMA ReadHostOpens ==
  ASSUME Reading, Bracketed(url), current_pos = HostStart(url), At(current_pos) = "["
  PROVE  AuthorityAsRead' /\ TailAsRead'
<1>1. /\ Layout(url) /\ PosInts /\ CursorMoves(At(current_pos))
      /\ special_char_after_colons_pos \in Int
  BY ReadingIs
<1>2. url' = url /\ current_pos' = current_pos + 1 /\ current_pos \in Nat BY <1>1 DEF CursorMoves
<1> DEFINE k == current_pos
<1>3. /\ SchemeAt(url, k + 1) = SchemeAt(url, k)
      /\ HierarchicalAt(url, k + 1) = HierarchicalAt(url, k)
      /\ CredentialAt(url, k + 1) = CredentialAt(url, k)
      /\ HostAt(url, k) = -1 /\ HostAt(url, k + 1) = k
      /\ PortAt(url, k + 1) = PortAt(url, k)
      /\ ~InUserinfo(url, k) /\ ~InUserinfo(url, k + 1)
      /\ Opened(url, k + 1) <=> Opened(url, k)
      /\ ~InBrackets(url, k) /\ InBrackets(url, k + 1)
      /\ k < AuthorityEnd(url)
  <2>1. /\ (Opened(url, k) <=> HasScheme(url)) /\ (Opened(url, k + 1) <=> HasScheme(url))
        /\ k < AuthorityEnd(url)
        /\ ~InUserinfo(url, k) /\ ~InUserinfo(url, k + 1)
        /\ ~InBrackets(url, k) /\ InBrackets(url, k + 1)
    BY SMTT(30), <1>1, <1>2 DEF Layout, InUserinfo, Opened, InBrackets
  <2>2. /\ CredentialAt(url, k + 1) = -1 /\ CredentialAt(url, k) = -1
        /\ PortAt(url, k + 1) = -1 /\ PortAt(url, k) = -1
    <3>1. HasUserinfo(url) => ~(k > AtSign(url)) /\ ~(k + 1 > AtSign(url))
      BY <1>1, <1>2 DEF Layout
    <3>2. HasPort(url) => ~(k > HostColon(url)) /\ ~(k + 1 > HostColon(url))
      BY <1>1, <1>2 DEF Layout
    <3> QED BY <3>1, <3>2 DEF CredentialAt, PortAt, StartIf
  <2>3. HostAt(url, k) = -1 /\ HostAt(url, k + 1) = k
    BY <1>1, <1>2, <2>1 DEF Layout, HostAt, StartIf
  <2> QED BY <2>1, <2>2, <2>3 DEF SchemeAt, HierarchicalAt, StartIf
<1>4. ReadOpenBracket BY <1>3, SwitchIs DEF Reading, AuthorityAsRead
<1>5. ~Exist("host") BY <1>3 DEF Reading, AuthorityAsRead, Exist
<1>6. last_slash_meaning # "AFTER_DOMAIN" BY <1>1, <1>2, <1>3 DEF Reading, TailAsRead, Layout
<1>7. /\ pos'["scheme"] = pos["scheme"] /\ pos'["hierarchical"] = pos["hierarchical"]
      /\ pos'["credential"] = pos["credential"] /\ pos'["host"] = k /\ pos'["port"] = pos["port"]
      /\ Kept /\ host_is_ipv6' /\ UNCHANGED special_char_after_colons_pos
  BY <1>1, <1>4, <1>5, <1>6 DEF ReadOpenBracket, Kept, PosInts, Fields
<1>8. nb_slashes' = nb_slashes BY <1>4 DEF ReadOpenBracket, Switch, Read
<1>9. AuthorityAsRead'
  BY <1>2, <1>3, <1>7, <1>8 DEF Reading, AuthorityAsRead, PortAsRead
<1>10. TailAsRead' BY <1>3, <1>7, BeforeTail DEF Kept
<1> QED BY <1>9, <1>10

(* What is inside of the brackets is skipped. *)
LEMMA ReadInBrackets ==
  ASSUME Reading, Bracketed(url), current_pos \in HostStart(url) + 1 .. HostStop(url) - 2,
         At(current_pos) \in Chars \ {"]"}
  PROVE  AuthorityAsRead' /\ TailAsRead'
<1>1. /\ Layout(url) /\ PosInts /\ CursorMoves(At(current_pos))
      /\ special_char_after_colons_pos \in Int
  BY ReadingIs
<1>2. /\ url' = url /\ current_pos' = current_pos + 1 /\ current_pos \in Nat
      /\ nb_slashes' \in Nat /\ nb_slashes' >= nb_slashes /\ nb_slashes \in Nat
  BY <1>1 DEF CursorMoves
<1> DEFINE k == current_pos
<1>3. /\ SchemeAt(url, k + 1) = SchemeAt(url, k)
      /\ HierarchicalAt(url, k + 1) = HierarchicalAt(url, k)
      /\ CredentialAt(url, k + 1) = CredentialAt(url, k)
      /\ HostAt(url, k + 1) = HostAt(url, k)
      /\ PortAt(url, k + 1) = PortAt(url, k)
      /\ ~InUserinfo(url, k) /\ ~InUserinfo(url, k + 1)
      /\ (Opened(url, k) <=> HasScheme(url)) /\ (Opened(url, k + 1) <=> HasScheme(url))
      /\ InBrackets(url, k) /\ InBrackets(url, k + 1)
      /\ k < AuthorityEnd(url)
  <2>1. /\ (Opened(url, k) <=> HasScheme(url)) /\ (Opened(url, k + 1) <=> HasScheme(url))
        /\ k < AuthorityEnd(url)
        /\ ~InUserinfo(url, k) /\ ~InUserinfo(url, k + 1)
        /\ InBrackets(url, k) /\ InBrackets(url, k + 1)
    <3>1. k > HostStart(url) /\ k + 1 < HostStop(url) /\ k >= AuthorityStart(url) /\ ~HasUserinfo(url)
      BY SMTT(30), <1>1, <1>2 DEF Layout
    <3> QED BY SMTT(30), <1>1, <1>2, <3>1 DEF Layout, InUserinfo, Opened, InBrackets
  <2>2. /\ CredentialAt(url, k + 1) = -1 /\ CredentialAt(url, k) = -1
        /\ PortAt(url, k + 1) = -1 /\ PortAt(url, k) = -1
    BY <1>1, <1>2 DEF Layout, CredentialAt, PortAt, StartIf
  <2>3. HostAt(url, k) = HostStart(url) /\ HostAt(url, k + 1) = HostStart(url)
    BY SMTT(30), <1>1, <1>2, <2>1 DEF Layout, HostAt
  <2> QED BY <2>1, <2>2, <2>3 DEF SchemeAt, HierarchicalAt, StartIf
<1>4. SkipBracketed BY <1>3, SwitchIs DEF Reading, AuthorityAsRead
<1>5. last_slash_meaning # "AFTER_DOMAIN" BY <1>1, <1>2, <1>3 DEF Reading, TailAsRead, Layout
<1>6. pos' = pos /\ Kept /\ UNCHANGED <<host_is_ipv6, special_char_after_colons_pos>>
  BY <1>4, <1>5 DEF SkipBracketed, Kept
<1>7. AuthorityAsRead'
  BY <1>2, <1>3, <1>6 DEF Reading, AuthorityAsRead, PortAsRead
<1>8. TailAsRead' BY <1>3, <1>6, BeforeTail DEF Kept
<1> QED BY <1>7, <1>8

(* The ']' ends the host. *)
LEMMA ReadHostCloses ==
  ASSUME Reading, Bracketed(url), current_pos = HostStop(url) - 1, At(current_pos) = "]"
  PROVE  AuthorityAsRead' /\ TailAsRead'
<1>1. /\ Layout(url) /\ PosInts /\ CursorMoves(At(current_pos))
      /\ special_char_after_colons_pos \in Int
  BY ReadingIs
<1>2. url' = url /\ current_pos' = current_pos + 1 /\ current_pos \in Nat BY <1>1 DEF CursorMoves
<1> DEFINE k == current_pos
<1>3. /\ SchemeAt(url, k + 1) = SchemeAt(url, k)
      /\ HierarchicalAt(url, k + 1) = HierarchicalAt(url, k)
      /\ CredentialAt(url, k + 1) = CredentialAt(url, k)
      /\ HostAt(url, k + 1) = HostAt(url, k)
      /\ PortAt(url, k + 1) = PortAt(url, k)
      /\ ~InUserinfo(url, k) /\ ~InUserinfo(url, k + 1)
      /\ Opened(url, k + 1) <=> Opened(url, k)
      /\ ~InBrackets(url, k + 1)
      /\ k < AuthorityEnd(url)
  <2>1. /\ (Opened(url, k) <=> HasScheme(url)) /\ (Opened(url, k + 1) <=> HasScheme(url))
        /\ k < AuthorityEnd(url)
        /\ ~InUserinfo(url, k) /\ ~InUserinfo(url, k + 1) /\ ~InBrackets(url, k + 1)
    BY SMTT(30), <1>1, <1>2 DEF Layout, InUserinfo, Opened, InBrackets
  <2>2. /\ CredentialAt(url, k + 1) = -1 /\ CredentialAt(url, k) = -1
        /\ PortAt(url, k + 1) = -1 /\ PortAt(url, k) = -1
    <3>1. ~HasUserinfo(url) /\ (HasPort(url) => HostColon(url) = k + 1) BY <1>1, <1>2 DEF Layout
    <3> QED BY <1>2, <3>1 DEF CredentialAt, PortAt, StartIf
  <2>3. HostAt(url, k) = HostStart(url) /\ HostAt(url, k + 1) = HostStart(url)
    BY <1>1, <1>2, <2>1 DEF Layout, HostAt
  <2> QED BY <2>1, <2>2, <2>3 DEF SchemeAt, HierarchicalAt, StartIf
<1>4. ReadCloseBracket BY SwitchIs
<1>5. last_slash_meaning # "AFTER_DOMAIN" BY <1>1, <1>2, <1>3 DEF Reading, TailAsRead, Layout
<1>6. pos' = pos /\ Kept /\ ~host_is_ipv6' /\ UNCHANGED special_char_after_colons_pos
  BY <1>4, <1>5 DEF ReadCloseBracket, Kept
<1>7. nb_slashes' = nb_slashes BY <1>4 DEF ReadCloseBracket, Switch, Read
<1>8. AuthorityAsRead'
  BY <1>2, <1>3, <1>6, <1>7 DEF Reading, AuthorityAsRead, PortAsRead
<1>9. TailAsRead' BY <1>3, <1>6, BeforeTail DEF Kept
<1> QED BY <1>8, <1>9

(* The ':' behind the host starts the port. *)
LEMMA ReadHostColon ==
  ASSUME Reading, HasPort(url), current_pos = HostColon(url), At(current_pos) = ":"
  PROVE  AuthorityAsRead' /\ TailAsRead'
<1>1. /\ Layout(url) /\ PosInts /\ CursorMoves(At(current_pos))
      /\ special_char_after_colons_pos \in Int
  BY ReadingIs
<1>2. url' = url /\ current_pos' = current_pos + 1 /\ current_pos \in Nat BY <1>1 DEF CursorMoves
<1> DEFINE k == current_pos
<1>3. /\ SchemeAt(url, k + 1) = SchemeAt(url, k)
      /\ HierarchicalAt(url, k + 1) = HierarchicalAt(url, k)
      /\ CredentialAt(url, k + 1) = CredentialAt(url, k)
      /\ HostAt(url, k + 1) = HostAt(url, k)
      /\ PortAt(url, k) = -1 /\ PortAt(url, k + 1) = k + 1
      /\ ~InUserinfo(url, k) /\ ~InUserinfo(url, k + 1)
      /\ Opened(url, k + 1) <=> Opened(url, k)
      /\ ~InBrackets(url, k) /\ ~InBrackets(url, k + 1)
      /\ k < AuthorityEnd(url)
  <2>1. /\ (Opened(url, k) <=> HasScheme(url)) /\ (Opened(url, k + 1) <=> HasScheme(url))
        /\ k < AuthorityEnd(url)
        /\ ~InUserinfo(url, k) /\ ~InUserinfo(url, k + 1)
        /\ ~InBrackets(url, k) /\ ~InBrackets(url, k + 1)
    BY <1>1, <1>2 DEF Layout, InUserinfo, Opened, InBrackets
  <2>2. /\ CredentialAt(url, k + 1) = StartIf(HasUserinfo(url), AuthorityStart(url))
        /\ CredentialAt(url, k) = StartIf(HasUserinfo(url), AuthorityStart(url))
        /\ PortAt(url, k + 1) = k + 1 /\ PortAt(url, k) = -1
    BY <1>1, <1>2 DEF Layout, CredentialAt, PortAt, StartIf
  <2>3. HostAt(url, k) = HostStart(url) /\ HostAt(url, k + 1) = HostStart(url)
    BY <1>1, <1>2, <2>1 DEF Layout, HostAt
  <2> QED BY <2>1, <2>2, <2>3 DEF SchemeAt, HierarchicalAt, StartIf
<1>4. ReadColon BY <1>3, SwitchIs DEF Reading, AuthorityAsRead
<1>5. IsAlnum(At(current_pos + 1))
  <2>1. current_pos + 1 \in HostColon(url) + 1 .. AuthorityEnd(url) - 1 BY <1>1, <1>2 DEF Layout
  <2>2. At(current_pos + 1) \in Digits
    BY <2>1, ReadingIs, HostOfRegular DEF Reading, PortIs, At
  <2> QED BY <2>2, CharKinds
<1>6. BeforeDomainEnds /\ ~Exist("port")
  BY <1>1, <1>2, <1>3
     DEF Reading, TailAsRead, AuthorityAsRead, PortAsRead, Layout, BeforeDomainEnds, Exist
<1>7. ~IsAlnum(":") BY DEF IsAlnum, Letters, Digits
<1>8. /\ pos'["scheme"] = pos["scheme"] /\ pos'["hierarchical"] = pos["hierarchical"]
      /\ pos'["credential"] = pos["credential"] /\ pos'["host"] = pos["host"]
      /\ pos'["port"] = k + 1 /\ Kept
      /\ ~host_is_ipv6' /\ UNCHANGED special_char_after_colons_pos
  BY <1>1, <1>4, <1>5, <1>6, <1>7 DEF ReadColon, Kept, PosInts, Fields, BeforeDomainEnds
<1>9. nb_slashes' = nb_slashes BY <1>4 DEF ReadColon, Switch, Read
<1>10. AuthorityAsRead'
  BY <1>2, <1>3, <1>8, <1>9 DEF Reading, AuthorityAsRead, PortAsRead
<1>11. TailAsRead' BY <1>3, <1>8, BeforeTail DEF Kept
<1> QED BY <1>10, <1>11

(* A delimiter starts its part if it is the first of its kind. *)
StartsPart(before, after, k) ==
  (before = -1 /\ after = k) \/ (before >= 0 /\ after = before)

TailMoves(u, k) ==
  LET c == CharAt(u, k)
  IN /\ c \in {"/", "@", ":"} => HasPath(u)
     /\ HasPath(u) /\ k = AuthorityEnd(u) => c = "/"
     /\ c # "/" => PathAt(u, k + 1) = PathAt(u, k)
     /\ c = "/" => IF k = AuthorityEnd(u) THEN PathAt(u, k) = -1 /\ PathAt(u, k + 1) = k
                   ELSE PathAt(u, k) >= 0 /\ PathAt(u, k + 1) = PathAt(u, k)
     /\ ~HasPath(u) => PathAt(u, k) = -1
     /\ c # "?" => QueryAt(u, k + 1) = QueryAt(u, k)
     /\ c = "?" => StartsPart(QueryAt(u, k), QueryAt(u, k + 1), k)
     /\ c # "#" => FragmentAt(u, k + 1) = FragmentAt(u, k)
     /\ c = "#" => StartsPart(FragmentAt(u, k), FragmentAt(u, k + 1), k)

LEMMA TailMovesBy ==
  ASSUME NEW u \in Seq(Chars), Regular(u), NEW k \in AuthorityEnd(u) .. Len(u) - 1
  PROVE  TailMoves(u, k)
<1>1. Layout(u) /\ TailIs(u) BY LayoutOfRegular, TailOfRegular
<1>2. k \in Int /\ k >= AuthorityEnd(u) /\ k < Len(u) /\ AuthorityEnd(u) > 0 BY <1>1 DEF Layout
<1>3. CharAt(u, k) \in {"/", "@", ":"} => HasPath(u)
  BY <1>1, <1>2 DEF TailIs
<1>4. HasPath(u) /\ k = AuthorityEnd(u) => CharAt(u, k) = "/" BY DEF HasPath
<1>5. /\ CharAt(u, k) # "/" => PathAt(u, k + 1) = PathAt(u, k)
      /\ CharAt(u, k) = "/" => IF k = AuthorityEnd(u) THEN PathAt(u, k) = -1 /\ PathAt(u, k + 1) = k
                               ELSE PathAt(u, k) >= 0 /\ PathAt(u, k + 1) = PathAt(u, k)
      /\ ~HasPath(u) => PathAt(u, k) = -1
  BY <1>1, <1>2, <1>3, <1>4 DEF Layout, PathAt, StartIf
<1>6. CharAt(u, k) # "?" => QueryAt(u, k + 1) = QueryAt(u, k)
  <2>1. HasQuery(u) /\ k = QueryStart(u) => CharAt(u, k) = "?" BY DEF HasQuery
  <2> QED BY <1>1, <1>2, <2>1 DEF Layout, QueryAt, StartIf
<1>7. ASSUME CharAt(u, k) = "?" PROVE StartsPart(QueryAt(u, k), QueryAt(u, k + 1), k)
  <2>1. HasQuery(u) BY <1>1, <1>2, <1>7 DEF TailIs
  <2>2. k >= QueryStart(u)
    <3> SUFFICES ASSUME k < QueryStart(u) PROVE FALSE BY <1>1, <1>2 DEF Layout
    <3>1. k \in AuthorityEnd(u) .. QueryStart(u) - 1 BY <1>1, <1>2 DEF Layout
    <3> QED BY <1>1, <1>7, <3>1 DEF TailIs
  <2> QED BY <1>1, <1>2, <2>1, <2>2 DEF Layout, QueryAt, StartIf, StartsPart
<1>8. CharAt(u, k) # "#" => FragmentAt(u, k + 1) = FragmentAt(u, k)
  <2>1. HasFragment(u) /\ k = FragmentStart(u) => CharAt(u, k) = "#" BY <1>1 DEF TailIs
  <2> QED BY <1>1, <1>2, <2>1 DEF Layout, FragmentAt, StartIf
<1>9. ASSUME CharAt(u, k) = "#" PROVE StartsPart(FragmentAt(u, k), FragmentAt(u, k + 1), k)
  <2>1. k >= FragmentStart(u)
    <3> SUFFICES ASSUME k < FragmentStart(u) PROVE FALSE BY <1>1, <1>2 DEF Layout
    <3>1. k \in AuthorityEnd(u) .. FragmentStart(u) - 1 BY <1>1, <1>2 DEF Layout
    <3> QED BY <1>1, <1>9, <3>1 DEF TailIs
  <2>2. HasFragment(u) BY <1>1, <1>2, <2>1 DEF Layout, HasFragment
  <2> QED BY <1>1, <1>2, <2>1, <2>2 DEF Layout, FragmentAt, StartIf, StartsPart
<1> QED BY <1>3, <1>4, <1>5, <1>6, <1>7, <1>8, <1>9 DEF TailMoves

(* A step of the tail.                                                     *)
InTail == Reading /\ current_pos >= AuthorityEnd(url)

LEMMA InTailIs ==
  ASSUME InTail
  PROVE  /\ TailMoves(url, current_pos)
         /\ current_pos > 0 /\ pos["host"] >= 0 /\ ~host_is_ipv6
         /\ special_char_after_colons_pos # current_pos
         /\ AuthorityMayEnd
         /\ current_pos > AuthorityEnd(url) \/ current_pos = AuthorityEnd(url)
<1>1. /\ Layout(url) /\ PosInts /\ CursorMoves(At(current_pos))
      /\ special_char_after_colons_pos \in Int
      /\ current_pos \in 0 .. Len(url) - 1 /\ url \in Seq(Chars)
  BY ReadingIs DEF InTail
<1>2. current_pos \in Nat /\ current_pos \in AuthorityEnd(url) .. Len(url) - 1
  BY <1>1 DEF Layout, InTail
<1>3. TailMoves(url, current_pos) BY <1>1, <1>2, TailMovesBy DEF InTail, Reading
<1>4. /\ HostAt(url, current_pos) = HostStart(url) /\ HostStart(url) >= 0 /\ current_pos > 0
      /\ ~InBrackets(url, current_pos)
  BY SMTT(30), <1>1, <1>2 DEF Layout, HostAt, InUserinfo, InBrackets
<1>5. Exist("scheme") \/ ~Exist("hierarchical")
  BY DEF InTail, Reading, AuthorityAsRead, Exist, SchemeAt, HierarchicalAt, StartIf
<1>6. special_char_after_colons_pos # current_pos
  BY <1>1, <1>2 DEF InTail, Reading, AuthorityAsRead, Layout
<1>7. current_pos > AuthorityEnd(url) \/ current_pos = AuthorityEnd(url) BY <1>1, <1>2 DEF Layout
<1> QED BY <1>3, <1>4, <1>5, <1>6, <1>7 DEF InTail, Reading, AuthorityAsRead, AuthorityMayEnd, Exist

LEMMA AuthorityStays ==
  ASSUME InTail, pos'["scheme"] = pos["scheme"], pos'["hierarchical"] = pos["hierarchical"],
         pos'["credential"] = pos["credential"], pos'["host"] = pos["host"],
         pos'["port"] = pos["port"], ~host_is_ipv6', UNCHANGED special_char_after_colons_pos
  PROVE  AuthorityAsRead'
<1>1. Layout(url) /\ CursorMoves(At(current_pos)) BY ReadingIs DEF InTail
<1>2. /\ url' = url /\ current_pos' = current_pos + 1 /\ current_pos \in Nat
      /\ nb_slashes' \in Nat /\ nb_slashes' >= nb_slashes /\ nb_slashes \in Nat
  BY <1>1 DEF CursorMoves
<1> DEFINE k == current_pos
<1>3. /\ (Opened(url, k) <=> HasScheme(url)) /\ (Opened(url, k + 1) <=> HasScheme(url))
      /\ ~InUserinfo(url, k) /\ ~InUserinfo(url, k + 1) /\ ~InBrackets(url, k + 1)
  BY SMTT(30), <1>1, <1>2 DEF Layout, InTail, InUserinfo, Opened, InBrackets
<1>4. CredentialAt(url, k + 1) = CredentialAt(url, k) /\ PortAt(url, k + 1) = PortAt(url, k)
  BY SMTT(30), <1>1, <1>2 DEF Layout, InTail, CredentialAt, PortAt, StartIf
<1>5. HostAt(url, k) = HostAt(url, k + 1)
  BY <1>1, <1>2, <1>3 DEF Layout, InTail, HostAt
<1>6. SchemeAt(url, k + 1) = SchemeAt(url, k) /\ HierarchicalAt(url, k + 1) = HierarchicalAt(url, k)
  BY <1>3 DEF SchemeAt, HierarchicalAt, StartIf
<1> QED BY <1>2, <1>3, <1>4, <1>5, <1>6 DEF InTail, Reading, AuthorityAsRead, PortAsRead

(* A delimiter of the authority behind the path has no effect any more.    *)
LEMMA PathIsBehind ==
  ASSUME InTail, At(current_pos) \in {"/", "@", ":"}
  PROVE  current_pos > AuthorityEnd(url) => ~BeforeDomainEnds /\ nb_slashes > 0
<1>1. HasPath(url) BY InTailIs DEF TailMoves, At
<1> QED BY <1>1 DEF InTail, Reading, TailAsRead, BeforeDomainEnds

(* What is left to show of a step of the tail when the authority stays.    *)
TailStarts ==
  /\ pos'["resource_path"] = PathAt(url, current_pos + 1)
  /\ pos'["query_string"] = QueryAt(url, current_pos + 1)
  /\ pos'["fragment"] = FragmentAt(url, current_pos + 1)
  /\ HasPath(url) => last_slash_meaning' = "AFTER_DOMAIN"

LEMMA TailStays ==
  ASSUME InTail, TailStarts PROVE TailAsRead'
<1>1. Layout(url) /\ CursorMoves(At(current_pos)) BY ReadingIs DEF InTail
<1>2. /\ url' = url /\ current_pos' = current_pos + 1 /\ current_pos \in Nat
      /\ nb_slashes' \in Nat /\ nb_slashes' >= nb_slashes /\ nb_slashes \in Nat
      /\ At(current_pos) = "/" => nb_slashes' > 0
  BY <1>1 DEF CursorMoves
<1>3. ~(current_pos + 1 <= AuthorityEnd(url)) BY <1>1, <1>2 DEF InTail, Layout
<1>4. HasPath(url) => nb_slashes' > 0
  <2>1. CASE current_pos > AuthorityEnd(url) BY <1>2, <2>1 DEF InTail, Reading, TailAsRead
  <2>2. CASE current_pos = AuthorityEnd(url) BY <1>2, <2>2, InTailIs DEF TailMoves, At
  <2> QED BY <2>1, <2>2, InTailIs
<1> QED BY <1>2, <1>3, <1>4 DEF TailAsRead, TailStarts

(* In front of the tail there is no backslash and no ':'. *)
LEMMA PathFollowsHost ==
  ASSUME NEW u \in Seq(Chars), Regular(u), CharAt(u, AuthorityEnd(u) - 1) \in {"\\", ":"}
  PROVE  FALSE
<1>1. Layout(u) /\ HostIsIn(u) /\ PortIs(u) BY LayoutOfRegular, HostOfRegular
<1> DEFINE k == AuthorityEnd(u) - 1
<1>2. CASE HasPort(u)
  <2>1. k \in HostColon(u) + 1 .. AuthorityEnd(u) - 1 BY <1>1, <1>2 DEF Layout
  <2>2. CharAt(u, k) \in Digits BY <1>1, <1>2, <2>1 DEF PortIs
  <2> QED BY <2>2 DEF Digits
<1>3. CASE ~HasPort(u) /\ Bracketed(u)
  <2>1. AuthorityEnd(u) = HostStop(u) BY <1>1, <1>3 DEF Layout
  <2> QED BY <1>1, <1>3, <2>1 DEF HostIsIn
<1>4. CASE ~HasPort(u) /\ ~Bracketed(u)
  <2>1. k \in HostStart(u) .. HostStop(u) - 1 BY <1>1, <1>4 DEF Layout
  <2>2. CharAt(u, k) \in Name BY <1>1, <1>4, <2>1 DEF HostIsIn
  <2> QED BY <2>2 DEF Name, Letters, Digits
<1> QED BY <1>2, <1>3, <1>4

(* Every character of the tail. *)
LEMMA ReadTail ==
  ASSUME InTail PROVE AuthorityAsRead' /\ TailAsRead'
<1>1. /\ PosInts /\ TailMoves(url, current_pos) /\ current_pos > 0 /\ pos["host"] >= 0
      /\ ~host_is_ipv6 /\ special_char_after_colons_pos # current_pos
      /\ AuthorityMayEnd /\ CursorMoves(At(current_pos))
      /\ current_pos > AuthorityEnd(url) \/ current_pos = AuthorityEnd(url)
      /\ AuthorityEnd(url) \in Int /\ current_pos \in Nat /\ url \in Seq(Chars) /\ Regular(url)
  BY InTailIs, ReadingIs DEF InTail, Reading, Layout, CursorMoves
<1>2. /\ pos["resource_path"] = PathAt(url, current_pos)
      /\ pos["query_string"] = QueryAt(url, current_pos)
      /\ pos["fragment"] = FragmentAt(url, current_pos)
      /\ HasPath(url) /\ At(current_pos) # "/" => last_slash_meaning = "AFTER_DOMAIN"
  BY <1>1 DEF InTail, Reading, TailAsRead, TailMoves, At
<1>3. ReadChar BY DEF InTail, Reading
<1>4. SUFFICES /\ pos'["scheme"] = pos["scheme"]
                      /\ pos'["hierarchical"] = pos["hierarchical"]
                      /\ pos'["credential"] = pos["credential"]
                      /\ pos'["host"] = pos["host"] /\ pos'["port"] = pos["port"]
                      /\ ~host_is_ipv6' /\ UNCHANGED special_char_after_colons_pos
                      /\ TailStarts
  BY AuthorityStays, TailStays
<1>5. CASE SkipBracketed BY <1>1, <1>5 DEF SkipBracketed
<1>6. CASE ReadEscapedSlash
  <2>1. At(current_pos) = "/" /\ pos' = pos /\ At(current_pos - 1) = "\\"
        /\ UNCHANGED <<host_is_ipv6, special_char_after_colons_pos, last_slash_meaning>>
    BY <1>6 DEF ReadEscapedSlash, Switch, Read, EscapedSlash
  <2>2. current_pos > AuthorityEnd(url) BY <1>1, <2>1, PathFollowsHost DEF At
  <2> QED BY <1>1, <1>2, <2>1, <2>2, PathIsBehind DEF TailMoves, At, TailStarts, BeforeDomainEnds
<1>7. CASE ReadOpeningSlash
  <2>1. At(current_pos) = "/" /\ nb_slashes = 0 /\ At(current_pos - 1) = ":"
    BY <1>7 DEF ReadOpeningSlash, Switch, Read, OpeningSlash
  <2>2. current_pos > AuthorityEnd(url) BY <1>1, <2>1, PathFollowsHost DEF At
  <2>3. nb_slashes > 0 BY <2>1, <2>2, PathIsBehind
  <2> QED BY <2>1, <2>3
<1>8. CASE ReadSlash
  <2>1. At(current_pos) = "/" BY <1>8 DEF ReadSlash, Switch, Read
  <2>2. Exist("host") BY <1>1 DEF Exist
  <2>3. pos' = (IF PathAt(url, current_pos) >= 0 THEN pos ELSE [pos EXCEPT !["resource_path"] = current_pos])
        /\ UNCHANGED <<host_is_ipv6, special_char_after_colons_pos>>
        /\ last_slash_meaning' = "AFTER_DOMAIN"
    BY <1>1, <1>2, <1>8, <2>2 DEF ReadSlash, Exist
  <2> QED BY <1>1, <1>2, <2>1, <2>3 DEF TailMoves, At, TailStarts, PosInts, Fields
<1>9. CASE ReadAt
  <2>1. At(current_pos) = "@" BY <1>9 DEF ReadAt, Switch, Read
  <2>2. ~BeforeDomainEnds BY <1>1, <1>2, <2>1 DEF TailMoves, At, BeforeDomainEnds
  <2>3. pos' = pos /\ UNCHANGED <<host_is_ipv6, special_char_after_colons_pos, last_slash_meaning>>
    BY <1>9, <2>2 DEF ReadAt
  <2> QED BY <1>1, <1>2, <2>1, <2>3 DEF TailMoves, At, TailStarts
<1>10. CASE ReadColon
  <2>1. At(current_pos) = ":" BY <1>10 DEF ReadColon, Switch, Read
  <2>2. ~BeforeDomainEnds BY <1>1, <1>2, <2>1 DEF TailMoves, At, BeforeDomainEnds
  <2>3. pos' = pos /\ ~host_is_ipv6' /\ UNCHANGED <<special_char_after_colons_pos, last_slash_meaning>>
    BY <1>10, <2>2 DEF ReadColon
  <2> QED BY <1>1, <1>2, <2>1, <2>3 DEF TailMoves, At, TailStarts
<1>11. CASE ReadQuestionMark
  <2>1. At(current_pos) = "?" BY <1>11 DEF ReadQuestionMark, Switch, Read
  <2>2. BeforeDomainEnds => ~Exist("resource_path")
    <3>1. BeforeDomainEnds => ~HasPath(url) BY <1>2, <2>1 DEF BeforeDomainEnds
    <3> QED BY <1>1, <1>2, <3>1 DEF TailMoves, Exist
  <2>3. pos' = (IF QueryAt(url, current_pos) >= 0 THEN pos ELSE [pos EXCEPT !["query_string"] = current_pos])
        /\ UNCHANGED <<host_is_ipv6, special_char_after_colons_pos>>
        /\ last_slash_meaning' = "AFTER_DOMAIN"
    BY <1>1, <1>2, <1>11, <2>2 DEF ReadQuestionMark, Exist
  <2> QED BY <1>1, <1>2, <2>1, <2>3 DEF TailMoves, StartsPart, At, TailStarts, PosInts, Fields
<1>12. CASE ReadHash
  <2>1. At(current_pos) = "#" BY <1>12 DEF ReadHash, Switch, Read
  <2>2. pos' = (IF FragmentAt(url, current_pos) >= 0 THEN pos ELSE [pos EXCEPT !["fragment"] = current_pos])
        /\ UNCHANGED <<host_is_ipv6, special_char_after_colons_pos, last_slash_meaning>>
    BY <1>1, <1>2, <1>12 DEF ReadHash, Exist
  <2> QED BY <1>1, <1>2, <2>1, <2>2 DEF TailMoves, StartsPart, At, TailStarts, PosInts, Fields
<1>13. CASE ReadOpenBracket
  <2>1. At(current_pos) = "[" /\ pos' = pos /\ ~host_is_ipv6'
        /\ UNCHANGED <<special_char_after_colons_pos, last_slash_meaning>>
    BY <1>1, <1>13 DEF ReadOpenBracket, Switch, Read, Exist
  <2> QED BY <1>1, <1>2, <2>1 DEF TailMoves, At, TailStarts
<1>14. CASE ReadCloseBracket
  <2>1. At(current_pos) = "]" /\ pos' = pos /\ ~host_is_ipv6'
        /\ UNCHANGED <<special_char_after_colons_pos, last_slash_meaning>>
    BY <1>14 DEF ReadCloseBracket, Switch, Read
  <2> QED BY <1>1, <1>2, <2>1 DEF TailMoves, At, TailStarts
<1>15. CASE ReadOther
  <2>1. At(current_pos) \in Others /\ pos' = pos
        /\ UNCHANGED <<host_is_ipv6, special_char_after_colons_pos, last_slash_meaning>>
    BY <1>1, <1>15 DEF ReadOther, Switch, Read, Exist
  <2>2. At(current_pos) \notin {"/", "?", "#"} BY <2>1, CharKinds DEF Delimiters
  <2> QED BY <1>1, <1>2, <2>1, <2>2 DEF TailMoves, At, TailStarts
<1> QED BY <1>3, <1>5, <1>6, <1>7, <1>8, <1>9, <1>10, <1>11, <1>12, <1>13, <1>14, <1>15 DEF ReadChar

(* A call starts with nothing found. *)
LEMMA FindFindsNothing ==
  ASSUME NEW u \in Seq(Chars), Find(u) PROVE ReadAsInRfc'
<1>1. SUFFICES ASSUME Regular(u) PROVE AuthorityAsRead' /\ TailAsRead'
  BY DEF ReadAsInRfc, Find
<1>2. Layout(u) BY <1>1, LayoutOfRegular
<1>3. url' = u /\ current_pos' = 0 /\ nb_slashes' = 0 BY DEF Find
<1>4. ~Opened(u, 0) /\ ~InUserinfo(u, 0) /\ ~InBrackets(u, 0)
  BY <1>2 DEF Layout, Opened, InUserinfo, InBrackets
<1>5. CredentialAt(u, 0) = -1 /\ PortAt(u, 0) = -1 /\ PathAt(u, 0) = -1
  BY <1>2 DEF Layout, CredentialAt, PortAt, PathAt, StartIf
<1>6. QueryAt(u, 0) = -1 /\ FragmentAt(u, 0) = -1
  BY <1>2 DEF Layout, QueryAt, FragmentAt, StartIf
<1>7. SchemeAt(u, 0) = -1 /\ HierarchicalAt(u, 0) = -1
  BY <1>4 DEF SchemeAt, HierarchicalAt, StartIf
<1>8. HostAt(u, 0) = -1 BY <1>2, <1>4 DEF Layout, HostAt, StartIf
<1>9. /\ AuthorityEnd(u) > 0 /\ -1 < AuthorityEnd(u) /\ ~(0 > AuthorityEnd(u))
      /\ HasUserinfo(u) => AtSign(u) # -1
  BY <1>2 DEF Layout
<1>10. AuthorityAsRead'
  BY <1>3, <1>4, <1>5, <1>7, <1>8, <1>9 DEF Find, AuthorityAsRead, PortAsRead, Fields
<1>11. TailAsRead' BY <1>3, <1>5, <1>6, <1>9 DEF Find, TailAsRead, Fields
<1> QED BY <1>10, <1>11

(* Whatever the character, what the RFC has the scan find is found.        *)
LEMMA ReadCharAsInRfc == ASSUME TypeOK, ReadAsInRfc, ReadChar PROVE ReadAsInRfc'
<1>1. SUFFICES ASSUME decoded', Regular(url') PROVE AuthorityAsRead' /\ TailAsRead'
  BY DEF ReadAsInRfc
<1>2. \E c : Read(c)
  BY DEF ReadChar, SkipBracketed, ReadEscapedSlash, ReadOpeningSlash, ReadSlash, ReadAt,
       ReadColon, ReadQuestionMark, ReadHash, ReadOpenBracket, ReadCloseBracket, ReadOther, Switch
<1>3. decoded /\ Regular(url) BY <1>1, <1>2 DEF Read
<1>4. Reading BY <1>3 DEF Reading, ReadAsInRfc
<1>5. Layout(url) /\ current_pos \in 0 .. Len(url) - 1 /\ url \in Seq(Chars) BY <1>4, ReadingIs
<1>6. \/ current_pos >= AuthorityEnd(url)
      \/ HasScheme(url) /\ current_pos = FirstColon(url) /\ At(current_pos) = ":"
      \/ HasScheme(url) /\ current_pos = FirstColon(url) + 1 /\ At(current_pos) = "/"
      \/ HasScheme(url) /\ current_pos = FirstColon(url) + 2 /\ At(current_pos) = "/"
      \/ HasUserinfo(url) /\ current_pos = AtSign(url) /\ At(current_pos) = "@"
      \/ /\ HasUserinfo(url) /\ current_pos \in AuthorityStart(url) .. AtSign(url) - 1
         /\ current_pos = UserColon(url) /\ At(current_pos) = ":"
      \/ Bracketed(url) /\ current_pos = HostStart(url) /\ At(current_pos) = "["
      \/ /\ Bracketed(url) /\ current_pos \in HostStart(url) + 1 .. HostStop(url) - 2
         /\ At(current_pos) \in Chars \ {"]"}
      \/ Bracketed(url) /\ current_pos = HostStop(url) - 1 /\ At(current_pos) = "]"
      \/ HasPort(url) /\ current_pos = HostColon(url) /\ At(current_pos) = ":"
      \/ InName(url, current_pos) /\ At(current_pos) \in Name
  BY <1>3, <1>5, Regions, CharKinds DEF At, InName
<1> QED
  BY <1>4, <1>6, ReadTail, ReadSchemeColon, ReadFirstSlash, ReadSecondSlash, ReadAtSign,
     ReadUserColon, ReadHostOpens, ReadInBrackets, ReadHostCloses, ReadHostColon, ReadName
     DEF InTail

(* No step of the scan leaves what the RFC has it find. *)
LEMMA ReadAsInRfcStep ==
  ASSUME TypeOK, ReadAsInRfc, [Next]_scanVars PROVE ReadAsInRfc'
<1>1. CASE ~decoded /\ \E u \in Urls : Find(u) BY <1>1, UrlsAssumption, FindFindsNothing
<1>2. CASE ReadChar BY <1>2, ReadCharAsInRfc
<1>3. CASE UNCHANGED scanVars
  BY <1>3 DEF scanVars, ReadAsInRfc, AuthorityAsRead, PortAsRead, TailAsRead
<1> QED BY <1>1, <1>2, <1>3 DEF Next

(* At the end of the URL what was found is what the RFC has. *)
FoundAll ==
  /\ pos["scheme"] = StartIf(HasScheme(url), 0)
  /\ pos["hierarchical"] = StartIf(HasScheme(url), FirstColon(url))
  /\ pos["credential"] = StartIf(HasUserinfo(url), AuthorityStart(url))
  /\ pos["host"] = HostStart(url)
  /\ pos["port"] = StartIf(HasPort(url), HostColon(url) + 1)
  /\ pos["resource_path"] = StartIf(HasPath(url), AuthorityEnd(url))
  /\ pos["query_string"] = StartIf(HasQuery(url), QueryStart(url))
  /\ pos["fragment"] = StartIf(HasFragment(url), FragmentStart(url))

LEMMA FoundAtEnd ==
  ASSUME TypeOK, ReadAsInRfc, decoded, ScanDone, Regular(url) PROVE FoundAll
<1>1. Layout(url) /\ TailIs(url) BY LayoutOfRegular, TailOfRegular DEF TypeOK
<1>2. AuthorityAsRead /\ TailAsRead BY DEF ReadAsInRfc
<1> DEFINE k == Len(url)
<1>3. current_pos = k BY DEF ScanDone
<1>4. k \in Nat /\ ~InUserinfo(url, k) /\ (Opened(url, k) <=> HasScheme(url))
  BY <1>1 DEF Layout, InUserinfo, Opened
<1>5. /\ pos["scheme"] = StartIf(HasScheme(url), 0)
      /\ pos["hierarchical"] = StartIf(HasScheme(url), FirstColon(url))
  BY <1>2, <1>3, <1>4 DEF AuthorityAsRead, SchemeAt, HierarchicalAt, StartIf
<1>6. pos["credential"] = StartIf(HasUserinfo(url), AuthorityStart(url))
  BY <1>1, <1>2, <1>3, <1>4 DEF Layout, AuthorityAsRead, CredentialAt, StartIf
<1>7. pos["host"] = HostStart(url)
  BY <1>1, <1>2, <1>3, <1>4 DEF Layout, AuthorityAsRead, HostAt
<1>8. pos["port"] = StartIf(HasPort(url), HostColon(url) + 1)
  BY <1>1, <1>2, <1>3, <1>4 DEF Layout, AuthorityAsRead, PortAsRead, PortAt, StartIf
<1>9. pos["resource_path"] = StartIf(HasPath(url), AuthorityEnd(url))
  BY <1>1, <1>2, <1>3 DEF Layout, TailIs, TailAsRead, PathAt, StartIf
<1>10. pos["query_string"] = StartIf(HasQuery(url), QueryStart(url))
  BY <1>1, <1>2, <1>3 DEF Layout, TailIs, TailAsRead, QueryAt, StartIf
<1>11. pos["fragment"] = StartIf(HasFragment(url), FragmentStart(url))
  BY <1>1, <1>2, <1>3 DEF Layout, TailAsRead, FragmentAt, HasFragment, StartIf
<1> QED BY <1>5, <1>6, <1>7, <1>8, <1>9, <1>10, <1>11 DEF FoundAll

(* Whatever set of URLs the callers may decode, and whatever their length: *)
(* the scanner has the parts of every regular one where the RFC has them.  *)
THEOREM RfcCorrect == Spec => []RfcAgreement
<1>1. Init => ReadAsInRfc BY DEF Init, FeaturesZero, ReadAsInRfc
<1>2. TypeOK /\ ReadAsInRfc /\ [Next]_scanVars => ReadAsInRfc' BY ReadAsInRfcStep
<1>3. TypeOK /\ ReadAsInRfc => RfcAgreement
  BY FoundAtEnd DEF RfcAgreement, FoundAsInRfc, FoundAll, Parts, Part, StartIf
<1> QED BY <1>1, <1>2, <1>3, TypeCorrect, PTL DEF Spec

(* Each part ends where the next one starts. *)
LEMMA EndsAsInRfc ==
  ASSUME Scanning, ReadAsInRfc, ScanDone, Regular(url)
  PROVE  /\ QueryEnd = FragmentStart(url) /\ PathEnd = QueryStart(url)
         /\ PortEnd = AuthorityEnd(url) /\ HostEnd = HostStop(url)
<1>1. /\ Layout(url) /\ TailIs(url) /\ FoundAll
  BY LayoutOfRegular, TailOfRegular, FoundAtEnd DEF Scanning, TypeOK
<1>2. QueryEnd = FragmentStart(url)
  BY <1>1 DEF QueryEnd, Exist, FoundAll, StartIf, Layout, HasFragment
<1>3. PathEnd = QueryStart(url)
  BY <1>1, <1>2 DEF PathEnd, Exist, FoundAll, StartIf, Layout, TailIs
<1>4. PortEnd = AuthorityEnd(url)
  BY <1>1, <1>3 DEF PortEnd, Exist, FoundAll, StartIf, Layout, TailIs
<1>5. HostEnd = HostStop(url)
  BY <1>1, <1>4 DEF HostEnd, Exist, FoundAll, StartIf, Layout
<1> QED BY <1>2, <1>3, <1>4, <1>5

(* So each part of a regular URL is as long as the RFC has it. *)
LEMMA SizesAsInRfc ==
  ASSUME Scanning, ReadAsInRfc, ScanDone, Regular(url), SizesTyped
  PROVE  /\ HasScheme(url) => PartSizes["scheme"] = FirstColon(url)
         /\ HasUserinfo(url) => PartSizes["credential"] = AtSign(url) - AuthorityStart(url)
         /\ PartSizes["host"] = HostStop(url) - HostStart(url)
         /\ HasPort(url) => PartSizes["port"] = AuthorityEnd(url) - (HostColon(url) + 1)
         /\ HasPath(url) => PartSizes["resource_path"] = QueryStart(url) - AuthorityEnd(url)
         /\ HasQuery(url) => PartSizes["query_string"] = FragmentStart(url) - QueryStart(url)
         /\ HasFragment(url) => PartSizes["fragment"] = Len(url) - FragmentStart(url)
<1>1. /\ Layout(url) /\ TailIs(url) /\ FoundAll
  BY LayoutOfRegular, TailOfRegular, FoundAtEnd DEF Scanning, TypeOK
<1>2. HasScheme(url) => PartSizes["scheme"] = FirstColon(url)
  <2>1. PartSizes["scheme"] = IF Exist("scheme") /\ Exist("hierarchical")
                              THEN pos["hierarchical"] - pos["scheme"] ELSE size["scheme"]
    BY DEF PartSizes, SizesTyped, Fields
  <2> QED BY <1>1, <2>1 DEF Exist, FoundAll, StartIf, Layout
<1>3. HasUserinfo(url) => PartSizes["credential"] = AtSign(url) - AuthorityStart(url)
  <2>1. PartSizes["credential"] = IF Exist("credential")
                                  THEN (pos["host"] - pos["credential"] - 1) % SizeMod
                                  ELSE size["credential"]
    BY DEF PartSizes, SizesTyped, Fields
  <2> SUFFICES ASSUME HasUserinfo(url)
               PROVE  PartSizes["credential"] = AtSign(url) - AuthorityStart(url) OBVIOUS
  <2>2. PICK n : n = AtSign(url) - AuthorityStart(url) OBVIOUS
  <2>3. n \in 0 .. SizeMod - 1
    <3>1. Len(url) < SizeMod /\ SizeMod \in Nat BY ScannedTypes
    <3> QED BY <1>1, <2>2, <3>1 DEF Layout
  <2>4. Exist("credential") /\ pos["host"] - pos["credential"] - 1 = n
    BY <1>1, <2>2 DEF Exist, FoundAll, StartIf, Layout
  <2>5. n % SizeMod = n BY <2>3, SizeModAssumption
  <2> QED BY <2>1, <2>2, <2>4, <2>5
<1>4. PartSizes["host"] = HostStop(url) - HostStart(url)
  <2>1. PartSizes["host"] = SizeUpTo("host", HostEnd) BY DEF PartSizes, SizesTyped, Fields
  <2> QED BY <1>1, <2>1, EndsAsInRfc DEF SizeUpTo, Exist, FoundAll, Layout
<1>5. HasPort(url) => PartSizes["port"] = AuthorityEnd(url) - (HostColon(url) + 1)
  <2>1. PartSizes["port"] = SizeUpTo("port", PortEnd) BY DEF PartSizes, SizesTyped, Fields
  <2> QED BY <1>1, <2>1, EndsAsInRfc DEF SizeUpTo, Exist, FoundAll, StartIf, Layout
<1>6. HasPath(url) => PartSizes["resource_path"] = QueryStart(url) - AuthorityEnd(url)
  <2>1. PartSizes["resource_path"] = SizeUpTo("resource_path", PathEnd)
    BY DEF PartSizes, SizesTyped, Fields
  <2> QED BY <1>1, <2>1, EndsAsInRfc DEF SizeUpTo, Exist, FoundAll, StartIf, Layout, TailIs
<1>7. HasQuery(url) => PartSizes["query_string"] = FragmentStart(url) - QueryStart(url)
  <2>1. PartSizes["query_string"] = SizeUpTo("query_string", QueryEnd)
    BY DEF PartSizes, SizesTyped, Fields
  <2> QED BY <1>1, <2>1, EndsAsInRfc DEF SizeUpTo, Exist, FoundAll, StartIf, Layout, TailIs
<1>8. HasFragment(url) => PartSizes["fragment"] = Len(url) - FragmentStart(url)
  <2>1. PartSizes["fragment"] = IF Exist("fragment") THEN Len(url) - pos["fragment"]
                                ELSE size["fragment"]
    BY DEF PartSizes, SizesTyped, Fields
  <2> QED BY <1>1, <2>1 DEF Exist, FoundAll, StartIf, Layout
<1> QED BY <1>2, <1>3, <1>4, <1>5, <1>6, <1>7, <1>8

(* The end of a call: naming the host moves none of the parts.             *)
LEMMA FinishAsInRfc ==
  ASSUME DecodeOK, ReadAsInRfc, Finish PROVE PartsAsInRfc'
<1>1. Scanning /\ ScanDone /\ SizesTyped BY DEF DecodeOK, Finish
<1>2. PICK o \in HostOutcomes : FinishedWith(Found(o.names)) BY FinishIs
<1>3. DOMAIN Found(o.names) \subseteq HostNames BY <1>1, FoundNames
<1>4. url' = url BY <1>2 DEF FinishedWith
<1>5. SUFFICES ASSUME Regular(url), NEW f \in DOMAIN Parts(url)
               PROVE  /\ pos'[f] = Parts(url)[f][1]
                      /\ Parts(url)[f][1] >= 0 => size'[f] = Parts(url)[f][2] - Parts(url)[f][1]
  BY <1>4 DEF PartsAsInRfc
<1>6. pos'[f] = pos[f] /\ size'[f] = PartSizes[f]
  BY <1>2, <1>3, <1>5 DEF FinishedWith, Parts, HostNames, Fields
<1>7. Layout(url) /\ FoundAll BY <1>1, <1>5, LayoutOfRegular, FoundAtEnd DEF Scanning, TypeOK
<1>8. pos[f] = Parts(url)[f][1] BY <1>5, <1>7 DEF FoundAll, Parts, Part, StartIf
<1>9. ASSUME Parts(url)[f][1] >= 0 PROVE PartSizes[f] = Parts(url)[f][2] - Parts(url)[f][1]
  <2>2. CASE f = "scheme" BY <1>1, <1>5, <1>7, <1>9, <2>2, SizesAsInRfc DEF Parts, Part, Layout
  <2>3. CASE f = "credential" BY <1>1, <1>5, <1>7, <1>9, <2>3, SizesAsInRfc DEF Parts, Part, Layout
  <2>4. CASE f = "host" BY <1>1, <1>5, <1>7, <1>9, <2>4, SizesAsInRfc DEF Parts, Part, Layout
  <2>5. CASE f = "port" BY <1>1, <1>5, <1>7, <1>9, <2>5, SizesAsInRfc DEF Parts, Part, Layout
  <2>6. CASE f = "resource_path"
    BY <1>1, <1>5, <1>7, <1>9, <2>6, SizesAsInRfc DEF Parts, Part, Layout
  <2>7. CASE f = "query_string"
    BY <1>1, <1>5, <1>7, <1>9, <2>7, SizesAsInRfc DEF Parts, Part, Layout
  <2>8. CASE f = "fragment" BY <1>1, <1>5, <1>7, <1>9, <2>8, SizesAsInRfc DEF Parts, Part, Layout
  <2> QED BY <1>5, <2>2, <2>3, <2>4, <2>5, <2>6, <2>7, <2>8 DEF Parts
<1> QED BY <1>6, <1>8, <1>9

(* Call after call, on any handler: every part of a regular URL is where   *)
(* the RFC has it and as long, whatever was decoded before.                *)
THEOREM DecodedAsInRfc == DecodeSpec => []PartsAsInRfc
<1> DEFINE AsInRfc == (in_call => ReadAsInRfc) /\ PartsAsInRfc
<1>1. DecodeInit => AsInRfc BY DEF DecodeInit, FeaturesZero, PartsAsInRfc, Returned
<1>2. DecodeOK /\ AsInRfc /\ [DecodeNext]_decodeVars => AsInRfc'
  <2> SUFFICES ASSUME DecodeOK, AsInRfc, [DecodeNext]_decodeVars PROVE AsInRfc' OBVIOUS
  <2>1. CASE Start
    <3>1. PICK u \in Callers[caller].urls : Find(Shortened(u)) BY <2>1 DEF Start
    <3>2. Shortened(u) \in Seq(Chars) BY ShortenedTyped DEF DecodeOK
    <3>3. ReadAsInRfc' BY <3>1, <3>2, FindFindsNothing
    <3>4. ~Returned' BY <2>1 DEF Start, Returned
    <3> QED BY <3>3, <3>4 DEF PartsAsInRfc
  <2>2. CASE Scan
    <3>1. ReadAsInRfc' BY <2>2, ReadCharAsInRfc DEF Scan, DecodeOK, Scanning
    <3>2. ~Returned' BY <2>2 DEF Scan, Returned
    <3> QED BY <3>1, <3>2 DEF PartsAsInRfc
  <2>3. CASE Finish
    <3>1. in_call /\ ~in_call' BY <2>3 DEF Finish
    <3>2. PartsAsInRfc' BY <2>3, <3>1, FinishAsInRfc
    <3> QED BY <3>1, <3>2
  <2>4. CASE UNCHANGED decodeVars
    BY <2>4 DEF decodeVars, scanVars, ReadAsInRfc, AuthorityAsRead, PortAsRead, TailAsRead,
         PartsAsInRfc, Returned
  <2> QED BY <2>1, <2>2, <2>3, <2>4 DEF DecodeNext
<1> QED BY <1>1, <1>2, DecodeInvariant, PTL DEF DecodeSpec

-----------------------------------------------------------------------------
(* Addresses *)

(* What holds of a and of each number when it holds of the one before.     *)
LEMMA UpTo ==
  ASSUME NEW a \in Int, NEW b \in Int, NEW S, a \in S,
         \A i \in a + 1 .. b : i - 1 \in S => i \in S
  PROVE  \A i \in a .. b : i \in S
<1> DEFINE T == {i \in a .. b : i \notin S}
<1>1. SUFFICES ASSUME T # {} PROVE FALSE OBVIOUS
<1>2. T \in SUBSET (a .. b) OBVIOUS
<1>3. Min(T) \in T /\ \A x \in T : Min(T) <= x
  <2> HIDE DEF T
  <2> QED BY <1>1, <1>2, HasSmallest, Zenon
<1>4. PICK m : m = Min(T) OBVIOUS
<1>5. m \in T /\ \A x \in T : m <= x BY <1>3, <1>4
<1>6. m \in a + 1 .. b BY <1>5
<1>7. m - 1 \in S
  <2>1. m - 1 \in a .. b BY <1>6
  <2>2. m - 1 \notin T BY <1>5, <1>6
  <2> QED BY <2>1, <2>2
<1>8. m \in S BY <1>6, <1>7
<1> QED BY <1>5, <1>8

(***************************************************************************)
(* is_ipv4, one character after the other.                                 *)
(***************************************************************************)
IsScan(g, h, n) ==
  g = [i \in 0 .. n |-> IF i = 0 THEN ScanStart ELSE ScanChar(g[i - 1], h[i])]

LEMMA ScanExists ==
  ASSUME NEW h, NEW N \in Nat PROVE \E g : IsScan(g, h, N)
<1> DEFINE S == {n \in 0 .. N : \E g : IsScan(g, h, n)}
<1>1. 0 \in S
  <2>1. IsScan([i \in 0 .. 0 |-> ScanStart], h, 0) BY DEF IsScan
  <2> QED BY <2>1
<1>2. ASSUME NEW n \in 1 .. N, n - 1 \in S PROVE n \in S
  <2>1. PICK g : IsScan(g, h, n - 1) BY <1>2
  <2> DEFINE f == [i \in 0 .. n |-> IF i = n THEN ScanChar(g[n - 1], h[n]) ELSE g[i]]
             F(i) == IF i = 0 THEN ScanStart ELSE ScanChar(f[i - 1], h[i])
  <2>2. ASSUME NEW i \in 0 .. n PROVE f[i] = F(i)
    <3>1. CASE i = n
      <4>1. f[n - 1] = g[n - 1] OBVIOUS
      <4> QED BY <3>1, <4>1
    <3>2. CASE i # n
      <4>1. i \in 0 .. n - 1 BY <3>2
      <4>2. g[i] = IF i = 0 THEN ScanStart ELSE ScanChar(g[i - 1], h[i])
        BY <2>1, <4>1, Zenon DEF IsScan
      <4>3. f[i] = g[i] BY <3>2
      <4>4. i # 0 => f[i - 1] = g[i - 1] BY <4>1
      <4> QED BY <4>2, <4>3, <4>4
    <3> QED BY <3>1, <3>2
  <2>3. f = [i \in 0 .. n |-> F(i)]
    <3> HIDE DEF F
    <3> QED BY <2>2
  <2>4. IsScan(f, h, n) BY <2>3 DEF IsScan
  <2> QED BY <2>4
<1>3. \A n \in 0 .. N : n \in S
  <2>1. \A i \in 0 + 1 .. N : i - 1 \in S => i \in S
    <3> HIDE DEF S
    <3> QED BY <1>2
  <2> HIDE DEF S
  <2> QED BY <1>1, <2>1, UpTo
<1>4. N \in S BY <1>3
<1> QED BY <1>4

LEMMA ScanIs ==
  ASSUME NEW h \in Seq(Chars)
  PROVE  /\ Scanned(h)[0] = ScanStart
         /\ \A i \in 1 .. Len(h) : Scanned(h)[i] = ScanChar(Scanned(h)[i - 1], h[i])
<1>1. Len(h) \in Nat OBVIOUS
<1> DEFINE Eq(g) == g = [i \in 0 .. Len(h) |->
                           IF i = 0 THEN ScanStart ELSE ScanChar(g[i - 1], h[i])]
<1>2. \E g : Eq(g) BY <1>1, ScanExists DEF IsScan
<1>3. Scanned(h) = CHOOSE g : Eq(g) BY DEF Scanned
<1>4. Eq(Scanned(h))
  <2> HIDE DEF Eq
  <2> QED BY <1>2, <1>3
<1> DEFINE g == Scanned(h)
<1>5. g = [i \in 0 .. Len(h) |-> IF i = 0 THEN ScanStart ELSE ScanChar(g[i - 1], h[i])]
  BY <1>4
<1>6. \A i \in 0 .. Len(h) : g[i] = IF i = 0 THEN ScanStart ELSE ScanChar(g[i - 1], h[i])
  <2> HIDE DEF g
  <2> QED BY <1>5, Zenon
<1> HIDE DEF g
<1>7. g[0] = ScanStart BY <1>1, <1>6
<1>8. \A i \in 1 .. Len(h) : g[i] = ScanChar(g[i - 1], h[i]) BY <1>1, <1>6
<1> QED BY <1>7, <1>8 DEF g

(* Digits: what they are worth, and groups of them. *)
LEMMA DigitsAre ==
  /\ DOMAIN DigitValue = Digits
  /\ \A d \in Digits : DigitValue[d] \in 0 .. 9
  /\ Digits \subseteq Chars /\ "." \in Chars /\ "." \notin Digits
  /\ \A c \in Digits \cup {"."} : ~isspace(c)
BY DEF DigitValue, Digits, Chars, Others, isspace

(* The number that is_ipv4 makes of the digits from s to i. *)
LeftAligned(h, s, i) ==
  (IF s <= i THEN 100 * DigitValue[h[s]] ELSE 0)
  + (IF s + 1 <= i THEN 10 * DigitValue[h[s + 1]] ELSE 0)
  + (IF s + 2 <= i THEN DigitValue[h[s + 2]] ELSE 0)

LEMMA LeftAlignedIs ==
  ASSUME NEW h \in Seq(Chars), NEW s \in 1 .. Len(h) + 1, NEW i \in s - 1 .. Len(h), i + 1 - s <= 3,
         \A j \in s .. i : h[j] \in Digits
  PROVE  /\ LeftAligned(h, s, i) \in Nat
         /\ LeftAligned(h, s, i) \div powui(3 - (i + 1 - s)) = Value(SubSeq(h, s, i))
<1>1. Len(h) \in Nat /\ s \in Int /\ i \in Int OBVIOUS
<1>2. PICK g : g = SubSeq(h, s, i) OBVIOUS
<1>3. /\ Len(g) = i + 1 - s
      /\ \A j \in 1 .. i + 1 - s : g[j] = h[s + j - 1]
  <2>1. \A j \in s .. i : h[j] \in Chars BY <1>1
  <2>2. /\ Len(g) = IF s <= i THEN i - s + 1 ELSE 0
        /\ \A j \in 1 .. i - s + 1 : g[j] = h[s + j - 1]
    BY <1>1, <1>2, <2>1, SubSeqProperties
  <2> QED BY <1>1, <2>2
<1>4. ASSUME NEW j \in s .. i PROVE DigitValue[h[j]] \in 0 .. 9
  BY DigitsAre
<1>5. CASE i + 1 - s = 0
  <2>1. LeftAligned(h, s, i) = 0 BY <1>1, <1>5 DEF LeftAligned
  <2>2. Value(g) = 0 BY <1>3, <1>5 DEF Value
  <2> QED BY <1>2, <1>5, <2>1, <2>2 DEF powui
<1>6. CASE i + 1 - s = 1
  <2>1. PICK a : a = DigitValue[h[s]] OBVIOUS
  <2>2. a \in 0 .. 9 BY <1>1, <1>4, <1>6, <2>1
  <2>3. LeftAligned(h, s, i) = 100 * a BY <1>1, <1>6, <2>1, <2>2 DEF LeftAligned
  <2>4. Value(g) = a
    <3>1. g[1] = h[s]
      <4>1. 1 \in 1 .. i + 1 - s /\ s + 1 - 1 = s BY <1>1, <1>6
      <4>2. g[1] = h[s + 1 - 1] BY <1>3, <4>1
      <4> QED BY <4>1, <4>2
    <3> QED BY <1>3, <1>6, <2>1, <2>2, <3>1 DEF Value
  <2>5. powui(3 - (i + 1 - s)) = 100 BY <1>6 DEF powui
  <2>6. (100 * a) \div 100 = a BY <2>2
  <2> QED BY <1>2, <2>2, <2>3, <2>4, <2>5, <2>6
<1>7. CASE i + 1 - s = 2
  <2>1. PICK a, b : a = DigitValue[h[s]] /\ b = DigitValue[h[s + 1]] OBVIOUS
  <2>2. a \in 0 .. 9 /\ b \in 0 .. 9
    <3>1. s \in s .. i /\ s + 1 \in s .. i BY <1>1, <1>7
    <3> QED BY <1>4, <2>1, <3>1
  <2>3. LeftAligned(h, s, i) = 100 * a + 10 * b BY <1>1, <1>7, <2>1, <2>2 DEF LeftAligned
  <2>4. Value(g) = 10 * a + b
    <3>1. g[1] = h[s] /\ g[2] = h[s + 1] /\ Len(g) = 2
      <4>1. 1 \in 1 .. i + 1 - s /\ 2 \in 1 .. i + 1 - s BY <1>1, <1>7
      <4>2. s + 1 - 1 = s /\ s + 2 - 1 = s + 1 BY <1>1
      <4>3. g[1] = h[s + 1 - 1] /\ g[2] = h[s + 2 - 1] BY <1>3, <4>1
      <4> QED BY <1>3, <1>7, <4>2, <4>3
    <3> QED BY <2>1, <2>2, <3>1 DEF Value
  <2>5. powui(3 - (i + 1 - s)) = 10 BY <1>7 DEF powui
  <2>6. (100 * a + 10 * b) \div 10 = 10 * a + b BY <2>2
  <2> QED BY <1>2, <2>2, <2>3, <2>4, <2>5, <2>6
<1>8. CASE i + 1 - s = 3
  <2>1. PICK a, b, c : a = DigitValue[h[s]] /\ b = DigitValue[h[s + 1]] /\ c = DigitValue[h[s + 2]]
    OBVIOUS
  <2>2. a \in 0 .. 9 /\ b \in 0 .. 9 /\ c \in 0 .. 9
    <3>1. s \in s .. i /\ s + 1 \in s .. i /\ s + 2 \in s .. i BY <1>1, <1>8
    <3> QED BY <1>4, <2>1, <3>1
  <2>3. LeftAligned(h, s, i) = 100 * a + 10 * b + c BY <1>1, <1>8, <2>1, <2>2 DEF LeftAligned
  <2>4. Value(g) = 100 * a + 10 * b + c
    <3>1. g[1] = h[s] /\ g[2] = h[s + 1] /\ g[3] = h[s + 2] /\ Len(g) = 3
      <4>1. 1 \in 1 .. i + 1 - s /\ 2 \in 1 .. i + 1 - s /\ 3 \in 1 .. i + 1 - s BY <1>1, <1>8
      <4>2. s + 1 - 1 = s /\ s + 2 - 1 = s + 1 /\ s + 3 - 1 = s + 2 BY <1>1
      <4>3. g[1] = h[s + 1 - 1] /\ g[2] = h[s + 2 - 1] /\ g[3] = h[s + 3 - 1] BY <1>3, <4>1
      <4> QED BY <1>3, <1>8, <4>2, <4>3
    <3>2. DigitValue[g[1]] = a /\ DigitValue[g[2]] = b /\ DigitValue[g[3]] = c BY <2>1, <3>1
    <3>3. Len(g) + 1 - 1 = 3 /\ Len(g) + 1 - 2 = 2 /\ Len(g) + 1 - 3 = 1 BY <3>1
    <3>4. Value(g) = DigitValue[g[3]] + 10 * DigitValue[g[2]] + 100 * DigitValue[g[1]]
      BY <3>1, <3>3 DEF Value
    <3> QED BY <2>2, <3>2, <3>4
  <2>5. powui(3 - (i + 1 - s)) = 1 BY <1>8 DEF powui
  <2>6. (100 * a + 10 * b + c) \div 1 = 100 * a + 10 * b + c BY <2>2
  <2> QED BY <1>2, <2>2, <2>3, <2>4, <2>5, <2>6
<1> QED BY <1>1, <1>5, <1>6, <1>7, <1>8

(***************************************************************************)
(* Where groups start.                                                     *)
(***************************************************************************)
First(h) == Min(SolidIn(h))

LEMMA PlacesIn ==
  ASSUME NEW h \in Seq(Chars)
  PROVE  /\ Len(h) \in Nat /\ SolidIn(h) \subseteq 1 .. Len(h)
         /\ \A k \in 1 .. Len(h) : k \in SolidIn(h) <=> ~isspace(h[k])
         /\ \A k : k \in DotsOf(h) <=> k \in 1 .. Len(h) /\ h[k] = "."
<1>1. Len(h) \in Nat /\ DOMAIN h = 1 .. Len(h) OBVIOUS
<1>2. \A k : k \in SolidIn(h) <=> k \in 1 .. Len(h) /\ ~isspace(h[k]) BY <1>1, Zenon DEF SolidIn
<1>3. \A k : k \in DotsOf(h) <=> k \in 1 .. Len(h) /\ h[k] = "." BY <1>1, Zenon DEF DotsOf
<1> QED BY <1>1, <1>2, <1>3

LEMMA SolidEnds ==
  ASSUME NEW h \in Seq(Chars), SolidIn(h) # {}
  PROVE  /\ First(h) \in 1 .. Len(h) /\ Max(SolidIn(h)) \in First(h) .. Len(h)
         /\ ~isspace(h[First(h)]) /\ ~isspace(h[Max(SolidIn(h))])
         /\ \A k \in 1 .. Len(h) : k < First(h) \/ k > Max(SolidIn(h)) => isspace(h[k])
<1>1. Len(h) \in Nat BY PlacesIn
<1>2. SolidIn(h) \in SUBSET (1 .. Len(h)) /\ SolidIn(h) \in SUBSET (-1 .. Len(h)) /\ 1 \in Int /\ Len(h) \in Int
  BY <1>1, PlacesIn
<1>3. First(h) \in SolidIn(h) /\ \A x \in SolidIn(h) : First(h) <= x
  BY <1>2, HasSmallest, Zenon DEF First
<1>4. Max(SolidIn(h)) \in SolidIn(h) /\ \A x \in SolidIn(h) : Max(SolidIn(h)) >= x
  BY <1>1, <1>2, HasLargest, Zenon
<1>5. PICK f, l : f = First(h) /\ l = Max(SolidIn(h)) OBVIOUS
<1>6. /\ f \in 1 .. Len(h) /\ l \in 1 .. Len(h) /\ f <= l /\ ~isspace(h[f]) /\ ~isspace(h[l])
      /\ \A x \in SolidIn(h) : f <= x /\ l >= x
  BY <1>1, <1>3, <1>4, <1>5, PlacesIn
<1>7. ASSUME NEW k \in 1 .. Len(h), k < f \/ k > l PROVE isspace(h[k])
  BY <1>1, <1>6, <1>7, PlacesIn
<1> QED BY <1>5, <1>6, <1>7

LEMMA GroupStartIs ==
  ASSUME NEW h \in Seq(Chars), SolidIn(h) # {}, NEW k \in First(h) .. Len(h) + 1
  PROVE  /\ GroupStart(h, k) \in First(h) .. k
         /\ \A j \in GroupStart(h, k) .. k - 1 : h[j] # "."
         /\ GroupStart(h, k) = First(h) \/ h[GroupStart(h, k) - 1] = "."
<1>1. Len(h) \in Nat BY PlacesIn
<1>2. PICK f : f = First(h) OBVIOUS
<1>3. f \in 1 .. Len(h) /\ k \in f .. Len(h) + 1 /\ \A j \in 1 .. Len(h) : j < f => isspace(h[j])
  BY <1>2, SolidEnds
<1> DEFINE S == {f} \cup {d + 1 : d \in {e \in DotsOf(h) : e < k}}
<1>4. S \in SUBSET (-1 .. Len(h) + 1) /\ S # {} /\ \A x \in S : x \in f .. k
  <2>1. \A e \in DotsOf(h) : e \in f .. Len(h) /\ h[e] = "." BY <1>1, <1>3, PlacesIn, DigitsAre
  <2>2. \A x \in S : x \in f .. k BY <1>3, <2>1
  <2>3. \A x \in S : x \in -1 .. Len(h) + 1 BY <1>1, <1>3, <2>2
  <2> QED BY <2>2, <2>3
<1>5. GroupStart(h, k) = Max(S) BY <1>2 DEF GroupStart, First
<1>6. Max(S) \in S /\ \A x \in S : Max(S) >= x
  <2>1. Len(h) + 1 \in Nat BY <1>1
  <2> HIDE DEF S
  <2> QED BY <1>4, <2>1, HasLargest, Zenon
<1>7. PICK s : s = Max(S) OBVIOUS
<1>8. s \in f .. k /\ s \in S /\ \A x \in S : s >= x BY <1>4, <1>6, <1>7
<1>9. ASSUME NEW j \in s .. k - 1 PROVE h[j] # "."
  <2> SUFFICES ASSUME h[j] = "." PROVE FALSE OBVIOUS
  <2>1. j \in DotsOf(h) /\ j < k BY <1>1, <1>3, <1>8, PlacesIn
  <2>2. j + 1 \in S BY <2>1
  <2>3. s >= j + 1 BY <1>8, <2>2
  <2> QED BY <1>3, <1>8, <2>3
<1>10. s = f \/ h[s - 1] = "."
  <2>1. CASE s = f BY <2>1
  <2>2. CASE s # f
    <3>1. PICK e \in DotsOf(h) : s = e + 1 BY <1>8, <2>2
    <3>2. e \in Int /\ h[e] = "." BY <1>1, <3>1, PlacesIn
    <3>3. s - 1 = e BY <3>1, <3>2
    <3> QED BY <3>2, <3>3
  <2> QED BY <2>1, <2>2
<1> QED BY <1>2, <1>5, <1>7, <1>8, <1>9, <1>10

(* It is the only such place. *)
LEMMA GroupStartOnly ==
  ASSUME NEW h \in Seq(Chars), SolidIn(h) # {}, NEW k \in First(h) .. Len(h) + 1,
         NEW s \in First(h) .. k, \A j \in s .. k - 1 : h[j] # ".",
         s = First(h) \/ h[s - 1] = "."
  PROVE  GroupStart(h, k) = s
<1>1. PICK f, t : f = First(h) /\ t = GroupStart(h, k) OBVIOUS
<1>2. /\ t \in f .. k /\ \A j \in t .. k - 1 : h[j] # "."
      /\ t = f \/ h[t - 1] = "."
  BY <1>1, GroupStartIs
<1>3. f \in Int /\ k \in Int /\ s \in f .. k /\ (s = f \/ h[s - 1] = ".") BY <1>1, SolidEnds
<1>4. ~(t < s)
  <2> SUFFICES ASSUME t < s PROVE FALSE OBVIOUS
  <2>1. s - 1 \in t .. k - 1 /\ s # f BY <1>2, <1>3
  <2> QED BY <1>2, <1>3, <2>1
<1>5. ~(s < t)
  <2> SUFFICES ASSUME s < t PROVE FALSE OBVIOUS
  <2>1. t - 1 \in s .. k - 1 /\ t # f BY <1>2, <1>3
  <2> QED BY <1>2, <2>1
<1> QED BY <1>1, <1>2, <1>3, <1>4, <1>5

LEMMA GroupStartMoves ==
  ASSUME NEW h \in Seq(Chars), SolidIn(h) # {}, NEW k \in First(h) .. Len(h)
  PROVE  GroupStart(h, k + 1) = IF h[k] = "." THEN k + 1 ELSE GroupStart(h, k)
<1>1. PICK f, t : f = First(h) /\ t = GroupStart(h, k) OBVIOUS
<1>2. Len(h) \in Nat /\ f \in 1 .. Len(h) /\ k \in f .. Len(h) BY <1>1, SolidEnds
<1>3. k \in f .. Len(h) + 1 /\ k + 1 \in f .. Len(h) + 1 BY <1>2
<1>4. /\ t \in f .. k /\ \A j \in t .. k - 1 : h[j] # "."
      /\ t = f \/ h[t - 1] = "."
  BY <1>1, <1>3, GroupStartIs
<1>5. CASE h[k] = "."
  <2>1. k + 1 \in f .. k + 1 /\ k + 1 - 1 = k BY <1>2
  <2>2. \A j \in k + 1 .. k + 1 - 1 : h[j] # "." BY <1>2
  <2> QED BY <1>1, <1>3, <1>5, <2>1, <2>2, GroupStartOnly
<1>6. CASE h[k] # "."
  <2>1. t \in f .. k + 1 BY <1>2, <1>4
  <2>2. \A j \in t .. k + 1 - 1 : h[j] # "."
    <3>1. \A j \in t .. k + 1 - 1 : j = k \/ j \in t .. k - 1 BY <1>2, <1>4
    <3> QED BY <1>4, <1>6, <3>1
  <2> QED BY <1>1, <1>3, <1>4, <1>6, <2>1, <2>2, GroupStartOnly
<1> QED BY <1>5, <1>6

(***************************************************************************)
(* The scan without the spaces: it goes on as long as all is well.         *)
(***************************************************************************)
GoodUpTo(h, i) ==
  /\ \A k \in First(h) .. i : h[k] \in Digits \cup {"."}
  /\ \A d \in DotsOf(h) : d <= i => d - 1 \notin DotsOf(h) /\ IsByte(Group(h, d))
  /\ i + 1 - GroupStart(h, i + 1) <= 3

DotsUpTo(h, i) == {d \in DotsOf(h) : d <= i}

InState(h, i, st) ==
  LET s == GroupStart(h, i + 1)
  IN /\ st.ndots = Cardinality(DotsUpTo(h, i))
     /\ st.cur_d = 2 - (i + 1 - s)
     /\ st.nip = LeftAligned(h, s, i)
     /\ st.prev_c = IF i < First(h) THEN "start" ELSE h[i]

States == [ok : BOOLEAN, in_tail : BOOLEAN, ndots : Nat, nip : Int, cur_d : -1 .. 2,
           prev_c : Chars \cup {"start"}]

Goes(st) == st.ok /\ ~st.in_tail

(* What the scan knows when it has read up to i. *)
Knows(h, i, st) ==
  /\ st \in States
  /\ Goes(st) <=> GoodUpTo(h, i)
  /\ Goes(st) => InState(h, i, st)

LEMMA DotsCounted ==
  ASSUME NEW h \in Seq(Chars), NEW i \in 1 .. Len(h)
  PROVE  /\ IsFiniteSet(DotsUpTo(h, i - 1)) /\ Cardinality(DotsUpTo(h, i - 1)) \in Nat
         /\ h[i] = "." => Cardinality(DotsUpTo(h, i)) = Cardinality(DotsUpTo(h, i - 1)) + 1
         /\ h[i] # "." => DotsUpTo(h, i) = DotsUpTo(h, i - 1)
<1>1. Len(h) \in Nat /\ \A k : k \in DotsOf(h) <=> k \in 1 .. Len(h) /\ h[k] = "." BY PlacesIn
<1>2. IsFiniteSet(DotsUpTo(h, i - 1))
  <2>1. DotsUpTo(h, i - 1) \in SUBSET (1 .. Len(h)) BY <1>1 DEF DotsUpTo
  <2>2. IsFiniteSet(1 .. Len(h)) BY <1>1, FS_Interval
  <2> QED BY <2>1, <2>2, FS_Subset, Zenon
<1>3. Cardinality(DotsUpTo(h, i - 1)) \in Nat BY <1>2, FS_CardinalityType
<1>4. ASSUME h[i] = "." PROVE Cardinality(DotsUpTo(h, i)) = Cardinality(DotsUpTo(h, i - 1)) + 1
  <2>1. DotsUpTo(h, i) = DotsUpTo(h, i - 1) \cup {i} BY <1>1, <1>4 DEF DotsUpTo
  <2>2. i \notin DotsUpTo(h, i - 1) BY <1>1 DEF DotsUpTo
  <2> QED BY <1>2, <2>1, <2>2, FS_AddElement
<1>5. h[i] # "." => DotsUpTo(h, i) = DotsUpTo(h, i - 1) BY <1>1 DEF DotsUpTo
<1> QED BY <1>2, <1>3, <1>4, <1>5

(* The groups in reach of the scan. *)
LEMMA GroupIs ==
  ASSUME NEW h \in Seq(Chars), SolidIn(h) # {}, NEW k \in First(h) .. Len(h) + 1
  PROVE  LET s == GroupStart(h, k)
         IN /\ Len(Group(h, k)) = k - s
            /\ Range(Group(h, k)) = {h[j] : j \in s .. k - 1}
            /\ IsByte(Group(h, k)) <=>
                 /\ k - s <= 3 /\ \A j \in s .. k - 1 : h[j] \in Digits
                 /\ LeftAligned(h, s, k - 1) \div powui(3 - (k - s)) <= 255
<1>1. PICK f, s, g : f = First(h) /\ s = GroupStart(h, k) /\ g = Group(h, k) OBVIOUS
<1>2. Len(h) \in Nat /\ f \in 1 .. Len(h) /\ k \in f .. Len(h) + 1 /\ s \in f .. k
  BY <1>1, PlacesIn, SolidEnds, GroupStartIs
<1>3. /\ Len(g) = k - s /\ DOMAIN g = 1 .. k - s
      /\ \A j \in 1 .. k - s : g[j] = h[s + j - 1]
  <2>1. PICK e : e = k - 1 OBVIOUS
  <2>2. s \in Int /\ e \in Int BY <1>2, <2>1
  <2>3. \A j \in s .. e : h[j] \in Chars BY <1>2, <2>1
  <2>4. /\ SubSeq(h, s, e) \in Seq(Chars)
        /\ Len(SubSeq(h, s, e)) = IF s <= e THEN e - s + 1 ELSE 0
        /\ \A j \in 1 .. e - s + 1 : SubSeq(h, s, e)[j] = h[s + j - 1]
    BY <2>2, <2>3, SubSeqProperties
  <2>5. g = SubSeq(h, s, e) BY <1>1, <2>1 DEF Group
  <2>6. e - s + 1 = k - s /\ (~(s <= e) => k - s = 0) BY <1>2, <2>1
  <2>7. Len(g) = k - s BY <2>4, <2>5, <2>6
  <2>8. g \in Seq(Chars) BY <2>4, <2>5
  <2>9. DOMAIN g = 1 .. Len(g) BY <2>8
  <2> QED BY <2>4, <2>5, <2>6, <2>7, <2>9
<1>4. Range(g) = {h[j] : j \in s .. k - 1}
  <2>1. ASSUME NEW j \in 1 .. k - s PROVE g[j] \in {h[m] : m \in s .. k - 1}
    <3>1. s + j - 1 \in s .. k - 1 BY <1>2
    <3> QED BY <1>3, <3>1
  <2>2. ASSUME NEW m \in s .. k - 1 PROVE \E j \in DOMAIN g : g[j] = h[m]
    <3>1. PICK j : j = m - s + 1 OBVIOUS
    <3>2. j \in 1 .. k - s /\ s + j - 1 = m BY <1>2, <3>1
    <3> QED BY <1>3, <3>2
  <2> QED BY <1>3, <2>1, <2>2 DEF Range
<1>5. Range(g) \subseteq Digits <=> \A j \in s .. k - 1 : h[j] \in Digits BY <1>4
<1>6. ASSUME k - s <= 3, \A j \in s .. k - 1 : h[j] \in Digits
      PROVE  LeftAligned(h, s, k - 1) \div powui(3 - (k - s)) = Value(g)
  <2>1. PICK e : e = k - 1 OBVIOUS
  <2>2. s \in 1 .. Len(h) + 1 /\ e \in s - 1 .. Len(h) /\ e + 1 - s = k - s BY <1>2, <2>1
  <2>3. LeftAligned(h, s, e) \div powui(3 - (e + 1 - s)) = Value(SubSeq(h, s, e))
    BY <1>6, <2>1, <2>2, LeftAlignedIs
  <2>4. g = SubSeq(h, s, e) BY <1>1, <2>1 DEF Group
  <2> QED BY <2>1, <2>2, <2>3, <2>4
<1>7. IsByte(g) <=> /\ k - s <= 3 /\ \A j \in s .. k - 1 : h[j] \in Digits
                    /\ LeftAligned(h, s, k - 1) \div powui(3 - (k - s)) <= 255
  BY <1>3, <1>5, <1>6 DEF IsByte
<1> QED BY <1>1, <1>3, <1>4, <1>7

LEMMA ScanCharTyped ==
  ASSUME NEW st \in States, NEW c \in Chars
  PROVE  /\ ScanChar(st, c) \in States
         /\ ~Goes(st) => ~Goes(ScanChar(st, c))
<1>1. c \in Digits => DigitValue[c] \in Int BY DigitsAre
<1>2. st.cur_d >= 0 => powui(st.cur_d) \in Int BY DEF States, powui
<1>3. /\ Reject(st) \in States /\ ~Reject(st).ok
  BY DEF Reject, States
<1>4. ReadDot(st) \in States
  <2>1. [st EXCEPT !.ndots = @ + 1, !.nip = 0, !.cur_d = 2, !.prev_c = "."] \in States
    <3>1. "." \in Chars /\ 2 \in -1 .. 2 /\ 0 \in Int BY DigitsAre
    <3>2. st.ndots + 1 \in Nat BY DEF States
    <3> QED BY <3>1, <3>2 DEF States
  <2> QED BY <1>3, <2>1 DEF ReadDot
<1>5. c \in Digits => ReadDigit(st, c) \in States
  <2> SUFFICES ASSUME c \in Digits, ~(st.cur_d < 0) PROVE ReadDigit(st, c) \in States
    BY <1>3 DEF ReadDigit
  <2>1. st.nip + DigitValue[c] * powui(st.cur_d) \in Int BY <1>1, <1>2 DEF States
  <2>2. st.cur_d - 1 \in -1 .. 2 BY DEF States
  <2> QED BY <2>1, <2>2 DEF ReadDigit, States
<1>6. ReadRest(st, c) \in States BY <1>3 DEF ReadRest, States
<1>7. ScanChar(st, c) \in States BY <1>3, <1>4, <1>5, <1>6, DigitsAre DEF ScanChar
<1>8. ASSUME ~Goes(st) PROVE ~Goes(ScanChar(st, c))
  <2>1. CASE ~st.ok BY <2>1 DEF ScanChar, Goes
  <2>2. CASE st.ok /\ st.in_tail BY <1>3, <2>2 DEF ScanChar, Goes
  <2> QED BY <1>8, <2>1, <2>2 DEF Goes
<1> QED BY <1>7, <1>8

LEMMA GoodBefore ==
  ASSUME NEW h \in Seq(Chars), SolidIn(h) # {}, NEW i \in First(h) .. Len(h), GoodUpTo(h, i)
  PROVE  GoodUpTo(h, i - 1)
<1>1. PICK f, s : f = First(h) /\ s = GroupStart(h, i) OBVIOUS
<1>2. Len(h) \in Nat /\ f \in 1 .. Len(h) /\ i \in f .. Len(h) /\ s \in f .. i
  BY <1>1, PlacesIn, SolidEnds, GroupStartIs
<1>3. i - s <= 3
  <2>1. CASE h[i] = "."
    <3>1. i \in DotsOf(h) BY <1>2, <2>1, PlacesIn
    <3>2. IsByte(Group(h, i)) BY <1>2, <3>1 DEF GoodUpTo
    <3> QED BY <1>1, <1>2, <3>2, GroupIs
  <2>2. CASE h[i] # "."
    <3>1. GroupStart(h, i + 1) = s BY <1>1, <2>2, GroupStartMoves
    <3> QED BY <1>2, <3>1 DEF GoodUpTo
  <2> QED BY <2>1, <2>2
<1>4. \A k \in f .. i - 1 : h[k] \in Digits \cup {"."} BY <1>1, <1>2 DEF GoodUpTo
<1>5. \A d \in DotsOf(h) : d <= i - 1 => d - 1 \notin DotsOf(h) /\ IsByte(Group(h, d))
  <2>1. \A d \in DotsOf(h) : d \in Int BY PlacesIn
  <2> QED BY <1>2, <2>1 DEF GoodUpTo
<1>6. i - 1 + 1 = i BY <1>2
<1>7. i - 1 + 1 - GroupStart(h, i - 1 + 1) <= 3 BY <1>1, <1>2, <1>3, <1>6
<1> QED BY <1>1, <1>4, <1>5, <1>7 DEF GoodUpTo

(* What the scan that goes on is in front of. *)
Going(h, i, st) ==
  /\ SolidIn(h) # {} /\ i \in First(h) .. Len(h)
  /\ st \in States /\ Goes(st) /\ GoodUpTo(h, i - 1) /\ InState(h, i - 1, st)

LEMMA GoingIs ==
  ASSUME NEW h \in Seq(Chars), NEW i, NEW st, Going(h, i, st)
  PROVE  LET f == First(h) s == GroupStart(h, i)
         IN /\ Len(h) \in Nat /\ f \in 1 .. Len(h) /\ i \in f .. Len(h) /\ s \in f .. i
            /\ st.ndots = Cardinality(DotsUpTo(h, i - 1))
            /\ st.cur_d = 2 - (i - s) /\ i - s <= 3
            /\ st.nip = LeftAligned(h, s, i - 1)
            /\ st.prev_c = IF i - 1 < f THEN "start" ELSE h[i - 1]
            /\ \A k \in f .. i - 1 : h[k] \in Digits \cup {"."}
            /\ \A k \in s .. i - 1 : h[k] \in Digits
            /\ \A d \in DotsOf(h) : d <= i - 1 => d - 1 \notin DotsOf(h) /\ IsByte(Group(h, d))
            /\ ~isspace(h[i]) \/ i > f
<1>1. PICK f, s : f = First(h) /\ s = GroupStart(h, i) OBVIOUS
<1>2. Len(h) \in Nat /\ f \in 1 .. Len(h) /\ i \in f .. Len(h) /\ s \in f .. i
      /\ ~isspace(h[f]) /\ \A j \in s .. i - 1 : h[j] # "."
  BY <1>1, PlacesIn, SolidEnds, GroupStartIs DEF Going
<1>3. i - 1 + 1 = i BY <1>2
<1>4. \A k \in f .. i - 1 : h[k] \in Digits \cup {"."} BY <1>1 DEF Going, GoodUpTo
<1>5. \A k \in s .. i - 1 : h[k] \in Digits BY <1>2, <1>4
<1> QED BY <1>1, <1>2, <1>3, <1>4, <1>5 DEF Going, GoodUpTo, InState

LEMMA GoesThroughDot ==
  ASSUME NEW h \in Seq(Chars), NEW i, NEW st, Going(h, i, st), h[i] = "."
  PROVE  Knows(h, i, ScanChar(st, h[i]))
<1>1. PICK f, s, y : f = First(h) /\ s = GroupStart(h, i) /\ y = ScanChar(st, h[i]) OBVIOUS
<1>2. /\ Len(h) \in Nat /\ f \in 1 .. Len(h) /\ i \in f .. Len(h) /\ s \in f .. i
      /\ st.ndots = Cardinality(DotsUpTo(h, i - 1))
      /\ st.cur_d = 2 - (i - s) /\ i - s <= 3
      /\ st.nip = LeftAligned(h, s, i - 1)
      /\ st.prev_c = IF i - 1 < f THEN "start" ELSE h[i - 1]
      /\ \A k \in f .. i - 1 : h[k] \in Digits \cup {"."}
      /\ \A k \in s .. i - 1 : h[k] \in Digits
      /\ \A d \in DotsOf(h) : d <= i - 1 => d - 1 \notin DotsOf(h) /\ IsByte(Group(h, d))
  BY <1>1, GoingIs
<1>3. y = ReadDot(st) BY <1>1, DigitsAre DEF ScanChar, Going, Goes
<1>4. y \in States
  <2>1. h[i] \in Chars BY <1>2
  <2> QED BY <1>1, <2>1, ScanCharTyped DEF Going
<1>5. st.prev_c = "." <=> i - 1 \in DotsOf(h)
  <2>1. i - 1 < f => i - 1 \notin DotsOf(h)
    <3>1. \A k \in 1 .. Len(h) : k < f => isspace(h[k]) BY <1>1, SolidEnds DEF Going
    <3> QED BY <3>1, PlacesIn, DigitsAre
  <2>2. ~(i - 1 < f) => (h[i - 1] = "." <=> i - 1 \in DotsOf(h))
    <3>1. ~(i - 1 < f) => i - 1 \in 1 .. Len(h) BY <1>2
    <3> QED BY <3>1, PlacesIn
  <2> QED BY <1>2, <2>1, <2>2
<1>6. IsByte(Group(h, i)) <=> GroupValue(st) <= 255
  <2>1. IsByte(Group(h, i)) <=>
          /\ i - s <= 3 /\ \A j \in s .. i - 1 : h[j] \in Digits
          /\ LeftAligned(h, s, i - 1) \div powui(3 - (i - s)) <= 255
    <3>1. i \in f .. Len(h) + 1 BY <1>2
    <3> QED BY <1>1, <3>1, GroupIs DEF Going
  <2>2. st.cur_d + 1 = 3 - (i - s) BY <1>2
  <2> QED BY <1>2, <2>1, <2>2 DEF GroupValue
<1>7. GroupStart(h, i + 1) = i + 1 BY <1>1, GroupStartMoves DEF Going
<1>8. GoodUpTo(h, i) <=> i - 1 \notin DotsOf(h) /\ IsByte(Group(h, i))
  <2>1. i \in DotsOf(h) BY <1>2, PlacesIn
  <2>2. \A d \in DotsOf(h) : d <= i => d <= i - 1 \/ d = i BY <1>2, PlacesIn
  <2>3. \A k \in f .. i : h[k] \in Digits \cup {"."}
    <3>1. \A k \in f .. i : k \in f .. i - 1 \/ k = i BY <1>2
    <3> QED BY <1>2, <3>1
  <2>4. i + 1 - (i + 1) <= 3 /\ i <= i BY <1>2
  <2> QED BY <1>1, <1>2, <1>7, <2>1, <2>2, <2>3, <2>4 DEF GoodUpTo
<1>9. Goes(y) <=> GoodUpTo(h, i)
  <2>1. GroupValue(st) > 255 <=> ~(GroupValue(st) <= 255)
    <3>1. st.nip \in Int /\ powui(st.cur_d + 1) \in Nat \ {0}
      <4>1. st.cur_d + 1 \in 0 .. 3 BY DEF Going, States
      <4> QED BY <4>1 DEF Going, States, powui
    <3>2. GroupValue(st) \in Int BY <3>1 DEF GroupValue
    <3> QED BY <3>2
  <2>2. CASE st.prev_c = "." \/ GroupValue(st) > 255
    <3>1. ~y.ok BY <1>3, <2>2 DEF ReadDot, Reject, Going, States
    <3> QED BY <1>5, <1>6, <1>8, <2>1, <2>2, <3>1 DEF Goes
  <2>3. CASE ~(st.prev_c = "." \/ GroupValue(st) > 255)
    <3>1. y.ok /\ ~y.in_tail BY <1>3, <2>3 DEF ReadDot, Going, States, Goes
    <3> QED BY <1>5, <1>6, <1>8, <2>1, <2>3, <3>1 DEF Goes
  <2> QED BY <2>2, <2>3
<1>10. ASSUME Goes(y) PROVE InState(h, i, y)
  <2>1. y = [st EXCEPT !.ndots = @ + 1, !.nip = 0, !.cur_d = 2, !.prev_c = "."]
    BY <1>3, <1>10 DEF ReadDot, Reject, Goes, Going, States
  <2>2. y.ndots = st.ndots + 1 /\ y.nip = 0 /\ y.cur_d = 2 /\ y.prev_c = "."
    BY <2>1 DEF Going, States
  <2>3. Cardinality(DotsUpTo(h, i)) = Cardinality(DotsUpTo(h, i - 1)) + 1
    <3>1. i \in 1 .. Len(h) BY <1>2
    <3> QED BY <3>1, DotsCounted
  <2>4. LeftAligned(h, i + 1, i) = 0 /\ 2 - (i + 1 - (i + 1)) = 2 BY <1>2 DEF LeftAligned
  <2>5. ~(i < f) BY <1>2
  <2> QED BY <1>1, <1>2, <1>7, <2>2, <2>3, <2>4, <2>5 DEF InState
<1> QED BY <1>1, <1>4, <1>9, <1>10 DEF Knows

LEMMA GoesThroughDigit ==
  ASSUME NEW h \in Seq(Chars), NEW i, NEW st, Going(h, i, st), h[i] \in Digits
  PROVE  Knows(h, i, ScanChar(st, h[i]))
<1>1. PICK f, s, y : f = First(h) /\ s = GroupStart(h, i) /\ y = ScanChar(st, h[i]) OBVIOUS
<1>2. /\ Len(h) \in Nat /\ f \in 1 .. Len(h) /\ i \in f .. Len(h) /\ s \in f .. i
      /\ st.ndots = Cardinality(DotsUpTo(h, i - 1))
      /\ st.cur_d = 2 - (i - s) /\ i - s <= 3
      /\ st.nip = LeftAligned(h, s, i - 1)
      /\ \A k \in f .. i - 1 : h[k] \in Digits \cup {"."}
      /\ \A d \in DotsOf(h) : d <= i - 1 => d - 1 \notin DotsOf(h) /\ IsByte(Group(h, d))
  BY <1>1, GoingIs
<1>3. h[i] # "." /\ ~isspace(h[i]) /\ h[i] \in DOMAIN DigitValue BY DigitsAre
<1>4. y = ReadDigit(st, h[i]) BY <1>1, <1>3 DEF ScanChar, Going, Goes
<1>5. y \in States
  <2>1. h[i] \in Chars BY <1>2
  <2> QED BY <1>1, <2>1, ScanCharTyped DEF Going
<1>6. GroupStart(h, i + 1) = s BY <1>1, <1>3, GroupStartMoves DEF Going
<1>7. GoodUpTo(h, i) <=> i + 1 - s <= 3
  <2>1. \A d \in DotsOf(h) : d <= i => d <= i - 1 BY <1>2, <1>3, PlacesIn
  <2>2. \A k \in f .. i : h[k] \in Digits \cup {"."}
    <3>1. \A k \in f .. i : k \in f .. i - 1 \/ k = i BY <1>2
    <3> QED BY <1>2, <3>1
  <2> QED BY <1>1, <1>2, <1>6, <2>1, <2>2 DEF GoodUpTo
<1>8. Goes(y) <=> GoodUpTo(h, i)
  <2>1. CASE st.cur_d < 0
    <3>1. ~y.ok BY <1>4, <2>1 DEF ReadDigit, Reject, Going, States
    <3>2. ~(i + 1 - s <= 3) BY <1>2, <2>1
    <3> QED BY <1>7, <3>1, <3>2 DEF Goes
  <2>2. CASE ~(st.cur_d < 0)
    <3>1. y.ok /\ ~y.in_tail BY <1>4, <2>2 DEF ReadDigit, Going, States, Goes
    <3>2. i + 1 - s <= 3 BY <1>2, <2>2
    <3> QED BY <1>7, <3>1, <3>2 DEF Goes
  <2> QED BY <2>1, <2>2
<1>9. ASSUME Goes(y) PROVE InState(h, i, y)
  <2>1. PICK d : d = DigitValue[h[i]] OBVIOUS
  <2>2. y = [st EXCEPT !.nip = @ + d * powui(st.cur_d), !.cur_d = @ - 1, !.prev_c = h[i]]
        /\ ~(st.cur_d < 0)
    BY <1>4, <1>9, <2>1 DEF ReadDigit, Reject, Goes, Going, States
  <2>3. /\ y.ndots = st.ndots /\ y.nip = st.nip + d * powui(st.cur_d) /\ y.cur_d = st.cur_d - 1
        /\ y.prev_c = h[i]
    BY <2>2 DEF Going, States
  <2>4. DotsUpTo(h, i) = DotsUpTo(h, i - 1)
    <3>1. i \in 1 .. Len(h) BY <1>2
    <3> QED BY <1>3, <3>1, DotsCounted
  <2>5. d \in Nat BY <2>1, DigitsAre
  <2>6. LeftAligned(h, s, i) = LeftAligned(h, s, i - 1) + d * powui(2 - (i - s))
    <3>1. i - s = 0 \/ i - s = 1 \/ i - s = 2 BY <1>2, <2>2
    <3>2. CASE i - s = 0
      <4>1. i = s /\ LeftAligned(h, s, i) = 100 * d /\ LeftAligned(h, s, i - 1) = 0
        BY <1>2, <2>1, <2>5, <3>2 DEF LeftAligned
      <4>2. powui(2 - (i - s)) = 100 BY <3>2 DEF powui
      <4> QED BY <2>5, <4>1, <4>2
    <3>3. CASE i - s = 1
      <4>1. PICK a : a = DigitValue[h[s]] OBVIOUS
      <4>2. a \in Nat
        <5>1. s \in s .. i - 1 BY <1>2, <3>3
        <5>2. h[s] \in Digits BY <1>1, <5>1, GoingIs
        <5> QED BY <4>1, <5>2, DigitsAre
      <4>3. LeftAligned(h, s, i) = 100 * a + 10 * d /\ LeftAligned(h, s, i - 1) = 100 * a
        <5>1. s + 1 = i BY <1>2, <3>3
        <5> QED BY SMTT(30), <1>2, <2>1, <2>5, <4>1, <4>2, <5>1 DEF LeftAligned
      <4>4. powui(2 - (i - s)) = 10 BY <3>3 DEF powui
      <4> QED BY <2>5, <4>2, <4>3, <4>4
    <3>4. CASE i - s = 2
      <4>1. PICK a, b : a = DigitValue[h[s]] /\ b = DigitValue[h[s + 1]] OBVIOUS
      <4>2. a \in Nat /\ b \in Nat
        <5>1. s \in s .. i - 1 /\ s + 1 \in s .. i - 1 BY <1>2, <3>4
        <5>2. h[s] \in Digits /\ h[s + 1] \in Digits BY <1>1, <5>1, GoingIs
        <5> QED BY <4>1, <5>2, DigitsAre
      <4>3. LeftAligned(h, s, i) = 100 * a + 10 * b + d /\ LeftAligned(h, s, i - 1) = 100 * a + 10 * b
        <5>1. s + 2 = i /\ s + 1 = i - 1 /\ s \in Int BY <1>2, <3>4
        <5>2. h[s + 2] = h[i] BY <5>1
        <5>3. s <= i /\ s + 1 <= i /\ s <= i - 1 /\ s + 1 <= i - 1 /\ ~(s + 2 <= i - 1) /\ s + 2 <= i
          BY <5>1
        <5> QED BY SMTT(30), <2>1, <2>5, <4>1, <4>2, <5>2, <5>3 DEF LeftAligned
      <4>4. powui(2 - (i - s)) = 1 BY <3>4 DEF powui
      <4> QED BY <2>5, <4>2, <4>3, <4>4
    <3> QED BY <3>1, <3>2, <3>3, <3>4
  <2>7. st.cur_d - 1 = 2 - (i + 1 - s) /\ ~(i < f) BY <1>2
  <2> QED BY <1>1, <1>2, <1>6, <2>3, <2>4, <2>6, <2>7 DEF InState
<1> QED BY <1>1, <1>5, <1>8, <1>9 DEF Knows

LEMMA GoesNoFurther ==
  ASSUME NEW h \in Seq(Chars), NEW i, NEW st, Going(h, i, st), h[i] \notin Digits \cup {"."}
  PROVE  Knows(h, i, ScanChar(st, h[i]))
<1>1. PICK f, y : f = First(h) /\ y = ScanChar(st, h[i]) OBVIOUS
<1>2. /\ Len(h) \in Nat /\ f \in 1 .. Len(h) /\ i \in f .. Len(h)
      /\ st.prev_c = IF i - 1 < f THEN "start" ELSE h[i - 1]
      /\ \A k \in f .. i - 1 : h[k] \in Digits \cup {"."}
      /\ ~isspace(h[i]) \/ i > f
  BY <1>1, GoingIs
<1>3. y \in States
  <2>1. h[i] \in Chars BY <1>2
  <2> QED BY <1>1, <2>1, ScanCharTyped DEF Going
<1>4. ~GoodUpTo(h, i) BY <1>1, <1>2 DEF GoodUpTo
<1>5. ~(st.prev_c = "start" /\ isspace(h[i]))
  <2> SUFFICES ASSUME i > f PROVE st.prev_c # "start" BY <1>2
  <2>1. i - 1 \in f .. i - 1 /\ ~(i - 1 < f) BY <1>2
  <2>2. "start" \notin Digits \cup {"."} BY DEF Digits
  <2> QED BY <1>2, <2>1, <2>2
<1>6. y = ReadRest(st, h[i]) BY <1>1, <1>5, DigitsAre DEF ScanChar, Going, Goes
<1>7. ~Goes(y) BY <1>6 DEF ReadRest, Reject, Goes, Going, States
<1> QED BY <1>1, <1>3, <1>4, <1>7 DEF Knows

LEMMA KnowsMore ==
  ASSUME NEW h \in Seq(Chars), SolidIn(h) # {}, NEW i \in First(h) .. Len(h), NEW st,
         Knows(h, i - 1, st)
  PROVE  Knows(h, i, ScanChar(st, h[i]))
<1>1. i \in 1 .. Len(h) BY PlacesIn, SolidEnds
<1>2. h[i] \in Chars BY <1>1
<1>3. CASE Goes(st)
  <2>1. Going(h, i, st) BY <1>3 DEF Going, Knows
  <2> QED BY <2>1, GoesThroughDot, GoesThroughDigit, GoesNoFurther
<1>4. CASE ~Goes(st)
  <2>1. ScanChar(st, h[i]) \in States /\ ~Goes(ScanChar(st, h[i]))
    BY <1>2, <1>4, ScanCharTyped DEF Knows
  <2>2. ~GoodUpTo(h, i) BY <1>4, GoodBefore DEF Knows
  <2> QED BY <2>1, <2>2 DEF Knows
<1> QED BY <1>3, <1>4

(* Spaces in front leave no trace. *)
LEMMA ScanBegins ==
  ASSUME NEW h \in Seq(Chars), NEW m \in 0 .. Len(h), \A k \in 1 .. m : isspace(h[k])
  PROVE  Scanned(h)[m] = ScanStart
<1> DEFINE S == {i \in 0 .. m : Scanned(h)[i] = ScanStart}
<1>1. 0 \in S BY ScanIs
<1>2. ASSUME NEW i \in 0 + 1 .. m, i - 1 \in S PROVE i \in S
  <2>1. i \in 1 .. Len(h) /\ i \in 1 .. m /\ i \in 0 .. m BY <1>2
  <2>2. Scanned(h)[i] = ScanChar(ScanStart, h[i]) BY <1>2, <2>1, ScanIs
  <2>3. isspace(h[i]) BY <2>1
  <2>4. ScanChar(ScanStart, h[i]) = ScanStart BY <2>3 DEF ScanChar, ScanStart
  <2> QED BY <2>1, <2>2, <2>4
<1>3. \A i \in 0 .. m : i \in S
  <2>1. m \in Int /\ 0 \in Int BY PlacesIn
  <2> HIDE DEF S
  <2>2. \A i \in 0 + 1 .. m : i - 1 \in S => i \in S BY <1>2
  <2> QED BY <1>1, <2>1, <2>2, UpTo
<1>4. m \in 0 .. m BY PlacesIn
<1> QED BY <1>3, <1>4

LEMMA KnowsFirst ==
  ASSUME NEW h \in Seq(Chars), SolidIn(h) # {}
  PROVE  Knows(h, First(h) - 1, Scanned(h)[First(h) - 1])
<1>1. PICK f, i : f = First(h) /\ i = First(h) - 1 OBVIOUS
<1>2. /\ Len(h) \in Nat /\ f \in 1 .. Len(h) /\ i = f - 1 /\ i \in 0 .. Len(h)
      /\ \A k \in 1 .. Len(h) : k < f => isspace(h[k])
  BY <1>1, PlacesIn, SolidEnds
<1>3. Scanned(h)[i] = ScanStart
  <2>1. \A k \in 1 .. i : isspace(h[k]) BY <1>2
  <2> QED BY <1>2, <2>1, ScanBegins
<1>4. ScanStart \in States /\ Goes(ScanStart) BY DEF ScanStart, States, Goes
<1>5. GroupStart(h, i + 1) = f
  <2>1. f \in f .. Len(h) + 1 BY <1>2
  <2>2. GroupStart(h, f) \in f .. f BY <1>1, <2>1, GroupStartIs
  <2>3. i + 1 = f BY <1>2
  <2> QED BY <1>2, <2>2, <2>3
<1>6. \A d \in DotsOf(h) : ~(d <= i) BY <1>2, PlacesIn, DigitsAre
<1>7. GoodUpTo(h, i)
  <2>1. \A k \in f .. i : FALSE BY <1>2
  <2>2. i + 1 - f <= 3 BY <1>2
  <2> QED BY <1>1, <1>5, <1>6, <2>1, <2>2 DEF GoodUpTo
<1>8. InState(h, i, ScanStart)
  <2>1. DotsUpTo(h, i) = {} BY <1>6 DEF DotsUpTo
  <2>2. Cardinality(DotsUpTo(h, i)) = 0 BY <2>1, FS_EmptySet
  <2>3. LeftAligned(h, f, i) = 0 /\ 2 - (i + 1 - f) = 2 /\ i < f BY <1>2 DEF LeftAligned
  <2> QED BY <1>1, <1>5, <2>2, <2>3 DEF InState, ScanStart
<1> QED BY <1>1, <1>3, <1>4, <1>7, <1>8 DEF Knows

LEMMA ScanKnows ==
  ASSUME NEW h \in Seq(Chars), SolidIn(h) # {}, NEW i \in First(h) - 1 .. Len(h)
  PROVE  Knows(h, i, Scanned(h)[i])
<1>1. PICK f : f = First(h) OBVIOUS
<1>2. Len(h) \in Nat /\ f \in 1 .. Len(h) BY <1>1, PlacesIn, SolidEnds
<1> DEFINE S == {k \in f - 1 .. Len(h) : Knows(h, k, Scanned(h)[k])}
<1>3. f - 1 \in S BY <1>1, <1>2, KnowsFirst
<1>4. ASSUME NEW k \in f - 1 + 1 .. Len(h), k - 1 \in S PROVE k \in S
  <2>1. k \in f .. Len(h) /\ k \in 1 .. Len(h) /\ k \in f - 1 .. Len(h) BY <1>2
  <2>2. Scanned(h)[k] = ScanChar(Scanned(h)[k - 1], h[k]) BY <2>1, ScanIs
  <2>3. Knows(h, k, ScanChar(Scanned(h)[k - 1], h[k])) BY <1>1, <1>4, <2>1, KnowsMore
  <2> QED BY <2>1, <2>2, <2>3
<1>5. \A k \in f - 1 .. Len(h) : k \in S
  <2>1. f - 1 \in Int /\ Len(h) \in Int BY <1>2
  <2> HIDE DEF S
  <2> QED BY <1>3, <1>4, <2>1, UpTo
<1> QED BY <1>1, <1>5

(* Behind the last character that is no space, only spaces follow. *)
BehindLast(h, i) ==
  LET l == Max(SolidIn(h)) e == Scanned(h)[l] st == Scanned(h)[i]
  IN /\ st \in States
     /\ st.ok <=> Goes(e) /\ (i > l => h[l] # ".")
     /\ st.ok => /\ st.ndots = e.ndots /\ GroupValue(st) = GroupValue(e)
                 /\ st.in_tail <=> i > l
                 /\ st.prev_c = h[l]

LEMMA LastIs ==
  ASSUME NEW h \in Seq(Chars), SolidIn(h) # {}
  PROVE  BehindLast(h, Max(SolidIn(h)))
<1>1. PICK f, l, e : f = First(h) /\ l = Max(SolidIn(h)) /\ e = Scanned(h)[l] OBVIOUS
<1>2. Len(h) \in Nat /\ f \in 1 .. Len(h) /\ l \in f .. Len(h) /\ ~isspace(h[l])
  BY <1>1, PlacesIn, SolidEnds
<1>3. Knows(h, l, e)
  <2>1. l \in f - 1 .. Len(h) BY <1>2
  <2> QED BY <1>1, <2>1, ScanKnows
<1>4. e = ScanChar(Scanned(h)[l - 1], h[l]) /\ Knows(h, l - 1, Scanned(h)[l - 1])
  <2>1. l \in 1 .. Len(h) /\ l - 1 \in f - 1 .. Len(h) BY <1>2
  <2> QED BY <1>1, <2>1, ScanIs, ScanKnows
<1>5. e.ok => ~e.in_tail
  <2>1. PICK x : x = Scanned(h)[l - 1] OBVIOUS
  <2>2. x \in States /\ e = ScanChar(x, h[l]) BY <1>4, <2>1 DEF Knows
  <2> QED BY <1>2, <2>2 DEF ScanChar, ReadDot, ReadDigit, ReadRest, Reject, States
<1>6. Goes(e) => e.prev_c = h[l]
  <2>1. ~(l < f) BY <1>2
  <2> QED BY <1>1, <1>3, <2>1 DEF Knows, InState
<1>7. ~(l > l) BY <1>2
<1> QED BY <1>1, <1>3, <1>5, <1>6, <1>7 DEF BehindLast, Knows, Goes

LEMMA SpacesFollow ==
  ASSUME NEW h \in Seq(Chars), SolidIn(h) # {}, NEW i \in Max(SolidIn(h)) + 1 .. Len(h),
         BehindLast(h, i - 1)
  PROVE  BehindLast(h, i)
<1>1. PICK l, e, x, y : /\ l = Max(SolidIn(h)) /\ e = Scanned(h)[l]
                        /\ x = Scanned(h)[i - 1] /\ y = Scanned(h)[i]
  OBVIOUS
<1>2. Len(h) \in Nat /\ l \in 1 .. Len(h) /\ i \in l + 1 .. Len(h) /\ isspace(h[i])
  BY <1>1, PlacesIn, SolidEnds
<1>3. y = ScanChar(x, h[i]) BY <1>1, <1>2, ScanIs
<1>4. /\ x \in States
      /\ x.ok <=> Goes(e) /\ (i - 1 > l => h[l] # ".")
      /\ x.ok => /\ x.ndots = e.ndots /\ GroupValue(x) = GroupValue(e)
                 /\ x.in_tail <=> i - 1 > l
                 /\ x.prev_c = h[l]
  BY <1>1 DEF BehindLast
<1>5. h[i] \notin Digits \cup {"."} /\ h[i] \in Chars /\ h[l] \in Chars BY <1>2, DigitsAre
<1>6. y \in States BY <1>3, <1>4, <1>5, ScanCharTyped
<1>7. i > l BY <1>2
<1>8. CASE ~x.ok
  <2>1. ~y.ok BY <1>3, <1>8 DEF ScanChar
  <2>2. ~(Goes(e) /\ h[l] # ".") BY <1>4, <1>8
  <2> QED BY <1>1, <1>6, <1>7, <2>1, <2>2 DEF BehindLast
<1>9. CASE x.ok /\ x.in_tail
  <2>1. y = x BY <1>2, <1>3, <1>9 DEF ScanChar
  <2>2. i - 1 > l BY <1>4, <1>9
  <2> QED BY <1>1, <1>4, <1>6, <1>7, <1>9, <2>1, <2>2 DEF BehindLast
<1>10. CASE x.ok /\ ~x.in_tail
  <2>1. ~(i - 1 > l) /\ Goes(e) BY <1>4, <1>10
  <2>2. x.prev_c # "start"
    <3>1. ~isspace(h[l]) /\ "start" \notin Chars
      <4>1. ~isspace(h[l]) BY <1>1, SolidEnds
      <4>2. "start" \notin Chars BY DEF Chars, Delimiters, Others, Letters, Digits
      <4> QED BY <4>1, <4>2
    <3> QED BY <1>4, <1>5, <1>10, <3>1
  <2>3. y = ReadRest(x, h[i]) BY <1>3, <1>5, <1>10, <2>2, DigitsAre DEF ScanChar
  <2>4. CASE h[l] = "."
    <3>1. ~y.ok BY <1>4, <1>10, <2>3, <2>4 DEF ReadRest, Reject, States
    <3> QED BY <1>1, <1>6, <1>7, <2>4, <3>1 DEF BehindLast
  <2>5. CASE h[l] # "."
    <3>1. y = [x EXCEPT !.in_tail = TRUE] BY <1>2, <1>4, <1>10, <2>3, <2>5 DEF ReadRest
    <3>2. y.ok /\ y.in_tail /\ y.ndots = x.ndots /\ y.nip = x.nip /\ y.cur_d = x.cur_d
          /\ y.prev_c = x.prev_c
      BY <1>4, <1>10, <3>1 DEF States
    <3>3. GroupValue(y) = GroupValue(x) BY <3>2 DEF GroupValue
    <3> QED BY <1>1, <1>4, <1>6, <1>7, <1>10, <2>1, <2>5, <3>2, <3>3 DEF BehindLast
  <2> QED BY <2>4, <2>5
<1> QED BY <1>8, <1>9, <1>10

LEMMA EndIs ==
  ASSUME NEW h \in Seq(Chars), SolidIn(h) # {}
  PROVE  BehindLast(h, Len(h))
<1>1. PICK l : l = Max(SolidIn(h)) OBVIOUS
<1>2. Len(h) \in Nat /\ l \in 1 .. Len(h) BY <1>1, PlacesIn, SolidEnds
<1> DEFINE S == {k \in l .. Len(h) : BehindLast(h, k)}
<1>3. l \in S BY <1>1, <1>2, LastIs
<1>4. ASSUME NEW k \in l + 1 .. Len(h), k - 1 \in S PROVE k \in S
  <2>1. k \in l .. Len(h) BY <1>2
  <2> QED BY <1>1, <1>4, <2>1, SpacesFollow
<1>5. \A k \in l .. Len(h) : k \in S
  <2>1. l \in Int /\ Len(h) \in Int BY <1>2
  <2> HIDE DEF S
  <2> QED BY <1>3, <1>4, <2>1, UpTo
<1>6. Len(h) \in l .. Len(h) BY <1>2
<1> QED BY <1>5, <1>6

(***************************************************************************)
(* Four groups.                                                            *)
(***************************************************************************)
LEMMA GroupsAreBytes ==
  ASSUME NEW h \in Seq(Chars), SolidIn(h) # {}
  PROVE  LET l == Max(SolidIn(h))
         IN GoodUpTo(h, l) /\ IsByte(Group(h, l + 1))
            <=> /\ \A k \in DotsOf(h) \cup {l + 1} : IsByte(Group(h, k))
                /\ \A k \in DotsOf(h) : k + 1 \notin DotsOf(h)
<1>1. PICK f, l : f = First(h) /\ l = Max(SolidIn(h)) OBVIOUS
<1>2. /\ Len(h) \in Nat /\ f \in 1 .. Len(h) /\ l \in f .. Len(h)
      /\ \A k \in 1 .. Len(h) : k < f \/ k > l => isspace(h[k])
  BY <1>1, PlacesIn, SolidEnds
<1>3. \A d : d \in DotsOf(h) <=> d \in f .. l /\ h[d] = "." BY <1>2, PlacesIn, DigitsAre
<1>4. ASSUME GoodUpTo(h, l), IsByte(Group(h, l + 1))
      PROVE  /\ \A k \in DotsOf(h) \cup {l + 1} : IsByte(Group(h, k))
             /\ \A k \in DotsOf(h) : k + 1 \notin DotsOf(h)
  <2>1. \A d \in DotsOf(h) : d - 1 \notin DotsOf(h) /\ IsByte(Group(h, d))
    BY <1>2, <1>3, <1>4 DEF GoodUpTo
  <2>2. ASSUME NEW k \in DotsOf(h) PROVE k + 1 \notin DotsOf(h)
    <3> SUFFICES ASSUME k + 1 \in DotsOf(h) PROVE FALSE OBVIOUS
    <3>1. PICK d : d = k + 1 OBVIOUS
    <3>2. d - 1 = k BY <1>2, <1>3, <3>1
    <3> QED BY <2>1, <3>1, <3>2
  <2> QED BY <1>4, <2>1, <2>2
<1>5. ASSUME \A k \in DotsOf(h) \cup {l + 1} : IsByte(Group(h, k)),
             \A k \in DotsOf(h) : k + 1 \notin DotsOf(h)
      PROVE  GoodUpTo(h, l)
  <2>1. ASSUME NEW k \in f .. l, h[k] # "." PROVE h[k] \in Digits
    <3> DEFINE E == {e \in k + 1 .. l + 1 : e \in DotsOf(h) \cup {l + 1}}
    <3>1. E \in SUBSET (k + 1 .. l + 1) /\ l + 1 \in E /\ k + 1 \in Int /\ l + 1 \in Int
      BY <1>2
    <3>2. Min(E) \in E /\ \A x \in E : Min(E) <= x
      <4> HIDE DEF E
      <4>1. E # {} BY <3>1
      <4> QED BY <3>1, <4>1, HasSmallest, Zenon
    <3>3. PICK m, s : m = Min(E) /\ s = GroupStart(h, m) OBVIOUS
    <3>4. m \in k + 1 .. l + 1 /\ m \in DotsOf(h) \cup {l + 1} /\ \A x \in E : m <= x
      BY <3>2, <3>3
    <3>5. m \in f .. Len(h) + 1 BY <1>2, <3>4
    <3>6. s \in f .. m /\ (s = f \/ h[s - 1] = ".") BY <1>1, <3>3, <3>5, GroupStartIs
    <3>7. s <= k
      <4> SUFFICES ASSUME s > k PROVE FALSE BY <1>2, <3>6
      <4>1. h[s - 1] = "." /\ s - 1 # k BY <1>2, <2>1, <3>6
      <4>2. s - 1 \in k + 1 .. l + 1 /\ s - 1 \in f .. l BY <1>2, <3>4, <3>6, <4>1
      <4>3. s - 1 \in E BY <1>3, <4>1, <4>2
      <4>4. m <= s - 1 BY <3>4, <4>3
      <4> QED BY <3>5, <3>6, <4>4
    <3>8. IsByte(Group(h, m)) BY <1>5, <3>4
    <3>9. \A j \in s .. m - 1 : h[j] \in Digits BY <1>1, <3>3, <3>5, <3>8, GroupIs
    <3>10. k \in s .. m - 1 BY <1>2, <3>4, <3>6, <3>7
    <3> QED BY <3>9, <3>10
  <2>2. \A k \in f .. l : h[k] \in Digits \cup {"."} BY <2>1
  <2>3. ASSUME NEW d \in DotsOf(h) PROVE d - 1 \notin DotsOf(h) /\ IsByte(Group(h, d))
    <3> SUFFICES ASSUME d - 1 \in DotsOf(h) PROVE FALSE BY <1>5
    <3>1. d - 1 + 1 \notin DotsOf(h) BY <1>5
    <3>2. d - 1 + 1 = d BY <1>2, <1>3
    <3> QED BY <3>1, <3>2
  <2>4. l + 1 - GroupStart(h, l + 1) <= 3
    <3>1. PICK m : m = l + 1 OBVIOUS
    <3>2. IsByte(Group(h, m)) /\ m \in f .. Len(h) + 1 BY <1>2, <1>5, <3>1
    <3>3. m - GroupStart(h, m) <= 3 BY <1>1, <3>2, GroupIs
    <3>4. GroupStart(h, m) \in f .. m BY <1>1, <3>2, GroupStartIs
    <3> QED BY <1>2, <3>1, <3>3, <3>4
  <2> QED BY <1>1, <2>2, <2>3, <2>4 DEF GoodUpTo
<1>6. (\A k \in DotsOf(h) \cup {l + 1} : IsByte(Group(h, k))) => IsByte(Group(h, l + 1))
  OBVIOUS
<1> QED BY <1>1, <1>4, <1>5, <1>6

(* Whatever the host, and however long: is_ipv4 says whether it is four    *)
(* bytes.                                                                  *)
THEOREM Ipv4Correct == \A h \in Seq(Chars) : IsIpv4(h) <=> IsFourBytes(h)
<1> SUFFICES ASSUME NEW h \in Seq(Chars) PROVE IsIpv4(h) <=> IsFourBytes(h) OBVIOUS
<1>1. Len(h) \in Nat BY PlacesIn
<1>2. CASE SolidIn(h) = {}
  <2>1. \A k \in 1 .. Len(h) : isspace(h[k]) BY <1>2, PlacesIn
  <2>2. Scanned(h)[Len(h)] = ScanStart
    <3>1. Len(h) \in 0 .. Len(h) BY <1>1
    <3> QED BY <2>1, <3>1, ScanBegins
  <2>3. ~IsIpv4(h) BY <2>2 DEF IsIpv4, ScanStart
  <2>4. DotsOf(h) = {} BY <2>1, PlacesIn, DigitsAre
  <2>5. Cardinality(DotsOf(h)) = 0 BY <2>4, FS_EmptySet
  <2>6. ~IsFourBytes(h) BY <2>5 DEF IsFourBytes
  <2> QED BY <2>3, <2>6
<1>3. CASE SolidIn(h) # {}
  <2>1. PICK f, l, e, end : /\ f = First(h) /\ l = Max(SolidIn(h))
                            /\ e = Scanned(h)[l] /\ end = Scanned(h)[Len(h)]
    OBVIOUS
  <2>2. f \in 1 .. Len(h) /\ l \in f .. Len(h) BY <1>3, <2>1, SolidEnds
  <2>3. Knows(h, l, e)
    <3>1. l \in f - 1 .. Len(h) BY <1>1, <2>2
    <3> QED BY <1>3, <2>1, <3>1, ScanKnows
  <2>4. /\ end.ok <=> Goes(e) /\ (Len(h) > l => h[l] # ".")
        /\ end.ok => end.ndots = e.ndots /\ GroupValue(end) = GroupValue(e)
    BY <1>3, <2>1, EndIs DEF BehindLast
  <2>5. IsIpv4(h) <=> /\ Len(h) <= 15 /\ Goes(e) /\ (Len(h) > l => h[l] # ".")
                      /\ GroupValue(e) <= 255 /\ e.ndots = 3
    BY <2>1, <2>4 DEF IsIpv4
  <2>6. Goes(e) => /\ e.ndots = Cardinality(DotsOf(h))
                   /\ GroupValue(e) <= 255 <=> IsByte(Group(h, l + 1))
    <3> SUFFICES ASSUME Goes(e)
                 PROVE  /\ e.ndots = Cardinality(DotsOf(h))
                        /\ GroupValue(e) <= 255 <=> IsByte(Group(h, l + 1))
      OBVIOUS
    <3>1. PICK m, s : m = l + 1 /\ s = GroupStart(h, m) OBVIOUS
    <3>2. m \in f .. Len(h) + 1 /\ m - 1 = l BY <1>1, <2>2, <3>1
    <3>3. s \in f .. m /\ \A j \in s .. l : h[j] # "." BY <1>3, <2>1, <3>1, <3>2, GroupStartIs
    <3>4. GoodUpTo(h, l) /\ InState(h, l, e) BY <2>3 DEF Knows
    <3>5. DotsUpTo(h, l) = DotsOf(h)
      <4>1. \A k \in 1 .. Len(h) : k > l => isspace(h[k]) BY <1>3, <2>1, SolidEnds
      <4>2. \A d \in DotsOf(h) : d <= l BY <1>1, <2>2, <4>1, PlacesIn, DigitsAre
      <4> QED BY <4>2 DEF DotsUpTo
    <3>6. e.ndots = Cardinality(DotsOf(h)) /\ e.cur_d = 2 - (l + 1 - s) /\ e.nip = LeftAligned(h, s, l)
      BY <3>1, <3>4, <3>5 DEF InState
    <3>7. /\ l + 1 - s <= 3 /\ \A j \in s .. l : h[j] \in Digits
      BY <1>1, <2>1, <2>2, <3>1, <3>3, <3>4 DEF GoodUpTo
    <3>8. IsByte(Group(h, m)) <=> LeftAligned(h, s, l) \div powui(3 - (m - s)) <= 255
      <4>1. IsByte(Group(h, m)) <=>
              /\ m - s <= 3 /\ \A j \in s .. m - 1 : h[j] \in Digits
              /\ LeftAligned(h, s, m - 1) \div powui(3 - (m - s)) <= 255
        BY <1>3, <2>1, <3>1, <3>2, GroupIs
      <4>2. m - s <= 3 BY <2>2, <3>1, <3>3, <3>7
      <4> QED BY <3>2, <3>7, <4>1, <4>2
    <3>9. e.cur_d + 1 = 3 - (l + 1 - s) BY <2>2, <3>3, <3>6
    <3>10. GroupValue(e) = LeftAligned(h, s, l) \div powui(3 - (m - s))
      BY <2>2, <3>1, <3>3, <3>6, <3>9 DEF GroupValue
    <3> QED BY <2>2, <3>1, <3>6, <3>8, <3>10
  <2>7. Goes(e) <=> GoodUpTo(h, l) BY <2>3 DEF Knows
  <2>8. GoodUpTo(h, l) /\ IsByte(Group(h, l + 1))
        <=> /\ \A k \in DotsOf(h) \cup {l + 1} : IsByte(Group(h, k))
            /\ \A k \in DotsOf(h) : k + 1 \notin DotsOf(h)
    BY <1>3, <2>1, GroupsAreBytes
  <2>9. (Len(h) > l => h[l] # ".") <=> (h[l] = "." => l = Len(h)) BY <1>1, <2>2
  <2>10. (\A g \in GroupsOf(h) : IsByte(g)) <=> \A k \in DotsOf(h) \cup {l + 1} : IsByte(Group(h, k))
    BY <2>1 DEF GroupsOf
  <2>11. IsFourBytes(h) <=> /\ Len(h) <= 15 /\ Cardinality(DotsOf(h)) = 3
                            /\ \A k \in DotsOf(h) \cup {l + 1} : IsByte(Group(h, k))
                            /\ \A k \in DotsOf(h) : k + 1 \notin DotsOf(h)
                            /\ h[l] = "." => l = Len(h)
    BY <2>1, <2>10 DEF IsFourBytes
  <2> QED BY <2>5, <2>6, <2>7, <2>8, <2>9, <2>11
<1> QED BY <1>2, <1>3

(* is_ipv6 is about the brackets. *)
LEMMA BracketedIs ==
  ASSUME NEW h \in Seq(Chars) PROVE IsBracketed(h) <=> IsIpv6(h)
<1>1. PICK n, m : n = Len(h) /\ m = n - 1 OBVIOUS
<1>2. n \in Nat /\ m \in Int BY <1>1
<1>3. PICK i : i = SubSeq(h, 2, m) OBVIOUS
<1>4. /\ i \in Seq(Chars) /\ Len(i) = IF 2 <= m THEN m - 1 ELSE 0
      /\ \A k \in 1 .. m - 1 : i[k] = h[k + 1]
  <2>1. \A k \in 2 .. m : h[k] \in Chars BY <1>1, <1>2
  <2>2. /\ i \in Seq(Chars) /\ Len(i) = IF 2 <= m THEN m - 2 + 1 ELSE 0
        /\ \A k \in 1 .. m - 2 + 1 : i[k] = h[2 + k - 1]
    BY <1>2, <1>3, <2>1, SubSeqProperties
  <2> QED BY <1>2, <2>2
<1>5. PICK b : b = <<"[">> \o i \o <<"]">> OBVIOUS
<1>6. IsBracketed(h) <=> i # <<>> /\ h = b BY <1>1, <1>3, <1>5 DEF IsBracketed
<1>7. /\ b \in Seq(Chars) /\ Len(b) = Len(i) + 2
      /\ b[1] = "[" /\ b[Len(i) + 2] = "]"
      /\ \A k \in 1 .. Len(i) : b[k + 1] = i[k]
  <2>1. "[" \in Chars /\ "]" \in Chars BY DEF Chars, Delimiters
  <2> QED BY <1>4, <1>5, <2>1
<1>8. i # <<>> <=> n >= 3
  <2>1. i # <<>> <=> Len(i) # 0 BY <1>4, EmptySeq
  <2> QED BY <1>1, <1>2, <1>4, <2>1
<1>9. ASSUME IsIpv6(h) PROVE h = b
  <2>1. n >= 3 /\ h[1] = "[" /\ h[n] = "]" BY <1>1, <1>9 DEF IsIpv6
  <2>2. Len(i) = n - 2 BY <1>1, <1>2, <1>4, <2>1
  <2>3. ASSUME NEW k \in 1 .. n PROVE h[k] = b[k]
    <3>1. CASE k = 1 BY <1>7, <2>1, <3>1
    <3>2. CASE k = n BY <1>2, <1>7, <2>1, <2>2, <3>2
    <3>3. CASE k # 1 /\ k # n
      <4>1. PICK j : j = k - 1 OBVIOUS
      <4>2. j \in 1 .. n - 2 /\ k = j + 1 BY <1>2, <3>3, <4>1
      <4>3. b[j + 1] = i[j] BY <1>7, <2>2, <4>2
      <4>4. i[j] = h[j + 1] BY <1>1, <1>2, <1>4, <4>2
      <4> QED BY <4>2, <4>3, <4>4
    <3> QED BY <3>1, <3>2, <3>3
  <2>4. Len(b) = n BY <1>2, <1>7, <2>2
  <2> QED BY <1>1, <1>7, <2>3, <2>4, SeqEqual
<1>10. ASSUME h = b PROVE h[1] = "[" /\ h[n] = "]" BY <1>1, <1>7, <1>10
<1> QED BY <1>1, <1>6, <1>8, <1>9, <1>10 DEF IsIpv6

(* No address in brackets is one of four bytes: the '[' is in a group.     *)
LEMMA NotBoth ==
  ASSUME NEW h \in Seq(Chars), IsIpv6(h) PROVE ~IsIpv4(h)
<1>1. Len(h) \in Nat /\ Len(h) >= 3 /\ h[1] = "[" BY DEF IsIpv6
<1>2. Scanned(h)[0] = ScanStart /\ \A i \in 1 .. Len(h) : Scanned(h)[i] = ScanChar(Scanned(h)[i - 1], h[i])
  BY ScanIs
<1>3. ~Scanned(h)[1].ok
  <2>1. Scanned(h)[1] = ScanChar(ScanStart, "[") BY <1>1, <1>2
  <2>2. ~isspace("[") /\ "[" \notin DOMAIN DigitValue BY DEF isspace, DigitValue
  <2>3. ScanChar(ScanStart, "[") = Reject(ScanStart)
    BY <2>2 DEF ScanChar, ReadRest, ScanStart
  <2> QED BY <2>1, <2>3 DEF Reject, ScanStart
<1> DEFINE Rejected == {i \in 1 .. Len(h) : ~Scanned(h)[i].ok}
<1>4. \A i \in 1 + 1 .. Len(h) : i - 1 \in Rejected => i \in Rejected
  <2> SUFFICES ASSUME NEW i \in 2 .. Len(h), ~Scanned(h)[i - 1].ok PROVE ~Scanned(h)[i].ok
    BY <1>1
  <2>1. Scanned(h)[i] = ScanChar(Scanned(h)[i - 1], h[i]) BY <1>1, <1>2
  <2> QED BY <2>1 DEF ScanChar
<1>5. 1 \in Rejected BY <1>1, <1>3
<1>6. Len(h) \in Rejected
  <2>1. \A i \in 1 .. Len(h) : i \in Rejected
    <3>1. 1 \in Int /\ Len(h) \in Int BY <1>1
    <3> HIDE DEF Rejected
    <3> QED BY <3>1, <1>4, <1>5, UpTo, Zenon
  <2> QED BY <1>1, <2>1
<1> QED BY <1>6 DEF IsIpv4

(***************************************************************************)
(* The scan only ever takes a URL for one with an IPv6 host when it meets  *)
(* two colons in a row.                                                    *)
(***************************************************************************)
TypeScanned ==
  /\ url_type \in {"HAS_NO_TLD", "IPV6"}
  /\ url_type = "IPV6" => HasDoubleColon

LEMMA TypeScannedStep ==
  ASSUME TypeOK, TypeScanned, ReadChar PROVE TypeScanned'
<1>1. url' = url
  BY DEF ReadChar, SkipBracketed, ReadEscapedSlash, ReadOpeningSlash, ReadSlash, ReadAt, ReadColon,
       ReadQuestionMark, ReadHash, ReadOpenBracket, ReadCloseBracket, ReadOther, Switch, Read
<1>2. HasDoubleColon' <=> HasDoubleColon BY <1>1 DEF HasDoubleColon
<1>3. CASE ReadColon
  <2>1. current_pos < Len(url) /\ At(current_pos) = ":" BY <1>3 DEF ReadColon, Switch, Read
  <2>2. url_type' = url_type \/ (url_type' = "IPV6" /\ At(current_pos + 1) = ":")
    BY <1>3 DEF ReadColon
  <2>3. ASSUME At(current_pos + 1) = ":" PROVE HasDoubleColon
    <3>1. PICK k : k = current_pos + 1 OBVIOUS
    <3>2. k \in 1 .. Len(url) /\ Len(url) \in Nat BY <2>1, <3>1 DEF TypeOK
    <3>3. k \in 0 .. Len(url) - 1 /\ url[k + 1] = ":" BY <2>3, <3>1, <3>2 DEF At, CharAt
    <3>4. url[k] = ":"
      <4>1. current_pos \in 0 .. Len(url) - 1 BY <3>1, <3>2 DEF TypeOK
      <4> QED BY <2>1, <3>1, <4>1 DEF At, CharAt
    <3>5. k \in 1 .. Len(url) - 1 BY <3>2, <3>3
    <3> QED BY <3>3, <3>4, <3>5 DEF HasDoubleColon
  <2> QED BY <1>2, <2>2, <2>3 DEF TypeScanned
<1>4. CASE ~ReadColon
  <2>1. url_type' = url_type
    BY <1>4 DEF ReadChar, SkipBracketed, ReadEscapedSlash, ReadOpeningSlash, ReadSlash, ReadAt,
         ReadQuestionMark, ReadHash, ReadOpenBracket, ReadCloseBracket, ReadOther
  <2> QED BY <1>2, <2>1 DEF TypeScanned
<1> QED BY <1>3, <1>4

(* What Finish makes of it. *)
LEMMA TypeOfHost ==
  ASSUME HostSized, TypeScanned, NEW o \in HostOutcomes
  PROVE  /\ o.url_type = "IPV4" <=> ~IsIpv6(Host) /\ IsIpv4(Host)
         /\ IsIpv6(Host) => o.url_type = "IPV6"
         /\ o.url_type = "IPV6" => IsIpv6(Host) \/ HasDoubleColon
<1>1. CASE IsIpv6(Host) BY <1>1 DEF HostOutcomes
<1>2. CASE ~IsIpv6(Host) /\ IsIpv4(Host) BY <1>2 DEF HostOutcomes
<1>3. CASE ~IsIpv6(Host) /\ ~IsIpv4(Host)
  <2>1. o.url_type \in {url_type, "HAS_UNKNOWN_TLD", "HAS_MOZILLA_TLD"} BY <1>3 DEF HostOutcomes
  <2> QED BY <1>3, <2>1 DEF TypeScanned
<1> QED BY <1>1, <1>2, <1>3

LEMMA FinishTells ==
  ASSUME DecodeOK, TypeScanned, Finish PROVE AddressesTold'
<1>1. Scanning /\ ScanDone /\ SizesTyped BY DEF DecodeOK, Finish
<1>2. PICK o \in HostOutcomes :
        LET domain == DomainOrHost(o.names, PartSizes)
            found == WithoutTld(With(o.names, "domain", domain), domain)
        IN /\ pos'  = [f \in Fields |-> IF f \in DOMAIN found THEN found[f][1] ELSE pos[f]]
           /\ url_type' = o.url_type
  BY DEF Finish
<1>3. PICK g : g = Found(o.names) OBVIOUS
<1>4. pos' = [f \in Fields |-> IF f \in DOMAIN g THEN g[f][1] ELSE pos[f]]
  BY <1>2, <1>3 DEF Found
<1>5. DOMAIN g \subseteq HostNames BY <1>1, <1>3, FoundNames
<1>6. \A f \in {"host", "port", "resource_path", "query_string", "fragment"} : pos'[f] = pos[f]
  BY <1>4, <1>5 DEF HostNames, Fields
<1>7. url' = url BY DEF Finish
<1>8. HostEnd' = HostEnd
  BY <1>6, <1>7 DEF HostEnd, PortEnd, PathEnd, QueryEnd, Exist
<1>9. (HostSized' <=> HostSized) /\ Host' = Host /\ (HasDoubleColon' <=> HasDoubleColon)
  BY <1>6, <1>7, <1>8 DEF HostSized, Host, Exist, HasDoubleColon
<1>10. SUFFICES ASSUME HostSized
                PROVE  /\ o.url_type = "IPV4" <=> IsFourBytes(Host)
                       /\ IsBracketed(Host) => o.url_type = "IPV6"
                       /\ o.url_type = "IPV6" => IsBracketed(Host) \/ HasDoubleColon
  BY <1>2, <1>9 DEF AddressesTold
<1>11. PICK h : h = Host OBVIOUS
<1>12. h \in Seq(Chars) BY <1>1, <1>10, <1>11, HostIs
<1>13. /\ IsBracketed(h) <=> IsIpv6(h)
       /\ IsIpv4(h) <=> IsFourBytes(h)
       /\ IsIpv6(h) => ~IsIpv4(h)
  <2>1. IsBracketed(h) <=> IsIpv6(h) BY <1>12, BracketedIs
  <2>2. IsIpv4(h) <=> IsFourBytes(h) BY <1>12, Ipv4Correct
  <2>3. IsIpv6(h) => ~IsIpv4(h) BY <1>12, NotBoth
  <2> QED BY <2>1, <2>2, <2>3
<1> QED BY <1>2, <1>10, <1>11, <1>13, TypeOfHost

(* Call after call, on any handler: a host is said to be an IPv4 address   *)
(* exactly when it is one, and the same for IPv6 but for a URL with "::".  *)
THEOREM AddressesAreTold == DecodeSpec => []AddressesTold
<1> DEFINE Told == (in_call => TypeScanned) /\ AddressesTold
<1>1. DecodeInit => Told BY DEF DecodeInit, FeaturesZero, AddressesTold, Returned
<1>2. DecodeOK /\ Told /\ [DecodeNext]_decodeVars => Told'
  <2> SUFFICES ASSUME DecodeOK, Told, [DecodeNext]_decodeVars PROVE Told' OBVIOUS
  <2>1. CASE Start
    <3>1. PICK u \in Callers[caller].urls : Find(Shortened(u)) BY <2>1 DEF Start
    <3>2. TypeScanned' BY <3>1 DEF Find, TypeScanned
    <3>3. ~Returned' BY <2>1 DEF Start, Returned
    <3> QED BY <3>2, <3>3 DEF AddressesTold
  <2>2. CASE Scan
    <3>1. TypeScanned' BY <2>2, TypeScannedStep DEF Scan, DecodeOK, Scanning
    <3>2. ~Returned' BY <2>2 DEF Scan, Returned
    <3> QED BY <3>1, <3>2 DEF AddressesTold
  <2>3. CASE Finish
    <3>1. in_call /\ ~in_call' BY <2>3 DEF Finish
    <3>2. AddressesTold' BY <2>3, <3>1, FinishTells
    <3> QED BY <3>1, <3>2
  <2>4. CASE UNCHANGED decodeVars
    BY <2>4 DEF decodeVars, scanVars, TypeScanned, HasDoubleColon, AddressesTold, Returned, HostSized,
         Host, HostEnd, PortEnd, PathEnd, QueryEnd, Exist
  <2> QED BY <2>1, <2>2, <2>3, <2>4 DEF DecodeNext
<1> QED BY <1>1, <1>2, DecodeInvariant, PTL DEF DecodeSpec

=============================================================================
