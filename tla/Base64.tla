------------------------------- MODULE Base64 -------------------------------
(***************************************************************************)
(* lib/b64: the base64 of the URLs and keys that come in requests.         *)
(*                                                                         *)
(* Characters and bytes are numbers.  Both directions take one character   *)
(* at a time and keep what is left of it for the next: a fold over the     *)
(* input, with the step (step_a to step_d are 0 to 3) in the state.        *)
(***************************************************************************)
EXTENDS Integers, Sequences, SequencesExt

CONSTANT CharsPerLine   \* CHARS_PER_LINE, 72 in the code

ASSUME CharsPerLineAssumption == CharsPerLine \in Nat \ {0} /\ CharsPerLine % 4 = 0

Unset == -1             \* what was in memory before

(* base64url_decode_value; base64_decode_value, which nobody calls, has    *)
(* the digits of plain base64.                                             *)
LetterValue(c) ==
  CASE c \in 65 .. 90  -> c - 65
    [] c \in 97 .. 122 -> c - 71
    [] c \in 48 .. 57  -> c + 4
    [] OTHER           -> -1

DecodeValue_Plain(c) == IF c = 43 THEN 62 ELSE IF c = 47 THEN 63 ELSE LetterValue(c)
DecodeValue(c) == IF c = 45 THEN 62 ELSE IF c = 95 THEN 63 ELSE LetterValue(c)

(* base64url_encode_value *)
EncodeValue(v) ==
  CASE v < 26 -> v + 65
    [] v \in 26 .. 51 -> v + 71
    [] v \in 52 .. 61 -> v - 4
    [] v = 62 -> 45
    [] v = 63 -> 95

(***************************************************************************)
(* base64_decode_block: out is what is finished, cell the byte after it.   *)
(* What is no digit is skipped, the padding too.                           *)
(***************************************************************************)
DecodeInit == [step |-> 0, out |-> << >>, cell |-> 0]

DecodeChar(s, c) ==
  LET v == DecodeValue(c)
      finished == IF s.step = 0 THEN s.out
                  ELSE Append(s.out, s.cell + v \div (CASE s.step = 1 -> 16
                                                         [] s.step = 2 -> 4
                                                         [] s.step = 3 -> 1))
      started == CASE s.step = 0 -> v * 4
                   [] s.step = 1 -> (v % 16) * 16
                   [] s.step = 2 -> (v % 4) * 64
                   [] s.step = 3 -> Unset
  IN IF v = -1 THEN s ELSE [step |-> (s.step + 1) % 4, out |-> finished, cell |-> started]

DecodeBlock(code) ==
  LET after[i \in 0 .. Len(code)] == IF i = 0 THEN DecodeInit ELSE DecodeChar(after[i - 1], code[i])
  IN after[Len(code)]

(* What a reader of a string gets: all up to a zero, and the cell and what *)
(* the memory held when there is none.                                     *)
AsString(s) ==
  LET cells == s.out \o <<s.cell, Unset>>
      ends == {i \in 1 .. Len(cells) : cells[i] \in {0, Unset}}
      end == CHOOSE i \in ends : \A j \in ends : i <= j
  IN IF cells[end] = 0 THEN SubSeq(cells, 1, end - 1) ELSE SubSeq(cells, 1, end)

(***************************************************************************)
(* base64_encode_block and base64_encode_blockend.                         *)
(***************************************************************************)
EncodeInit == [step |-> 0, out |-> << >>, result |-> 0, stepcount |-> 0]

EncodeByte(s, b) ==
  LET digit == EncodeValue(CASE s.step = 0 -> b \div 4
                             [] s.step = 1 -> s.result + b \div 16
                             [] s.step = 2 -> s.result + b \div 64)
      endsLine == s.step = 2 /\ s.stepcount + 1 = CharsPerLine \div 4
  IN IF s.step < 2
     THEN [s EXCEPT !.step = @ + 1, !.out = Append(@, digit),
                    !.result = IF s.step = 0 THEN (b % 4) * 16 ELSE (b % 16) * 4]
     ELSE [step |-> 0,
           out |-> s.out \o <<digit, EncodeValue(b % 64)>> \o IF endsLine THEN <<10>> ELSE << >>,
           result |-> b % 64,
           stepcount |-> IF endsLine THEN 0 ELSE s.stepcount + 1]

EncodeEnd(s) ==
  s.out \o (CASE s.step = 1 -> <<EncodeValue(s.result), 61, 61>>
              [] s.step = 2 -> <<EncodeValue(s.result), 61>>
              [] OTHER -> << >>) \o <<10>>

EncodeBlock(plain) ==
  LET after[i \in 0 .. Len(plain)] == IF i = 0 THEN EncodeInit ELSE EncodeByte(after[i - 1], plain[i])
  IN after[Len(plain)]

Encode(plain) == EncodeEnd(EncodeBlock(plain))
=============================================================================
