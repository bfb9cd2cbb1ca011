------------------------------ MODULE HostKind ------------------------------
(***************************************************************************)
(* How faup_decode tells an address from a name: is_ipv4 reads the host    *)
(* digit by digit, left-aligned in a three-digit number; is_ipv6 looks at  *)
(* the brackets.  A host is a sequence of characters; " " is any space.    *)
(***************************************************************************)
EXTENDS Integers, Sequences

(* The digits of UrlChars, and what each is worth. *)
DigitValue == [d \in {"0", "1", "2", "3", "5", "6", "9"} |->
                 CASE d = "0" -> 0 [] d = "1" -> 1 [] d = "2" -> 2 [] d = "3" -> 3
                   [] d = "5" -> 5 [] d = "6" -> 6 [] d = "9" -> 9]

powui(n) == CASE n = 0 -> 1 [] n = 1 -> 10 [] n = 2 -> 100 [] n = 3 -> 1000

isspace(c) == c = " "

(* The state of the scan: ok until the string is rejected, in_tail from    *)
(* the first character that is neither a digit nor a dot.                  *)
ScanStart == [ok |-> TRUE, in_tail |-> FALSE, ndots |-> 0, nip |-> 0, cur_d |-> 2,
              prev_c |-> "start"]

(* The value of the group that was read: its digits are left-aligned. *)
GroupValue(st) == st.nip \div powui(st.cur_d + 1)

Reject(st) == [st EXCEPT !.ok = FALSE]

(* Mutant: the value of a group is only looked at after the last one. *)
ReadDot_Unchecked(st) ==
  IF st.prev_c = "." THEN Reject(st)
  ELSE [st EXCEPT !.ndots = @ + 1, !.nip = 0, !.cur_d = 2, !.prev_c = "."]

ReadDot(st) ==
  IF st.prev_c = "." \/ GroupValue(st) > 255 THEN Reject(st)
  ELSE [st EXCEPT !.ndots = @ + 1, !.nip = 0, !.cur_d = 2, !.prev_c = "."]

ReadDigit(st, c) ==
  IF st.cur_d < 0 THEN Reject(st)
  ELSE [st EXCEPT !.nip = @ + DigitValue[c] * powui(st.cur_d), !.cur_d = @ - 1,
                  !.prev_c = c]

(* Anything else ends the address: only spaces may follow. *)
ReadRest(st, c) ==
  IF st.prev_c = "." \/ ~isspace(c) THEN Reject(st) ELSE [st EXCEPT !.in_tail = TRUE]

ScanChar(st, c) ==
  CASE ~st.ok -> st
    [] st.ok /\ st.in_tail -> IF isspace(c) THEN st ELSE Reject(st)
    [] st.ok /\ ~st.in_tail /\ st.prev_c = "start" /\ isspace(c) -> st
    [] OTHER -> IF c = "." THEN ReadDot(st)
                ELSE IF c \in DOMAIN DigitValue THEN ReadDigit(st, c)
                ELSE ReadRest(st, c)

(* The states of the scan, by the number of characters it has read. *)
Scanned(host) ==
  LET state[i \in 0 .. Len(host)] ==
        IF i = 0 THEN ScanStart ELSE ScanChar(state[i - 1], host[i])
  IN state

IsIpv4(host) ==
  LET end == Scanned(host)[Len(host)]
  IN Len(host) <= 15 /\ end.ok /\ GroupValue(end) <= 255 /\ end.ndots = 3

IsIpv6(host) ==
  Len(host) >= 3 /\ host[1] = "[" /\ host[Len(host)] = "]"

=============================================================================
