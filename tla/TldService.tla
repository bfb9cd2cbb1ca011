----------------------------- MODULE TldService -----------------------------
(***************************************************************************)
(* What the library promises the threads that decode URLs with it: a call  *)
(* answers in one step, with the TLD of the URL it was asked about, found  *)
(* in the whole list.  There is no handler, tree, list or other thread to  *)
(* see.  (A specification of intent: Threads implements it.)               *)
(***************************************************************************)

CONSTANTS Threads, Urls, WithTld, Absent

VARIABLES phase, asked, answer

serviceVars == <<phase, asked, answer>>

TldOf(u) == IF u \in WithTld THEN [of |-> u, listed |-> TRUE] ELSE Absent

Ask(t) ==
  /\ phase[t] = "idle"
  /\ phase' = [phase EXCEPT ![t] = "asked"]
  /\ \E u \in Urls : asked' = [asked EXCEPT ![t] = u]
  /\ UNCHANGED answer

Answer(t) ==
  /\ phase[t] = "asked"
  /\ phase' = [phase EXCEPT ![t] = "answered"]
  /\ answer' = [answer EXCEPT ![t] = TldOf(asked[t])]
  /\ UNCHANGED asked

Leave(t) ==
  /\ phase[t] = "answered"
  /\ phase' = [phase EXCEPT ![t] = "idle"]
  /\ asked' = [asked EXCEPT ![t] = Absent]
  /\ answer' = [answer EXCEPT ![t] = Absent]

ServiceInit ==
  /\ phase = [t \in Threads |-> "idle"]
  /\ asked = [t \in Threads |-> Absent]
  /\ answer = [t \in Threads |-> Absent]

ServiceNext == \E t \in Threads : Ask(t) \/ Answer(t) \/ Leave(t)

ServiceSpec == ServiceInit /\ [][ServiceNext]_serviceVars

=============================================================================
