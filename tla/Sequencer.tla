------------------------------- MODULE Sequencer -------------------------------
(***************************************************************************)
(* What a table of sequences promises: the numbers of a sequence are given *)
(* out one after the other, each of them once.                             *)
(***************************************************************************)
EXTENDS Naturals

CONSTANTS
  Sequences,  \* names of sequences
  Takers      \* those who ask for numbers

VARIABLES
  last,   \* [Sequences -> Nat]: the number given out last
  taken   \* [Takers -> <<sequence, number>> or <<>>]: what a taker holds

seqVars == <<last, taken>>

SeqInit ==
  /\ last = [s \in Sequences |-> 0]
  /\ taken = [t \in Takers |-> <<>>]

Take(s, t) ==
  /\ taken[t] = <<>>
  /\ last' = [last EXCEPT ![s] = @ + 1]
  /\ taken' = [taken EXCEPT ![t] = <<s, last[s] + 1>>]

Forget(t) == taken' = [taken EXCEPT ![t] = <<>>] /\ UNCHANGED last

SeqNext ==
  \/ \E s \in Sequences, t \in Takers : Take(s, t)
  \/ \E t \in Takers : Forget(t)

SeqSpec == SeqInit /\ [][SeqNext]_seqVars

=============================================================================
