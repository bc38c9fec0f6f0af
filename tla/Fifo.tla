-------------------------------- MODULE Fifo --------------------------------
(***************************************************************************)
(* What a single-producer, single-consumer queue promises: elements become *)
(* visible one by one and are taken in that order, each exactly once.      *)
(***************************************************************************)
EXTENDS Naturals, Sequences

VARIABLES published,   \* elements 1..published have been made visible
          taken        \* the elements taken out, in order

Init == published = 0 /\ taken = << >>

Publish == published' = published + 1 /\ UNCHANGED taken

Take ==
    /\ Len(taken) < published
    /\ taken' = Append(taken, Len(taken) + 1)
    /\ UNCHANGED published

Spec == Init /\ [][Publish \/ Take]_<<published, taken>>
=============================================================================
