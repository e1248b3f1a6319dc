---------------------------- MODULE ReliableFifo ----------------------------
(***************************************************************************)
(* What a sender may rely on: messages given are taken in the order they   *)
(* were given, each one once.                                              *)
(***************************************************************************)
EXTENDS Naturals, Sequences

CONSTANT Messages

VARIABLES given, taken

Init == given = <<>> /\ taken = <<>>

Give(m) ==
    /\ given' = Append(given, m)
    /\ UNCHANGED taken

Take ==
    /\ Len(taken) < Len(given)
    /\ taken' = Append(taken, given[Len(taken) + 1])
    /\ UNCHANGED given

(* Giving and taking in one step, as a sender does that finds the bus free. *)
GiveAndTake(m) ==
    /\ given' = Append(given, m)
    /\ taken' = Append(taken, given'[Len(taken) + 1])

Next == Take \/ \E m \in Messages : Give(m) \/ GiveAndTake(m)

Spec == Init /\ [][Next]_<<given, taken>>
=============================================================================
