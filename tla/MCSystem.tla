------------------------------- MODULE MCSystem -------------------------------
(* Constants for checking System. *)
EXTENDS System, TLC

CONSTANTS p1, p2, u1, u2, a, b

OwnIds == p1 :> u1 @@ p2 :> u2

(* Two samples can disagree; the other prompt is there to interfere. *)
TwoAndOne == p1 :> 2 @@ p2 :> 1

(* One reference in its grace period, one past it. *)
GraceAndLearned == a :> 3 @@ b :> 4

==============================================================================
