---------------------------- MODULE MCFullSystem ----------------------------
(* Constants for checking FullSystem: one prompt, with all the tasks and   *)
(* connections it has.                                                     *)
EXTENDS FullSystem, TLC

CONSTANTS p1, u1, a, b

OwnId == p1 :> u1

(* A periodic sample and the last one. *)
Two == p1 :> 2

(* One reference in its grace period, one past it. *)
GraceAndLearned == a :> 3 @@ b :> 4

==============================================================================
