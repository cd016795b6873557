----------------------------- MODULE MCTmbServer -----------------------------
(* Constants for checking TmbServer: two callers with one userID, or with  *)
(* one each, and references around the end of the grace period.            *)
EXTENDS TmbServer, TLC

CONSTANTS c1, c2, u1, u2, a, b

OwnIds == c1 :> u1 @@ c2 :> u2

SharedId == c1 :> u1 @@ c2 :> u1

(* One caller; the other userID only submits metrics. *)
OneCaller == c1 :> u1

(* The last row of the grace period is still to come. *)
GraceRows == a :> 3

(* One reference in its grace period, one missing. *)
GraceAndMissing == a :> 3 @@ b :> NoFile

(* One reference in its grace period, one with one row left to fill. *)
GraceAndAlmostFull == a :> 3 @@ b :> 9

SessionSymmetry == Permutations(Sessions)

==============================================================================
