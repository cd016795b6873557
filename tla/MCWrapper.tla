----------------------------- MODULE MCWrapper -----------------------------
(* Values for model checking Wrapper. *)
EXTENDS Wrapper, TLC

CONSTANTS r1, r2

(* A stop that comes while one prompt is between two samples. *)
TwoAndOne == r1 :> 2 @@ r2 :> 1

============================================================================
