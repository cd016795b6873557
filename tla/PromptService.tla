---------------------------- MODULE PromptService ----------------------------
(***************************************************************************)
(* What the wrapper promises the caller of a prompt and the verification   *)
(* service, whatever tasks, channels and connections it uses: the service  *)
(* sees reports of a prompt, then at most one /finished, which is never    *)
(* the first thing it sees of the prompt; and once the caller has its      *)
(* answer the service sees nothing of that prompt any more.                *)
(***************************************************************************)
EXTENDS Naturals

CONSTANT Requests

VARIABLES
  caller,    \* "idle", "asking", "answered", or "lost": no answer will come
  reported,  \* how many reports of the prompt the service has handled
  finished   \* whether it has handled the prompt's /finished

vars == <<caller, reported, finished>>

Init ==
  /\ caller = [r \in Requests |-> "idle"]
  /\ reported = [r \in Requests |-> 0]
  /\ finished = [r \in Requests |-> FALSE]

Ask(r) ==
  /\ caller[r] # "asking"
  /\ caller' = [caller EXCEPT ![r] = "asking"]
  /\ reported' = [reported EXCEPT ![r] = 0]
  /\ finished' = [finished EXCEPT ![r] = FALSE]

Report(r) ==
  /\ caller[r] \in {"asking", "lost"}
  /\ ~finished[r]
  /\ reported' = [reported EXCEPT ![r] = @ + 1]
  /\ UNCHANGED <<caller, finished>>

Finish(r) ==
  /\ caller[r] \in {"asking", "lost"}
  /\ ~finished[r]
  /\ reported[r] > 0
  /\ finished' = [finished EXCEPT ![r] = TRUE]
  /\ UNCHANGED <<caller, reported>>

Answer(r) ==
  /\ caller[r] = "asking"
  /\ caller' = [caller EXCEPT ![r] = "answered"]
  /\ UNCHANGED <<reported, finished>>

(* Callers go away, and the process dies with all its connections. *)
Lose(rs) ==
  /\ caller' = [r \in Requests |->
                  IF r \in rs /\ caller[r] = "asking" THEN "lost" ELSE caller[r]]
  /\ UNCHANGED <<reported, finished>>

Next ==
  \/ \E r \in Requests : Ask(r) \/ Report(r) \/ Finish(r) \/ Answer(r)
  \/ \E rs \in SUBSET Requests : Lose(rs)

Spec == Init /\ [][Next]_vars

==============================================================================
