---------------------------- MODULE PromptVerdict ----------------------------
(***************************************************************************)
(* What the whole system promises whoever sends a prompt: it is judged at  *)
(* most once, while it is open or after its client has gone; the verdict   *)
(* shown for it is what it was judged, and does not change any more.  The  *)
(* verdict may be lost before it is shown, and then none is shown.         *)
(***************************************************************************)
CONSTANTS
  Clients,    \* the prompts
  Verdicts,   \* what a prompt may be judged; None in the grace period
  Nothing     \* no verdict

VARIABLES
  stage,    \* where each prompt stands
  judged,   \* whether the prompt has had its judgement
  verdict   \* what it is

promptVars == <<stage, judged, verdict>>

Stages == {"new", "open", "shown", "refused", "failed"}

Init ==
  /\ stage = [c \in Clients |-> "new"]
  /\ judged = [c \in Clients |-> FALSE]
  /\ verdict = [c \in Clients |-> Nothing]

Send(c) ==
  /\ stage[c] = "new"
  /\ stage' = [stage EXCEPT ![c] = "open"]
  /\ UNCHANGED <<judged, verdict>>

(* With Nothing for v, judging it has failed. *)
Judge(c, v) ==
  /\ stage[c] \in {"open", "failed"}
  /\ ~judged[c]
  /\ judged' = [judged EXCEPT ![c] = TRUE]
  /\ verdict' = [verdict EXCEPT ![c] = v]
  /\ UNCHANGED stage

Show(c) ==
  /\ stage[c] = "open"
  /\ judged[c]
  /\ verdict[c] # Nothing
  /\ stage' = [stage EXCEPT ![c] = "shown"]
  /\ UNCHANGED <<judged, verdict>>

Refuse(c) ==
  /\ stage[c] = "open"
  /\ verdict[c] = Nothing
  /\ stage' = [stage EXCEPT ![c] = "refused"]
  /\ UNCHANGED <<judged, verdict>>

(* Clients fail, and verdicts that have not been shown are lost. *)
Lose ==
  /\ stage' \in [Clients -> Stages]
  /\ verdict' \in [Clients -> Verdicts \cup {Nothing}]
  /\ \A c \in Clients :
       /\ stage'[c] # stage[c] => stage[c] = "open" /\ stage'[c] = "failed"
       /\ verdict'[c] # verdict[c] => stage[c] # "shown" /\ verdict'[c] = Nothing
  /\ UNCHANGED judged

Next ==
  \/ \E c \in Clients : Send(c) \/ Show(c) \/ Refuse(c)
  \/ \E c \in Clients, v \in Verdicts \cup {Nothing} : Judge(c, v)
  \/ Lose

Spec == Init /\ [][Next]_promptVars

==============================================================================
