---------------------------- MODULE VerdictService ----------------------------
(***************************************************************************)
(* What the verification service promises when every request has a userID  *)
(* of its own: one box per userID.  Evidence is put into an empty box, a   *)
(* box with evidence gets a verdict, which may still be replaced, and an   *)
(* answer empties the box.  So an answered verdict was released for that   *)
(* very request, after evidence came, and is the latest one; no verdict is *)
(* told twice, to somebody else, or after the process lost it.             *)
(***************************************************************************)
EXTENDS Naturals

CONSTANTS
  Users,     \* userIDs
  Clients,   \* callers asking for a verdict
  UserOf,    \* the userID each caller sends: [Clients -> Users]
  None       \* "no statistical verdict" (the reference was in grace)

VARIABLES
  box,      \* what is known for each userID
  asking,   \* the callers waiting for an answer
  answer    \* the last answer to each caller

boxVars == <<box, asking, answer>>

Verdict == BOOLEAN \cup {None}

Empty == [evidence |-> FALSE, released |-> FALSE, verdict |-> None]

Evidence == [evidence |-> TRUE, released |-> FALSE, verdict |-> None]

Released(v) == [evidence |-> TRUE, released |-> TRUE, verdict |-> v]

Unanswered == [code |-> 0, verified |-> None]

TimedOut == [code |-> 408, verified |-> None]

Told(v) == [code |-> 200, verified |-> v]

------------------------------------------------------------------------------

Submit(u) ==
  /\ box[u] = Empty
  /\ box' = [box EXCEPT ![u] = Evidence]
  /\ UNCHANGED <<asking, answer>>

(* Once there is a statistical verdict it is replaced by another one only. *)
Decide(u, v) ==
  /\ box[u] # Empty
  /\ v = None => box[u] \in {Evidence, Released(None)}
  /\ box' = [box EXCEPT ![u] = Released(v)]
  /\ UNCHANGED <<asking, answer>>

Ask(c) ==
  /\ c \notin asking
  /\ asking' = asking \cup {c}
  /\ answer' = [answer EXCEPT ![c] = Unanswered]
  /\ UNCHANGED box

Reply(c, a) ==
  /\ c \in asking
  /\ asking' = asking \ {c}
  /\ answer' = [answer EXCEPT ![c] = a]
  /\ box' = [box EXCEPT ![UserOf[c]] = Empty]

Tell(c) ==
  \E v \in Verdict : box[UserOf[c]] = Released(v) /\ Reply(c, Told(v))

TimeOut(c) == Reply(c, TimedOut)

(* The service restarts with all boxes empty; nobody is answered. *)
Forget ==
  /\ box' = [u \in Users |-> Empty]
  /\ asking' = {}
  /\ UNCHANGED answer

------------------------------------------------------------------------------

BoxInit ==
  /\ box = [u \in Users |-> Empty]
  /\ asking = {}
  /\ answer = [c \in Clients |-> Unanswered]

BoxNext ==
  \/ \E u \in Users : Submit(u) \/ \E v \in Verdict : Decide(u, v)
  \/ \E c \in Clients : Ask(c) \/ Tell(c) \/ TimeOut(c)
  \/ Forget

BoxSpec == BoxInit /\ [][BoxNext]_boxVars

(* Whoever asks is answered, or the service restarts. *)
AnswerFair(c) == WF_boxVars(Tell(c) \/ TimeOut(c))

BoxFairness == \A c \in Clients : AnswerFair(c)

BoxFairSpec == BoxSpec /\ BoxFairness

==============================================================================
