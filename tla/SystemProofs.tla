----------------------------- MODULE SystemProofs -----------------------------
(***************************************************************************)
(* Proofs about System: its parts behave as their own specifications say,  *)
(* and with a userID for each prompt it keeps the promise of PromptVerdict, *)
(* for any number of clients, prompts, userIDs, models and reports.        *)
(***************************************************************************)
EXTENDS System, TmbBoxProofs

(* Where the client, the load server's handler, the call of the wrapper    *)
(* and the request for the verdict of one prompt stand to each other.      *)
Control(c) ==
  /\ client[c] = "idle" => load[c] = "idle" /\ caller[c] = "idle"
  /\ client[c] = "prompting" => load[c] # "idle"
  /\ load[c] \in {"submitted", "read"} => caller[c] = "idle"
  /\ load[c] = "forwarded" => caller[c] = "asking"
  /\ caller[c] = "idle" => reported[c] = 0 /\ ~finished[c]
  /\ client[c] \in {"returned", "asking", "shown", "refused"} => caller[c] = "answered"
  /\ Open(c) => client[c] \in {"asking", "failed"} /\ caller[c] = "answered"
  /\ client[c] = "asking" => Open(c)

(* What the service keeps of it. *)
Kept(c) == Contents(UserOf[c])

OneModel(c) == \A i \in 1 .. Len(Kept(c).cache) : Kept(c).cache[i].model = ModelSent(c)

Data(c) ==
  /\ caller[c] = "idle" => pending[UserOf[c]] = NoSession
  /\ reply[c] # Answer(0, None) => caller[c] = "answered" /\ pending[UserOf[c]] = NoSession
  /\ client[c] \in {"shown", "refused"} => reply[c] # Answer(0, None)
  /\ Kept(c).event => finished[c]
  /\ OneModel(c)
  /\ state[c] # "resolved"
  /\ state[c] \in {"waiting", "expired"} => ~Kept(c).event

SInv ==
  /\ BoxInv
  /\ SysTypeOK
  /\ \A c \in Clients : Control(c) /\ Data(c)

------------------------------------------------------------------------------
(* The parts *)

(* Every step is a step of the service or does not concern it. *)
LEMMA ServiceStep == [SysNext]_sysVars => [Next]_vars
<1> SUFFICES ASSUME [SysNext]_sysVars PROVE [Next]_vars
  OBVIOUS
<1> USE ConstantsAssumption, SystemAssumption
<1>1. \A c \in Clients : UserOf[c] \in Users /\ ModelSent(c) \in Models
  BY DEF ModelSent
<1>2. ASSUME NEW c \in Clients, PromptStep(c) PROVE [Next]_vars
  <2>1. ASSUME AskVerdict(c) \/ ShowAnswer(c) \/ TimeOut(c) PROVE Next
    BY <2>1 DEF AskVerdict, ShowAnswer, TimeOut, Next
  <2>2. ASSUME Report(c) \/ ReportFinished(c) PROVE Next
    BY <1>1, <2>2 DEF Report, ReportFinished, Next
  <2>3. ASSUME SendPrompt(c) \/ Leave(c) \/ ReadMode(c) \/ Forward(c) \/ ReturnResponse(c) \/ CallFails(c)
        PROVE  UNCHANGED vars
    BY <2>3 DEF SendPrompt, Leave, ReadMode, Forward, ReturnResponse, CallFails
  <2> QED
    BY <1>2, <2>1, <2>2, <2>3 DEF PromptStep
<1>3. ASSUME TmbDies PROVE Next
  BY <1>3 DEF TmbDies, Next
<1>4. ASSUME LoadDies \/ (\E m \in Modes : SwitchMode(m)) \/ UNCHANGED sysVars PROVE UNCHANGED vars
  BY <1>4 DEF LoadDies, SwitchMode, sysVars
<1> QED
  BY <1>2, <1>3, <1>4 DEF SysNext

(* What is proved of tmb.py alone holds in the system: clients, load       *)
(* server and wrapper only make calls that its handlers allow for.         *)
THEOREM ServiceInSystem == SysSpec => Spec
<1>1. SysInit => Init
  BY DEF SysInit
<1> QED
  BY <1>1, ServiceStep, PTL DEF SysSpec, Spec

LEMMA WrapperStep == [SysNext]_sysVars => [Prompts!Next]_(Prompts!vars)
<1> SUFFICES ASSUME [SysNext]_sysVars PROVE [Prompts!Next]_(Prompts!vars)
  OBVIOUS
<1>1. ASSUME NEW c \in Clients, PromptStep(c) PROVE [Prompts!Next]_(Prompts!vars)
  <2>1. ASSUME Forward(c) \/ ReturnResponse(c) \/ CallFails(c) \/ Report(c) \/ ReportFinished(c)
        PROVE  Prompts!Next
    <3>1. {c} \in SUBSET Clients
      OBVIOUS
    <3> QED
      BY <2>1, <3>1 DEF Forward, ReturnResponse, CallFails, Report, ReportFinished, Prompts!Next
  <2>2. ASSUME SendPrompt(c) \/ AskVerdict(c) \/ ShowAnswer(c) \/ Leave(c) \/ ReadMode(c) \/ TimeOut(c)
        PROVE  UNCHANGED Prompts!vars
    BY <2>2 DEF SendPrompt, AskVerdict, ShowAnswer, Leave, ReadMode, TimeOut, promptVars, Prompts!vars
  <2> QED
    BY <1>1, <2>1, <2>2 DEF PromptStep
<1>2. ASSUME LoadDies PROVE Prompts!Next
  <2>1. Clients \in SUBSET Clients
    OBVIOUS
  <2> QED
    BY <1>2, <2>1 DEF LoadDies, Prompts!Next
<1>3. ASSUME TmbDies \/ (\E m \in Modes : SwitchMode(m)) \/ UNCHANGED sysVars
      PROVE  UNCHANGED Prompts!vars
  BY <1>3 DEF TmbDies, SwitchMode, sysVars, promptVars, Prompts!vars
<1> QED
  BY <1>1, <1>2, <1>3 DEF SysNext

(* The system asks of the wrapper nothing but what Wrapper provides        *)
(* (PromptRefinement of WrapperProofs).                                    *)
THEOREM WrapperInSystem == SysSpec => Prompts!Spec
<1>1. SysInit => Prompts!Init
  BY DEF SysInit
<1> QED
  BY <1>1, WrapperStep, PTL DEF SysSpec, Prompts!Spec

------------------------------------------------------------------------------
(* Types *)

LEMMA TypeStep == SysTypeOK /\ [SysNext]_sysVars => SysTypeOK'
<1> SUFFICES ASSUME SysTypeOK, [SysNext]_sysVars PROVE SysTypeOK'
  OBVIOUS
<1> USE SystemAssumption DEF SysTypeOK, promptVars, loadVars
<1>1. ASSUME NEW c \in Clients, PromptStep(c) PROVE SysTypeOK'
  <2>1. CASE SendPrompt(c)
    BY <2>1 DEF SendPrompt, ClientGoesOn, LoadGoesOn, ClientStates, LoadStates
  <2>2. CASE AskVerdict(c)
    BY <2>2 DEF AskVerdict, ClientGoesOn, ClientStates
  <2>3. CASE ShowAnswer(c)
    BY <2>3 DEF ShowAnswer, ClientGoesOn, ClientStates
  <2>4. CASE Leave(c)
    BY <2>4 DEF Leave, ClientGoesOn, ClientStates
  <2>5. CASE ReadMode(c)
    BY <2>5 DEF ReadMode, LoadGoesOn, LoadStates
  <2>6. CASE Forward(c)
    BY <2>6 DEF Forward, LoadGoesOn, LoadStates, Prompts!Ask
  <2>7. CASE ReturnResponse(c)
    BY <2>7 DEF ReturnResponse, LoadGoesOn, ClientGoesOn, ClientsFail, LoadStates, ClientStates,
         Prompts!Answer
  <2>8. CASE CallFails(c)
    BY <2>8 DEF CallFails, LoadGoesOn, ClientsFail, LoadStates, ClientStates, Prompts!Lose
  <2>9. CASE Report(c)
    BY <2>9 DEF Report, Prompts!Report
  <2>10. CASE ReportFinished(c)
    BY <2>10 DEF ReportFinished, Prompts!Finish
  <2>11. CASE TimeOut(c)
    BY <2>11 DEF TimeOut
  <2> QED
    BY <1>1, <2>1, <2>2, <2>3, <2>4, <2>5, <2>6, <2>7, <2>8, <2>9, <2>10, <2>11 DEF PromptStep
<1>2. ASSUME LoadDies PROVE SysTypeOK'
  BY <1>2 DEF LoadDies, ClientsFail, Modes, LoadStates, ClientStates, Prompts!Lose
<1>3. ASSUME TmbDies PROVE SysTypeOK'
  BY <1>3 DEF TmbDies, ClientStates
<1>4. ASSUME NEW m \in Modes, SwitchMode(m) PROVE SysTypeOK'
  BY <1>4 DEF SwitchMode
<1>5. CASE UNCHANGED sysVars
  BY <1>5 DEF sysVars
<1> QED
  BY <1>1, <1>2, <1>3, <1>4, <1>5 DEF SysNext

LEMMA InitTypes == SysInit => SysTypeOK
BY SystemAssumption DEF SysInit, SysTypeOK, Prompts!Init, Modes, LoadStates, ClientStates

(* The states of the clients, of the load server's handlers and of the     *)
(* wrapper's calls stay among those the code has, and its reports within   *)
(* the bound of the model.                                                 *)
THEOREM SystemTypes == SysSpec => []SysTypeOK
BY InitTypes, TypeStep, PTL DEF SysSpec

------------------------------------------------------------------------------
(* The inductive invariant.  First the control part, whose steps look at   *)
(* the service only for whether a request is open.                         *)

LEMMA InitSInv == SysInit => SInv
<1> SUFFICES ASSUME SysInit PROVE SInv
  OBVIOUS
<1> USE ConstantsAssumption
<1>1. BoxInv /\ SysTypeOK
  BY InitBoxInv, InitTypes DEF SysInit
<1>2. ASSUME NEW c \in Clients PROVE Control(c) /\ Data(c)
  <2>1. /\ pending[UserOf[c]] = NoSession /\ Kept(c) = NewSession /\ state[c] = "idle"
        /\ reply[c] = Answer(0, None) /\ client[c] = "idle"
    BY DEF SysInit, Init, Kept, Contents
  <2>2. Control(c)
    BY <2>1 DEF SysInit, Prompts!Init, Control, Open, OpenStates
  <2>3. Data(c)
    BY <2>1 DEF Data, OneModel, NewSession
  <2> QED
    BY <2>2, <2>3
<1> QED
  BY <1>1, <1>2 DEF SInv

(* What the actions of the service do to the handlers of /clientRequest.   *)
LEMMA OpenAfter ==
  ASSUME TypeOK, NEW d \in Clients
  PROVE  /\ UNCHANGED vars => (Open(d)' <=> Open(d))
         /\ \A c \in Clients : ClientRequest(c) =>
              ~Open(c) /\ Open(c)' /\ (d # c => (Open(d)' <=> Open(d)))
         /\ \A c \in Clients : (Resume(c) \/ Expire(c)) =>
              Open(c) /\ ~Open(c)' /\ (d # c => (Open(d)' <=> Open(d)))
         /\ \A c \in Clients : TimerFires(c) => (Open(d)' <=> Open(d))
         /\ \A u \in Users, m \in Models : Metrics(u, m) => (Open(d)' <=> Open(d))
         /\ \A u \in Users : Finish(u) => (Open(d)' <=> Open(d))
         /\ LoseMemory => ~Open(d)'
<1> USE DEF TypeOK, Open, OpenStates
<1>1. UNCHANGED vars => (Open(d)' <=> Open(d))
  BY DEF vars
<1>2. \A c \in Clients : ClientRequest(c) =>
        ~Open(c) /\ Open(c)' /\ (d # c => (Open(d)' <=> Open(d)))
  BY DEF ClientRequest, Arrive
<1>3. \A c \in Clients : (Resume(c) \/ Expire(c)) =>
        Open(c) /\ ~Open(c)' /\ (d # c => (Open(d)' <=> Open(d)))
  BY DEF Resume, Expire, Return, Respond
<1>4. \A c \in Clients : TimerFires(c) => (Open(d)' <=> Open(d))
  BY DEF TimerFires, Cancel
<1>5. \A u \in Users, m \in Models : Metrics(u, m) => (Open(d)' <=> Open(d))
  BY DEF Metrics, Store
<1>6. \A u \in Users : Finish(u) => (Open(d)' <=> Open(d))
  BY DEF Finish, FinishRefused, FinishNoReference, FinishGrace, FinishNotBuilt, FinishNotRun,
     FinishVerdict, Release
<1>7. LoseMemory => ~Open(d)'
  BY DEF LoseMemory
<1> QED
  BY <1>1, <1>2, <1>3, <1>4, <1>5, <1>6, <1>7

LEMMA ControlStep ==
  ASSUME TypeOK, SysTypeOK, [SysNext]_sysVars, NEW d \in Clients, Control(d)
  PROVE  Control(d)'
<1>1. \A c \in Clients : UserOf[c] \in Users /\ ModelSent(c) \in Models
  BY ConstantsAssumption, SystemAssumption DEF ModelSent
<1> USE <1>1, OpenAfter DEF Control, SysTypeOK, promptVars, loadVars
<1>2. ASSUME NEW c \in Clients, PromptStep(c) PROVE Control(d)'
  <2>1. CASE SendPrompt(c)
    BY <2>1 DEF SendPrompt, ClientGoesOn, LoadGoesOn
  <2>2. CASE AskVerdict(c)
    BY <2>2 DEF AskVerdict, ClientGoesOn
  <2>3. CASE ShowAnswer(c)
    BY <2>3 DEF ShowAnswer, ClientGoesOn
  <2>4. CASE Leave(c)
    BY <2>4 DEF Leave, ClientGoesOn
  <2>5. CASE ReadMode(c)
    BY <2>5 DEF ReadMode, LoadGoesOn
  <2>6. CASE Forward(c)
    BY <2>6 DEF Forward, LoadGoesOn, Prompts!Ask
  <2>7. CASE ReturnResponse(c)
    BY <2>7 DEF ReturnResponse, LoadGoesOn, ClientGoesOn, ClientsFail, Prompts!Answer
  <2>8. CASE CallFails(c)
    BY <2>8 DEF CallFails, LoadGoesOn, ClientsFail, Prompts!Lose
  <2>9. CASE Report(c)
    BY <2>9 DEF Report, Prompts!Report
  <2>10. CASE ReportFinished(c)
    BY <2>10 DEF ReportFinished, Prompts!Finish
  <2>11. CASE TimeOut(c)
    BY <2>11 DEF TimeOut
  <2> QED
    BY <1>2, <2>1, <2>2, <2>3, <2>4, <2>5, <2>6, <2>7, <2>8, <2>9, <2>10, <2>11 DEF PromptStep
<1>3. ASSUME LoadDies PROVE Control(d)'
  BY <1>3 DEF LoadDies, ClientsFail, Prompts!Lose
<1>4. ASSUME TmbDies PROVE Control(d)'
  BY <1>4 DEF TmbDies, Crash, CrashInSave
<1>5. ASSUME NEW m \in Modes, SwitchMode(m) PROVE Control(d)'
  BY <1>5 DEF SwitchMode
<1>6. CASE UNCHANGED sysVars
  BY <1>6 DEF sysVars
<1> QED
  BY <1>2, <1>3, <1>4, <1>5, <1>6 DEF SysNext

------------------------------------------------------------------------------
(* Then what is kept of a prompt.  A step of the service for one prompt    *)
(* leaves what it keeps of another alone.                                  *)

LEMMA FinishKeeps ==
  ASSUME BoxInv, NEW u \in Users, Finish(u)
  PROVE  /\ UNCHANGED <<pending, held, reply>>
         /\ Contents(u)'.cache = Contents(u).cache
         /\ \A w \in Users : w # u => Contents(w)' = Contents(w)
         /\ \A c \in Clients : state'[c] # state[c] => state[c] = "waiting" /\ held[c] = pending[u]
<1> USE ConstantsAssumption
<1>1. TypeOK
  BY DEF BoxInv, IInv
<1>2. ASSUME UNCHANGED <<pending, sessions, state, held, reply>>
      PROVE  /\ UNCHANGED <<pending, held, reply>> /\ state' = state
             /\ \A w \in Users : Contents(w)' = Contents(w)
  BY <1>2 DEF Contents
<1>3. ASSUME NEW v \in Verdicts, HasData(u), Release(pending[u], v), UNCHANGED <<pending, held, reply>>
      PROVE  /\ Contents(u)'.cache = Contents(u).cache
             /\ \A w \in Users : w # u => Contents(w)' = Contents(w)
             /\ \A c \in Clients : state'[c] # state[c] => state[c] = "waiting" /\ held[c] = pending[u]
  <2>1. /\ Contents(u) = sessions[pending[u]]
        /\ Contents(u)' = [event |-> TRUE, cache |-> sessions[pending[u]].cache, verification |-> v]
        /\ \A w \in Users : w # u => Contents(w)' = Contents(w)
    BY <1>3, ContentsAfterRelease
  <2>2. \A c \in Clients : state'[c] # state[c] => state[c] = "waiting" /\ held[c] = pending[u]
    BY <1>3 DEF Release
  <2> QED
    BY <2>1, <2>2
<1>4. CASE FinishGrace(u)
  <2> DEFINE v == sessions[pending[u]].verification
  <2>1. HasData(u) /\ Release(pending[u], v) /\ UNCHANGED <<pending, held, reply>>
    BY <1>4 DEF FinishGrace, HasReference
  <2>2. v \in Verdicts
    BY <1>1, <2>1 DEF HasData, TypeOK, SessionRecords
  <2> HIDE DEF v
  <2> QED
    BY <1>3, <2>1, <2>2
<1>5. ASSUME NEW v \in BOOLEAN, NEW attested \in BOOLEAN, FinishVerdict(u, v, attested)
      PROVE  HasData(u) /\ Release(pending[u], v) /\ UNCHANGED <<pending, held, reply>> /\ v \in Verdicts
  BY <1>5 DEF FinishVerdict, HasReference, Verdicts
<1>6. ASSUME FinishRefused(u) \/ FinishNoReference(u) \/ FinishNotBuilt(u) \/ FinishNotRun(u)
      PROVE  UNCHANGED <<pending, sessions, state, held, reply>>
  BY <1>6 DEF FinishRefused, FinishNoReference, FinishNotBuilt, FinishNotRun
<1>7. UNCHANGED <<pending, held, reply>>
  BY <1>4, <1>5, <1>6 DEF Finish, FinishGrace
<1> QED
  BY <1>2, <1>3, <1>4, <1>5, <1>6, <1>7 DEF Finish

LEMMA MetricsKeeps ==
  ASSUME BoxInv, NEW u \in Users, NEW m \in Models, Metrics(u, m)
  PROVE  /\ UNCHANGED <<state, held, reply>>
         /\ pending[u]' # NoSession
         /\ Contents(u)' = WithSample(Contents(u), [userID |-> u, model |-> m])
         /\ \A w \in Users : w # u => Contents(w)' = Contents(w) /\ pending'[w] = pending[w]
<1> USE ConstantsAssumption
<1> DEFINE r == WithSample(Contents(u), [userID |-> u, model |-> m])
<1>1. PICK s \in SessionFor(u) :
        pending' = [pending EXCEPT ![u] = s] /\ sessions' = [sessions EXCEPT ![s] = r]
  BY DEF Metrics, Store
<1>2. s \in Sessions /\ pending \in [Users -> Sessions \cup {NoSession}]
  BY SessionForUser DEF BoxInv, IInv, References, TypeOK
<1>3. Contents(u)' = r /\ \A w \in Users : w # u => Contents(w)' = Contents(w)
  <2> HIDE DEF r
  <2> QED BY <1>1, ContentsAfterUse
<1> QED
  BY <1>1, <1>2, <1>3 DEF Metrics, Store

LEMMA RequestKeeps ==
  ASSUME BoxInv, NEW c \in Clients, ClientRequest(c)
  PROVE  /\ \A w \in Users : Contents(w)' = Contents(w)
         /\ \A w \in Users : w # UserOf[c] => pending'[w] = pending[w]
         /\ state' = [state EXCEPT ![c] = IF Contents(UserOf[c]).event THEN "ready" ELSE "waiting"]
         /\ reply' = [reply EXCEPT ![c] = Answer(0, None)]
<1> USE ConstantsAssumption
<1> DEFINE u == UserOf[c]
<1>1. PICK s \in SessionFor(u) :
        pending' = [pending EXCEPT ![u] = s] /\ sessions' = [sessions EXCEPT ![s] = Contents(u)]
  BY DEF ClientRequest, Arrive
<1>2. u \in Users /\ pending \in [Users -> Sessions \cup {NoSession}]
  BY DEF BoxInv, IInv, TypeOK
<1>3. Contents(u)' = Contents(u) /\ \A w \in Users : w # u => Contents(w)' = Contents(w)
  <2> HIDE DEF u
  <2> QED BY <1>1, <1>2, ContentsAfterUse
<1>4. /\ state' = [state EXCEPT ![c] = IF Contents(u).event THEN "ready" ELSE "waiting"]
      /\ reply' = [reply EXCEPT ![c] = Answer(0, None)]
  BY DEF ClientRequest, Arrive
<1> HIDE DEF u
<1>5. \A w \in Users : w # u => pending'[w] = pending[w]
  BY <1>1, <1>2
<1> QED
  BY <1>3, <1>4, <1>5 DEF u

LEMMA AnswerKeeps ==
  ASSUME BoxInv, NEW c \in Clients, Resume(c) \/ Expire(c)
  PROVE  /\ Contents(UserOf[c])' = NewSession /\ pending'[UserOf[c]] = NoSession
         /\ \A w \in Users : w # UserOf[c] => Contents(w)' = Contents(w) /\ pending'[w] = pending[w]
         /\ state' = [state EXCEPT ![c] = "idle"]
         /\ reply' = [reply EXCEPT ![c] =
              IF state[c] = "expired" THEN Answer(408, None)
              ELSE Answer(200, Contents(UserOf[c]).verification)]
         /\ state[c] \in {"resolved", "ready"} => Contents(UserOf[c]).event
<1> USE ConstantsAssumption
<1> DEFINE a == IF state[c] = "expired" THEN Answer(408, None)
                ELSE Answer(200, sessions[held[c]].verification)
<1>1. Return(c, a)
  BY DEF Resume, Expire
<1>2. /\ Contents(UserOf[c])' = NewSession
      /\ \A w \in Users : w # UserOf[c] => Contents(w)' = Contents(w)
  <2> HIDE DEF a
  <2> QED BY <1>1, ContentsAfterReturn
<1>3. UserOf[c] \in Users /\ pending \in [Users -> Sessions \cup {NoSession}]
  BY DEF BoxInv, IInv, TypeOK
<1>4. /\ pending' = [pending EXCEPT ![UserOf[c]] = NoSession] /\ state' = [state EXCEPT ![c] = "idle"]
      /\ reply' = [reply EXCEPT ![c] = a]
  BY <1>1 DEF Return, Respond
<1>5. Open(c)
  BY DEF Resume, Expire, Open, OpenStates
<1>6. held[c] \in Sessions /\ Contents(UserOf[c]) = sessions[held[c]]
  BY <1>5 DEF BoxInv, IInv, HandlersHold, Listed, Contents
<1>7. state[c] \in {"resolved", "ready"} => Contents(UserOf[c]).event
  BY <1>6 DEF BoxInv, IInv, HandlersHold
<1> QED
  BY <1>2, <1>3, <1>4, <1>6, <1>7

LEMMA DataKept ==
  ASSUME SInv, NEW d \in Clients, Kept(d)' = Kept(d), pending'[UserOf[d]] = pending[UserOf[d]],
         state'[d] \in {state[d], "idle"}, reply'[d] = reply[d], used'[d] = used[d],
         caller'[d] = "idle" => caller[d] = "idle",
         caller[d] = "answered" => caller'[d] = "answered", finished[d] => finished'[d],
         client'[d] \in {"shown", "refused"} => client[d] \in {"shown", "refused"}
  PROVE  Data(d)'
<1>1. Data(d)
  BY DEF SInv
<1>2. OneModel(d)'
  BY <1>1 DEF Data, OneModel, ModelSent
<1> QED
  BY <1>1, <1>2 DEF Data

(* A step of the service for another userID. *)
LEMMA OtherUser ==
  ASSUME OwnUserIDs, SInv, NEW c \in Clients, NEW d \in Clients, d # c,
         \/ ClientRequest(c) \/ Resume(c) \/ Expire(c) \/ TimerFires(c) \/ Finish(UserOf[c])
         \/ \E m \in Models : Metrics(UserOf[c], m)
  PROVE  /\ Kept(d)' = Kept(d) /\ pending'[UserOf[d]] = pending[UserOf[d]]
         /\ state'[d] = state[d] /\ reply'[d] = reply[d]
<1> USE ConstantsAssumption
<1>1. /\ BoxInv /\ TypeOK /\ UserOf[c] \in Users /\ UserOf[d] \in Users /\ UserOf[d] # UserOf[c]
  BY DEF SInv, BoxInv, IInv, OwnUserIDs
<1>2. CASE ClientRequest(c)
  BY <1>1, <1>2, RequestKeeps DEF Kept, TypeOK
<1>3. CASE Resume(c) \/ Expire(c)
  BY <1>1, <1>3, AnswerKeeps DEF Kept, TypeOK
<1>4. CASE TimerFires(c)
  BY <1>1, <1>4 DEF TimerFires, Cancel, Kept, Contents, TypeOK
<1>5. CASE Finish(UserOf[c])
  <2>1. /\ UNCHANGED <<pending, held, reply>> /\ Contents(UserOf[d])' = Contents(UserOf[d])
        /\ state'[d] # state[d] => state[d] = "waiting" /\ held[d] = pending[UserOf[c]]
    BY <1>1, <1>5, FinishKeeps
  <2>2. ASSUME state[d] = "waiting", held[d] = pending[UserOf[c]] PROVE FALSE
    <3>1. held[d] \in Sessions /\ Owns(UserOf[d], held[d]) /\ Owns(UserOf[c], held[d])
      BY <1>1, <2>2 DEF BoxInv, IInv, HandlersHold, Open, OpenStates, Owns
    <3> QED
      BY <1>1, <3>1 DEF BoxInv, IInv, Isolation
  <2> QED
    BY <2>1, <2>2 DEF Kept
<1>6. CASE \E m \in Models : Metrics(UserOf[c], m)
  BY <1>1, <1>6, MetricsKeeps DEF Kept
<1> QED
  BY <1>2, <1>3, <1>4, <1>5, <1>6

(* The steps of the service for the prompt itself. *)

LEMMA AskData ==
  ASSUME OwnUserIDs, SInv, NEW c \in Clients, AskVerdict(c), Control(c)'
  PROVE  Data(c)'
<1> USE ConstantsAssumption
<1>1. /\ BoxInv /\ TypeOK /\ SysTypeOK /\ UserOf[c] \in Users /\ Control(c) /\ Data(c)
  BY DEF SInv, BoxInv, IInv
<1>2. /\ ClientRequest(c) /\ client[c] = "returned" /\ UNCHANGED <<used, caller, finished>>
      /\ client'[c] = "asking"
  BY <1>1 DEF AskVerdict, ClientGoesOn, SysTypeOK, loadVars, promptVars
<1>3. /\ Kept(c)' = Kept(c)
      /\ state'[c] = IF Kept(c).event THEN "ready" ELSE "waiting"
      /\ reply'[c] = Answer(0, None)
  BY <1>1, <1>2, RequestKeeps DEF Kept, TypeOK
<1>4. caller[c] = "answered"
  BY <1>1, <1>2 DEF Control
<1>5. OneModel(c)'
  BY <1>1, <1>2, <1>3 DEF Data, OneModel, ModelSent
<1> QED
  BY <1>1, <1>2, <1>3, <1>4, <1>5 DEF Data

LEMMA ShowData ==
  ASSUME SInv, NEW c \in Clients, ShowAnswer(c)
  PROVE  Data(c)'
<1> USE ConstantsAssumption
<1>1. BoxInv /\ TypeOK /\ UserOf[c] \in Users /\ Control(c)
  BY DEF SInv, BoxInv, IInv
<1>2. (Resume(c) \/ Expire(c)) /\ caller' = caller
  BY DEF ShowAnswer, promptVars
<1>3. /\ Kept(c)' = NewSession /\ pending'[UserOf[c]] = NoSession /\ state'[c] = "idle"
      /\ reply'[c].code \in {200, 408}
  BY <1>1, <1>2, AnswerKeeps DEF Kept, TypeOK, Answer
<1>4. Len(NewSession.cache) = 0 /\ ~NewSession.event
  BY DEF NewSession
<1>5. OneModel(c)'
  BY <1>3, <1>4 DEF OneModel
<1>6. reply'[c] # Answer(0, None)
  BY <1>3 DEF Answer
<1>7. caller'[c] = "answered"
  BY <1>1, <1>2 DEF Resume, Expire, Control, Open, OpenStates
<1> QED
  BY <1>3, <1>4, <1>5, <1>6, <1>7 DEF Data

LEMMA TimeOutData ==
  ASSUME SInv, NEW c \in Clients, TimeOut(c)
  PROVE  Data(c)'
<1>1. TypeOK /\ Data(c)
  BY DEF SInv, BoxInv, IInv
<1>2. /\ state[c] = "waiting" /\ state'[c] = "expired"
      /\ UNCHANGED <<pending, sessions, reply, used, client, caller, finished>>
  BY <1>1 DEF TimeOut, TimerFires, Cancel, Data, TypeOK, loadVars, promptVars
<1>3. Kept(c)' = Kept(c)
  BY <1>2 DEF Kept, Contents
<1>4. OneModel(c)'
  BY <1>1, <1>2, <1>3 DEF Data, OneModel, ModelSent
<1> QED
  BY <1>1, <1>2, <1>3, <1>4 DEF Data

LEMMA ReportData ==
  ASSUME SInv, NEW c \in Clients, Report(c)
  PROVE  Data(c)'
<1> USE ConstantsAssumption, SystemAssumption
<1>1. /\ BoxInv /\ SysTypeOK /\ UserOf[c] \in Users /\ Control(c) /\ Data(c)
      /\ ModelSent(c) \in Models
  BY DEF SInv, ModelSent
<1>2. /\ Metrics(UserOf[c], ModelSent(c)) /\ caller[c] \in {"asking", "lost"}
      /\ UNCHANGED <<used, client, caller, finished>>
  BY DEF Report, Prompts!Report, loadVars
<1> DEFINE sample == [userID |-> UserOf[c], model |-> ModelSent(c)]
<1>3. Kept(c)' = WithSample(Kept(c), sample) /\ state' = state /\ reply' = reply
  BY <1>1, <1>2, MetricsKeeps DEF Kept
<1>4. Kept(c) \in SessionRecords /\ Kept(c).cache \in Seq(Samples) /\ sample \in Samples
  BY <1>1, BoxShape DEF Kept, SessionRecords, Samples
<1>5. /\ Kept(c)'.event = Kept(c).event /\ Kept(c)'.cache = Append(Kept(c).cache, sample)
      /\ sample.model = ModelSent(c)
  BY <1>3, <1>4 DEF WithSample
<1> HIDE DEF sample
<1>6. OneModel(c)'
  <2>1. \A i \in 1 .. Len(Kept(c)'.cache) : Kept(c)'.cache[i].model = ModelSent(c)
    BY <1>1, <1>4, <1>5 DEF Data, OneModel
  <2> QED
    BY <1>2, <2>1 DEF OneModel, ModelSent
<1> QED
  BY <1>1, <1>2, <1>3, <1>5, <1>6 DEF Data, Control

LEMMA FinishedData ==
  ASSUME OwnUserIDs, SInv, NEW c \in Clients, ReportFinished(c)
  PROVE  Data(c)'
<1> USE ConstantsAssumption
<1>1. /\ BoxInv /\ TypeOK /\ SysTypeOK /\ UserOf[c] \in Users /\ Control(c) /\ Data(c)
  BY DEF SInv, BoxInv, IInv
<1>2. /\ Finish(UserOf[c]) /\ caller[c] \in {"asking", "lost"} /\ finished'[c]
      /\ UNCHANGED <<used, client, caller>>
  BY <1>1 DEF ReportFinished, Prompts!Finish, SysTypeOK, loadVars
<1>3. /\ pending' = pending /\ reply' = reply /\ Kept(c)'.cache = Kept(c).cache
      /\ state'[c] # state[c] => state[c] = "waiting"
  BY <1>1, <1>2, FinishKeeps DEF Kept
<1>4. ~Open(c) /\ client[c] \notin {"shown", "refused"}
  BY <1>1, <1>2 DEF Control
<1>5. state'[c] = state[c] /\ state[c] \notin OpenStates
  BY <1>3, <1>4 DEF Open, OpenStates
<1>6. OneModel(c)'
  BY <1>1, <1>2, <1>3 DEF Data, OneModel, ModelSent
<1> QED
  BY <1>1, <1>2, <1>3, <1>4, <1>5, <1>6 DEF Data, OpenStates

LEMMA DataStep ==
  ASSUME OwnUserIDs, SInv, [SysNext]_sysVars, NEW d \in Clients, Control(d)'
  PROVE  Data(d)'
<1>1. /\ BoxInv /\ TypeOK /\ SysTypeOK /\ Control(d) /\ Data(d)
      /\ \A c \in Clients : UserOf[c] \in Users /\ ModelSent(c) \in Models
  BY ConstantsAssumption, SystemAssumption DEF SInv, BoxInv, IInv, ModelSent
<1> USE <1>1 DEF SysTypeOK, promptVars, loadVars
<1>2. ASSUME UNCHANGED vars PROVE /\ Kept(d)' = Kept(d) /\ pending'[UserOf[d]] = pending[UserOf[d]]
                                  /\ state'[d] = state[d] /\ reply'[d] = reply[d]
  BY <1>2 DEF vars, Kept, Contents
<1>3. ASSUME NEW c \in Clients, PromptStep(c) PROVE Data(d)'
  <2>1. CASE SendPrompt(c)
    BY <1>2, <2>1, DataKept DEF SendPrompt, ClientGoesOn
  <2>2. CASE AskVerdict(c)
    <3>1. CASE d = c
      BY <2>2, <3>1, AskData
    <3>2. CASE d # c
      BY <2>2, <3>2, OtherUser, DataKept DEF AskVerdict, ClientGoesOn
    <3> QED
      BY <3>1, <3>2
  <2>3. CASE ShowAnswer(c)
    <3>1. CASE d = c
      BY <2>3, <3>1, ShowData
    <3>2. CASE d # c
      BY <2>3, <3>2, OtherUser, DataKept DEF ShowAnswer, ClientGoesOn
    <3> QED
      BY <3>1, <3>2
  <2>4. CASE Leave(c)
    BY <1>2, <2>4, DataKept DEF Leave, ClientGoesOn
  <2>5. CASE ReadMode(c)
    <3>1. CASE d = c
      <4>1. caller[c] = "idle" /\ pending[UserOf[c]] = NoSession
        BY <2>5, <3>1 DEF ReadMode, Control, Data
      <4>2. /\ UNCHANGED <<vars, caller, finished, client>>
        BY <2>5 DEF ReadMode
      <4>3. Kept(d)' = NewSession /\ Kept(d) = NewSession /\ Len(NewSession.cache) = 0
        BY <3>1, <4>1, <4>2 DEF vars, Kept, Contents, NewSession
      <4>4. OneModel(d)'
        BY <4>3 DEF OneModel
      <4> QED
        BY <1>2, <4>2, <4>3, <4>4 DEF Data
    <3>2. CASE d # c
      BY <1>2, <2>5, <3>2, DataKept DEF ReadMode
    <3> QED
      BY <3>1, <3>2
  <2>6. CASE Forward(c)
    <3>1. (finished[d] => finished'[d]) /\ (caller[d] = "answered" => caller'[d] = "answered")
      <4>1. caller[c] = "idle" => ~finished[c]
        BY DEF SInv, Control
      <4>2. caller[c] = "idle"
        BY <2>6 DEF Forward, SInv, Control
      <4> QED
        BY <2>6, <4>1, <4>2 DEF Forward, Prompts!Ask, TypeOK
    <3> QED
      BY <1>2, <2>6, <3>1, DataKept DEF Forward, LoadGoesOn, Prompts!Ask
  <2>7. CASE ReturnResponse(c)
    BY <1>2, <2>7, DataKept DEF ReturnResponse, ClientGoesOn, ClientsFail, Prompts!Answer
  <2>8. CASE CallFails(c)
    BY <1>2, <2>8, DataKept DEF CallFails, ClientsFail, Prompts!Lose
  <2>9. CASE Report(c)
    <3>1. CASE d = c
      BY <2>9, <3>1, ReportData
    <3>2. CASE d # c
      BY <2>9, <3>2, OtherUser, DataKept DEF Report, Prompts!Report
    <3> QED
      BY <3>1, <3>2
  <2>10. CASE ReportFinished(c)
    <3>1. CASE d = c
      BY <2>10, <3>1, FinishedData
    <3>2. CASE d # c
      BY <2>10, <3>2, OtherUser, DataKept DEF ReportFinished, Prompts!Finish
    <3> QED
      BY <3>1, <3>2
  <2>11. CASE TimeOut(c)
    <3>1. CASE d = c
      BY <2>11, <3>1, TimeOutData
    <3>2. CASE d # c
      BY <2>11, <3>2, OtherUser, DataKept DEF TimeOut
    <3> QED
      BY <3>1, <3>2
  <2> QED
    BY <1>3, <2>1, <2>2, <2>3, <2>4, <2>5, <2>6, <2>7, <2>8, <2>9, <2>10, <2>11 DEF PromptStep
<1>4. ASSUME LoadDies PROVE Data(d)'
  BY <1>2, <1>4, DataKept DEF LoadDies, ClientsFail, Prompts!Lose
<1>5. ASSUME TmbDies PROVE Data(d)'
  <2>1. /\ LoseMemory /\ UNCHANGED <<used, caller, finished>>
        /\ client'[d] \in {client[d], "failed"}
    BY <1>5 DEF TmbDies, Crash, CrashInSave
  <2>2. /\ Kept(d)' = NewSession /\ pending'[UserOf[d]] = NoSession /\ state'[d] = "idle"
        /\ reply' = reply
    BY <2>1 DEF LoseMemory, Kept, Contents
  <2>3. Len(NewSession.cache) = 0 /\ ~NewSession.event
    BY DEF NewSession
  <2>4. OneModel(d)'
    BY <2>2, <2>3 DEF OneModel
  <2> QED
    BY <2>1, <2>2, <2>3, <2>4 DEF Data
<1>6. ASSUME NEW m \in Modes, SwitchMode(m) PROVE Data(d)'
  BY <1>2, <1>6, DataKept DEF SwitchMode
<1>7. CASE UNCHANGED sysVars
  BY <1>2, <1>7, DataKept DEF sysVars
<1> QED
  BY <1>3, <1>4, <1>5, <1>6, <1>7 DEF SysNext

LEMMA NextSInv ==
  ASSUME OwnUserIDs, SInv, [SysNext]_sysVars
  PROVE  SInv'
<1>1. BoxInv'
  BY ServiceStep, NextBoxInv DEF SInv
<1>2. SysTypeOK'
  BY TypeStep DEF SInv
<1>3. \A d \in Clients : Control(d)'
  BY ControlStep DEF SInv, BoxInv, IInv
<1>4. \A d \in Clients : Data(d)'
  BY <1>3, DataStep
<1> QED
  BY <1>1, <1>2, <1>3, <1>4 DEF SInv

LEMMA SystemInvariance ==
  ASSUME OwnUserIDs PROVE SysSpec => []SInv
<1>1. SInv /\ [SysNext]_sysVars => SInv'
  BY NextSInv
<1> QED
  BY <1>1, InitSInv, PTL DEF SysSpec

(* All samples a verdict is computed from carry the model name that the    *)
(* load server chose for the prompt, however its mode is switched.         *)
THEOREM OneModelJudged ==
  ASSUME OwnUserIDs PROVE SysSpec => []OneModelPerSession
<1> USE ConstantsAssumption
<1>1. ASSUME SInv PROVE OneModelPerSession
  <2> SUFFICES ASSUME NEW c \in Clients, NEW s \in Sessions, Owns(UserOf[c], s)
               PROVE  \A i \in 1 .. Len(sessions[s].cache) : sessions[s].cache[i].model = ModelSent(c)
    BY DEF OneModelPerSession
  <2>1. pending[UserOf[c]] = s
    BY <1>1 DEF Owns, SInv, BoxInv, Listed
  <2>2. Kept(c) = sessions[s]
    BY <2>1 DEF Kept, Contents
  <2> QED
    BY <1>1, <2>2 DEF SInv, Data, OneModel
<1> QED
  BY <1>1, SystemInvariance, PTL

(* No client's request is ever woken: the verdict is there before it asks, *)
(* or it sleeps until its timer.                                           *)
THEOREM VerdictFirst ==
  ASSUME OwnUserIDs PROVE SysSpec => []NoLateVerdict
<1>1. SInv => NoLateVerdict
  BY DEF SInv, Data, NoLateVerdict
<1> QED
  BY <1>1, SystemInvariance, PTL

(* Nothing of an answered prompt is left in pendingRequests, or comes back.*)
THEOREM AnsweredIsGone ==
  ASSUME OwnUserIDs PROVE SysSpec => []NothingLeftBehind
<1>1. SInv => NothingLeftBehind
  BY DEF SInv, Data, NothingLeftBehind
<1> QED
  BY <1>1, SystemInvariance, PTL

------------------------------------------------------------------------------
(* The promise: what each step does to the stages and the verdicts.        *)

PromiseTyped ==
  \A d \in Clients :
    StageOf(d) \in Promise!Stages /\ VerdictOf(d) \in Verdicts \cup {Nothing}

LEMMA PromiseTypes == SInv => PromiseTyped
<1> SUFFICES ASSUME SInv, NEW d \in Clients
             PROVE  StageOf(d) \in Promise!Stages /\ VerdictOf(d) \in Verdicts \cup {Nothing}
  BY DEF PromiseTyped
<1> USE ConstantsAssumption
<1>1. BoxInv /\ TypeOK /\ SysTypeOK /\ UserOf[d] \in Users
  BY DEF SInv, BoxInv, IInv
<1>2. reply[d].verified \in Verdicts
  BY <1>1 DEF TypeOK, Replies
<1>3. Contents(UserOf[d]).verification \in Verdicts
  BY <1>1, BoxShape DEF SessionRecords
<1> QED
  BY <1>1, <1>2, <1>3 DEF StageOf, VerdictOf, SysTypeOK, ClientStates, Done, Promise!Stages

LEMMA VerdictSame ==
  ASSUME NEW d \in Clients, Kept(d)' = Kept(d), client'[d] = "shown" <=> client[d] = "shown",
         client[d] = "shown" => reply'[d] = reply[d]
  PROVE  VerdictOf(d)' = VerdictOf(d)
BY DEF VerdictOf, Kept

(* Steps that nobody sees, except that clients fail and verdicts are lost. *)
LEMMA LoseStep ==
  ASSUME SInv', finished' = finished,
         \A d \in Clients : \/ StageOf(d)' = StageOf(d)
                            \/ StageOf(d) = "open" /\ StageOf(d)' = "failed",
         \A d \in Clients : \/ VerdictOf(d)' = VerdictOf(d)
                            \/ StageOf(d) # "shown" /\ VerdictOf(d)' = Nothing
  PROVE  Promise!Lose
<1>1. PromiseTyped'
  BY PromiseTypes, PTL
<1> QED
  BY <1>1 DEF PromiseTyped, Promise!Lose

(* The service's steps for a prompt change the verdict of no other.        *)
LEMMA OthersVerdict ==
  ASSUME OwnUserIDs, SInv, NEW c \in Clients, NEW d \in Clients, d # c, client'[d] = client[d],
         \/ ClientRequest(c) \/ Resume(c) \/ Expire(c) \/ TimerFires(c) \/ Finish(UserOf[c])
         \/ \E m \in Models : Metrics(UserOf[c], m)
  PROVE  StageOf(d)' = StageOf(d) /\ VerdictOf(d)' = VerdictOf(d)
<1>1. Kept(d)' = Kept(d) /\ reply'[d] = reply[d]
  BY OtherUser
<1> QED
  BY <1>1, VerdictSame DEF StageOf

LEMMA SendPromise ==
  ASSUME SInv, NEW c \in Clients, SendPrompt(c)
  PROVE  Promise!Send(c)
<1>1. SysTypeOK /\ UNCHANGED vars /\ finished' = finished
  BY DEF SInv, SendPrompt, promptVars
<1>2. client[c] = "idle" /\ client' = [client EXCEPT ![c] = "prompting"]
  BY DEF SendPrompt, ClientGoesOn
<1>3. \A d \in Clients : VerdictOf(d)' = VerdictOf(d)
  <2>1. \A d \in Clients : Kept(d)' = Kept(d) /\ reply'[d] = reply[d]
    BY <1>1 DEF vars, Kept, Contents
  <2> QED
    BY <1>1, <1>2, <2>1, VerdictSame DEF SysTypeOK
<1>4. /\ StageOf(c) = "new" /\ StageOf(c)' = "open"
      /\ \A d \in Clients : d # c => StageOf(d)' = StageOf(d)
  BY <1>1, <1>2 DEF StageOf, Done, SysTypeOK
<1> QED
  BY <1>1, <1>3, <1>4 DEF Promise!Send

LEMMA ShowPromise ==
  ASSUME OwnUserIDs, SInv, SInv', NEW c \in Clients, ShowAnswer(c)
  PROVE  Promise!Show(c) \/ Promise!Refuse(c) \/ Promise!Lose
<1> USE ConstantsAssumption, SystemAssumption
<1>1. /\ BoxInv /\ TypeOK /\ SysTypeOK /\ UserOf[c] \in Users /\ Control(c) /\ Data(c)
  BY DEF SInv, BoxInv, IInv
<1>2. /\ Resume(c) \/ Expire(c)
      /\ state[c] \in {"resolved", "ready", "expired"}
      /\ finished' = finished
  BY DEF ShowAnswer, Resume, Expire, promptVars
<1>3. /\ Kept(c)' = NewSession
      /\ reply' = [reply EXCEPT ![c] = IF state[c] = "expired" THEN Answer(408, None)
                                       ELSE Answer(200, Kept(c).verification)]
      /\ state[c] \in {"resolved", "ready"} => Kept(c).event
  BY <1>1, <1>2, AnswerKeeps DEF Kept
<1>4. \A d \in Clients : d # c => client'[d] = client[d]
  BY <1>1 DEF ShowAnswer, ClientGoesOn, SysTypeOK
<1>5. \A d \in Clients : d # c => StageOf(d)' = StageOf(d) /\ VerdictOf(d)' = VerdictOf(d)
  BY <1>2, <1>4, OthersVerdict
<1>6. ~NewSession.event
  BY DEF NewSession
<1>7. CASE client[c] = "asking" /\ state[c] = "expired"
  <2>1. reply'[c].code = 408 /\ ~Kept(c).event
    BY <1>1, <1>3, <1>7 DEF Answer, TypeOK, Data
  <2>2. client'[c] = "refused"
    BY <1>1, <1>7, <2>1 DEF ShowAnswer, ClientGoesOn, SysTypeOK
  <2>3. VerdictOf(c) = Nothing /\ VerdictOf(c)' = Nothing
    BY <1>3, <1>6, <1>7, <2>1, <2>2 DEF VerdictOf, Kept
  <2>4. StageOf(c) = "open" /\ StageOf(c)' = "refused"
    BY <1>7, <2>2 DEF StageOf, Done
  <2> QED
    BY <1>2, <1>5, <2>3, <2>4 DEF Promise!Refuse
<1>8. CASE client[c] = "asking" /\ state[c] # "expired"
  <2>1. /\ reply'[c].code = 200 /\ reply'[c].verified = Kept(c).verification /\ Kept(c).event
    BY <1>1, <1>2, <1>3, <1>8 DEF Answer, TypeOK
  <2>2. client'[c] = "shown"
    BY <1>1, <1>8, <2>1 DEF ShowAnswer, ClientGoesOn, SysTypeOK
  <2>3. VerdictOf(c) = Kept(c).verification /\ VerdictOf(c)' = VerdictOf(c)
    BY <1>8, <2>1, <2>2 DEF VerdictOf, Kept
  <2>4. StageOf(c) = "open" /\ StageOf(c)' = "shown"
    BY <1>8, <2>2 DEF StageOf, Done
  <2>5. VerdictOf(c) # Nothing
    BY <1>1, <2>3, BoxShape DEF Kept, SessionRecords
  <2>6. finished[c]
    BY <1>1, <2>1 DEF Data
  <2> QED
    BY <1>2, <1>5, <2>3, <2>4, <2>5, <2>6 DEF Promise!Show
<1>9. CASE client[c] # "asking"
  <2>1. Open(c)
    BY <1>2 DEF Open, OpenStates
  <2>2. client[c] = "failed" /\ client'[c] = "failed"
    BY <1>1, <1>9, <2>1 DEF Control, ShowAnswer, ClientGoesOn, SysTypeOK
  <2>3. VerdictOf(c)' = Nothing /\ StageOf(c) = "failed" /\ StageOf(c)' = "failed"
    BY <1>3, <1>6, <2>2 DEF VerdictOf, Kept, StageOf, Done
  <2> QED
    BY <1>2, <1>5, <2>3, LoseStep
<1> QED
  BY <1>7, <1>8, <1>9

LEMMA JudgePromise ==
  ASSUME OwnUserIDs, SInv, SInv', NEW c \in Clients, ReportFinished(c)
  PROVE  \E v \in Verdicts \cup {Nothing} : Promise!Judge(c, v)
<1>1. SysTypeOK /\ Control(c)
  BY DEF SInv
<1>2. /\ Finish(UserOf[c]) /\ client' = client /\ ~finished[c]
      /\ finished' = [finished EXCEPT ![c] = TRUE] /\ caller[c] \in {"asking", "lost"}
  BY DEF ReportFinished, Prompts!Finish
<1>3. \A d \in Clients : d # c => VerdictOf(d)' = VerdictOf(d)
  BY <1>2, OthersVerdict
<1>4. \A d \in Clients : StageOf(d)' = StageOf(d)
  BY <1>2 DEF StageOf
<1>5. StageOf(c) \in {"open", "failed"}
  BY <1>1, <1>2 DEF Control, StageOf, Done, SysTypeOK, ClientStates
<1>6. VerdictOf(c)' \in Verdicts \cup {Nothing}
  <2>1. PromiseTyped'
    BY PromiseTypes, PTL
  <2> QED
    BY <2>1 DEF PromiseTyped
<1>7. Promise!Judge(c, VerdictOf(c)')
  BY <1>2, <1>3, <1>4, <1>5 DEF Promise!Judge
<1> QED
  BY <1>6, <1>7

LEMMA PromiseStep ==
  ASSUME OwnUserIDs, SInv, SInv', [SysNext]_sysVars
  PROVE  Promise!Next \/ UNCHANGED Promise!promptVars
<1> USE ConstantsAssumption, SystemAssumption
<1>1. /\ BoxInv /\ TypeOK /\ SysTypeOK
      /\ \A c \in Clients : UserOf[c] \in Users /\ ModelSent(c) \in Models /\ Control(c)
  BY DEF SInv, BoxInv, IInv, ModelSent
<1> USE DEF promptVars, loadVars
<1>2. ASSUME finished' = finished,
             \A d \in Clients : \/ client'[d] = client[d]
                                \/ /\ client[d] \in {"prompting", "returned", "asking"}
                                   /\ client'[d] \in {"prompting", "returned", "asking", "failed"},
             \A d \in Clients : \/ VerdictOf(d)' = VerdictOf(d)
                                \/ StageOf(d) # "shown" /\ VerdictOf(d)' = Nothing
      PROVE  Promise!Lose
  <2>1. \A d \in Clients : StageOf(d)' = StageOf(d) \/ (StageOf(d) = "open" /\ StageOf(d)' = "failed")
    BY <1>2 DEF StageOf, Done
  <2> QED
    BY <1>2, <2>1, LoseStep
<1>3. ASSUME UNCHANGED vars, finished' = finished,
             \A d \in Clients : \/ client'[d] = client[d]
                                \/ /\ client[d] \in {"prompting", "returned", "asking"}
                                   /\ client'[d] \in {"prompting", "returned", "asking", "failed"}
      PROVE  Promise!Lose
  <2>1. \A d \in Clients : Kept(d)' = Kept(d) /\ reply'[d] = reply[d]
    BY <1>3 DEF vars, Kept, Contents
  <2>2. \A d \in Clients : VerdictOf(d)' = VerdictOf(d)
    BY <1>3, <2>1, VerdictSame
  <2> QED
    BY <1>2, <1>3, <2>2
<1>4. ASSUME NEW c \in Clients, PromptStep(c) PROVE Promise!Next
  <2>1. CASE SendPrompt(c)
    BY <2>1, SendPromise DEF Promise!Next
  <2>2. CASE AskVerdict(c)
    <3>1. /\ ClientRequest(c) /\ finished' = finished
          /\ client[c] = "returned" /\ client' = [client EXCEPT ![c] = "asking"]
      BY <2>2 DEF AskVerdict, ClientGoesOn
    <3>2. /\ \A d \in Clients : Kept(d)' = Kept(d)
          /\ \A d \in Clients : d # c => reply'[d] = reply[d]
      BY <1>1, <3>1, RequestKeeps DEF Kept, TypeOK
    <3>3. \A d \in Clients : VerdictOf(d)' = VerdictOf(d)
      BY <1>1, <3>1, <3>2, VerdictSame DEF SysTypeOK
    <3> QED
      BY <1>1, <1>2, <3>1, <3>3 DEF SysTypeOK, Promise!Next
  <2>3. CASE ShowAnswer(c)
    BY <2>3, ShowPromise DEF Promise!Next
  <2>4. CASE Leave(c)
    BY <1>1, <1>3, <2>4 DEF Leave, ClientGoesOn, SysTypeOK, Promise!Next
  <2>5. CASE ReadMode(c)
    BY <1>3, <2>5 DEF ReadMode, Promise!Next
  <2>6. CASE Forward(c)
    <3>1. ~finished[c]
      BY <1>1, <2>6 DEF Forward, Control
    <3>2. finished' = finished
      BY <1>1, <2>6, <3>1 DEF Forward, Prompts!Ask, SysTypeOK
    <3> QED
      BY <1>3, <2>6, <3>2 DEF Forward, Promise!Next
  <2>7. CASE ReturnResponse(c)
    BY <1>1, <1>3, <2>7 DEF ReturnResponse, ClientGoesOn, ClientsFail, Prompts!Answer, SysTypeOK,
         Promise!Next
  <2>8. CASE CallFails(c)
    BY <1>3, <2>8 DEF CallFails, ClientsFail, Prompts!Lose, Promise!Next
  <2>9. CASE Report(c)
    <3>1. /\ Metrics(UserOf[c], ModelSent(c)) /\ client' = client /\ finished' = finished
      BY <2>9 DEF Report, Prompts!Report
    <3>2. \A d \in Clients : d # c => VerdictOf(d)' = VerdictOf(d)
      BY <1>1, <3>1, OthersVerdict
    <3>3. /\ reply' = reply
          /\ Kept(c)' = WithSample(Kept(c), [userID |-> UserOf[c], model |-> ModelSent(c)])
      BY <1>1, <3>1, MetricsKeeps DEF Kept
    <3>4. Kept(c)'.event = Kept(c).event /\ Kept(c)'.verification = Kept(c).verification
      BY <3>3 DEF WithSample
    <3>5. VerdictOf(c)' = VerdictOf(c)
      BY <3>1, <3>3, <3>4 DEF VerdictOf, Kept
    <3> QED
      BY <1>2, <3>1, <3>2, <3>5 DEF Promise!Next
  <2>10. CASE ReportFinished(c)
    BY <2>10, JudgePromise DEF Promise!Next
  <2>11. CASE TimeOut(c)
    <3>1. /\ UNCHANGED <<pending, sessions, reply>> /\ client' = client /\ finished' = finished
      BY <2>11 DEF TimeOut, TimerFires, Cancel
    <3>2. \A d \in Clients : VerdictOf(d)' = VerdictOf(d)
      BY <3>1 DEF VerdictOf, Contents
    <3> QED
      BY <1>2, <3>1, <3>2 DEF Promise!Next
  <2> QED
    BY <1>4, <2>1, <2>2, <2>3, <2>4, <2>5, <2>6, <2>7, <2>8, <2>9, <2>10, <2>11 DEF PromptStep
<1>5. ASSUME LoadDies PROVE Promise!Next
  BY <1>3, <1>5 DEF LoadDies, ClientsFail, Prompts!Lose, Promise!Next
<1>6. ASSUME TmbDies PROVE Promise!Next
  <2>1. /\ LoseMemory /\ finished' = finished
        /\ client' = [c \in Clients |-> IF client[c] = "asking" THEN "failed" ELSE client[c]]
    BY <1>6 DEF TmbDies, Crash, CrashInSave
  <2>2. reply' = reply /\ \A d \in Clients : Kept(d)' = NewSession
    BY <2>1 DEF LoseMemory, Kept, Contents
  <2>3. ~NewSession.event
    BY DEF NewSession
  <2>4. ASSUME NEW d \in Clients
        PROVE  VerdictOf(d)' = VerdictOf(d) \/ (StageOf(d) # "shown" /\ VerdictOf(d)' = Nothing)
    <3>1. CASE client[d] = "shown"
      BY <2>1, <2>2, <3>1 DEF VerdictOf
    <3>2. CASE client[d] # "shown"
      BY <2>1, <2>2, <2>3, <3>2 DEF VerdictOf, Kept, StageOf, Done
    <3> QED
      BY <3>1, <3>2
  <2> QED
    BY <1>2, <2>1, <2>4 DEF Promise!Next
<1>7. ASSUME NEW m \in Modes, SwitchMode(m) PROVE Promise!Next
  BY <1>3, <1>7 DEF SwitchMode, Promise!Next
<1>8. ASSUME UNCHANGED sysVars PROVE Promise!Next
  BY <1>3, <1>8 DEF sysVars, Promise!Next
<1> QED
  BY <1>4, <1>5, <1>6, <1>7, <1>8 DEF SysNext

(* A prompt with a userID of its own is judged at most once, by its own    *)
(* /finished, and the verdict shown is that one; failures of clients,      *)
(* connections, load server, wrapper and service only lose it.             *)
THEOREM PromiseKept ==
  ASSUME OwnUserIDs PROVE SysSpec => KeepsPromise
<1>1. SysInit => Promise!Init
  <2> SUFFICES ASSUME SysInit PROVE Promise!Init
    OBVIOUS
  <2>1. \A c \in Clients : Contents(UserOf[c]) = NewSession /\ ~NewSession.event
    BY ConstantsAssumption DEF SysInit, Init, Contents, NewSession
  <2>2. \A c \in Clients : StageOf(c) = "new" /\ VerdictOf(c) = Nothing /\ ~finished[c]
    BY <2>1 DEF SysInit, Prompts!Init, StageOf, VerdictOf
  <2> QED
    BY <2>2 DEF SysInit, Prompts!Init, Promise!Init
<1>2. SInv /\ SInv' /\ [SysNext]_sysVars => [Promise!Next]_(Promise!promptVars)
  BY PromiseStep
<1> QED
  BY <1>1, <1>2, SystemInvariance, PTL DEF SysSpec, KeepsPromise, Promise!Spec

------------------------------------------------------------------------------
(***************************************************************************)
(* Waiting, and liveness, which is argued as in TmbServerProofs.  Nothing  *)
(* is needed of the userIDs here: a prompt settles whatever else is asked  *)
(* under its userID.                                                       *)
(***************************************************************************)

SysServed(guard, step) == <>[]guard => []<><<step>>_sysVars

CanAsk(c) == client[c] = "returned" /\ ~Open(c)

Answerable(c) == Awake(c) \/ Expired(c)

PromptServed(c) ==
  /\ SysServed(load[c] = "submitted", ReadMode(c))
  /\ SysServed(load[c] = "read" /\ caller[c] # "asking", Forward(c))
  /\ SysServed(load[c] = "forwarded" /\ caller[c] = "asking", ReturnResponse(c))
  /\ SysServed(CanAsk(c) /\ SessionFor(UserOf[c]) # {}, AskVerdict(c))
  /\ SysServed(Answerable(c), ShowAnswer(c))
  /\ SysServed(Asleep(c), TimeOut(c))

SysGuardsSuffice(c) ==
  /\ load[c] = "submitted" => ENABLED <<ReadMode(c)>>_sysVars
  /\ load[c] = "read" /\ caller[c] # "asking" => ENABLED <<Forward(c)>>_sysVars
  /\ load[c] = "forwarded" /\ caller[c] = "asking" => ENABLED <<ReturnResponse(c)>>_sysVars
  /\ CanAsk(c) /\ SessionFor(UserOf[c]) # {} => ENABLED <<AskVerdict(c)>>_sysVars
  /\ Answerable(c) => ENABLED <<ShowAnswer(c)>>_sysVars
  /\ Asleep(c) => ENABLED <<TimeOut(c)>>_sysVars

SysGuardsAreEnough == \A c \in Clients : SysGuardsSuffice(c)

LEMMA SysFairnessServes ==
  ASSUME NEW c \in Clients
  PROVE  SysFairness /\ []SysGuardsAreEnough => PromptServed(c)
<1>1. SysFairness => PromptFair(c)
  BY DEF SysFairness
<1>2. SysGuardsAreEnough => SysGuardsSuffice(c)
  BY DEF SysGuardsAreEnough
<1> QED
  BY <1>1, <1>2, PTL DEF SysGuardsSuffice, PromptFair, PromptServed, SysServed

(* There is always an object to be had: the dictionary and the handlers,   *)
(* with a reference each, do not use up the Sessions.  (In the code they   *)
(* are made as they are needed.)                                           *)
EnoughSessions ==
  \A f \in [Users -> Sessions \cup {NoSession}], g \in [Clients -> Sessions \cup {NoSession}] :
    \E s \in Sessions : (\A u \in Users : f[u] # s) /\ (\A c \in Clients : g[c] # s)

LEMMA SessionToUse ==
  ASSUME EnoughSessions, TypeOK, NEW u \in Users
  PROVE  SessionFor(u) # {}
<1>1. PICK s \in Sessions : (\A w \in Users : pending[w] # s) /\ (\A c \in Clients : held[c] # s)
  BY DEF EnoughSessions, TypeOK
<1>2. s \in Unowned
  BY <1>1 DEF Unowned, Owns
<1> QED
  BY <1>2 DEF SessionFor

CInv == TypeOK /\ SysTypeOK /\ \A c \in Clients : Control(c)

LEMMA ControlInvariance == SysSpec => []CInv
<1>1. SysInit => CInv
  BY InitSInv DEF CInv, SInv, BoxInv, IInv
<1>2. TypeOK' /\ CInv /\ [SysNext]_sysVars => CInv'
  BY TypeStep, ControlStep DEF CInv
<1> QED
  BY <1>1, <1>2, ServiceInSystem, TypeCorrect, PTL DEF SysSpec

(* Whoever waits is waited for: no client, and no handler, waits for one   *)
(* that is gone or waits for it, whichever programs die.                   *)
THEOREM NobodyWaitsInVain ==
  ASSUME EnoughSessions PROVE SysSpec => []NobodyStuck
<1>1. ASSUME CInv, NEW c \in Clients
      PROVE  /\ client[c] = "prompting" =>
                  \/ load[c] = "submitted"
                  \/ load[c] = "read" /\ caller[c] # "asking"
                  \/ load[c] = "forwarded" /\ caller[c] = "asking"
             /\ client[c] = "returned" => ~Open(c) /\ SessionFor(UserOf[c]) # {}
             /\ client[c] = "asking" => Open(c)
  <2>1. SessionFor(UserOf[c]) # {}
    BY <1>1, EnoughSessions, SessionToUse, ConstantsAssumption DEF CInv
  <2> QED
    BY <1>1, <2>1 DEF CInv, SysTypeOK, LoadStates, Control
<1>2. CInv => NobodyStuck
  BY <1>1 DEF NobodyStuck
<1> QED
  BY <1>2, ControlInvariance, PTL

(* What a step makes of a prompt at its client and at the load server.     *)
LEMMA PromptMoves ==
  ASSUME CInv, [SysNext]_sysVars, NEW d \in Clients, client[d] # "idle"
  PROVE  /\ \/ client'[d] = client[d]
            \/ client[d] = "prompting" /\ client'[d] = "returned"
            \/ client[d] = "returned" /\ client'[d] = "asking"
            \/ client'[d] \in Done
         /\ client'[d] = "prompting" =>
              \/ load'[d] = load[d]
              \/ load[d] = "submitted" /\ load'[d] = "read"
              \/ load[d] = "read" /\ load'[d] = "forwarded"
<1> USE DEF CInv, SysTypeOK, promptVars, loadVars, Done
<1>1. ASSUME NEW c \in Clients, SendPrompt(c) \/ AskVerdict(c) \/ Leave(c)
      PROVE  /\ client'[d] = client[d] \/ client'[d] = "failed"
                  \/ (client[d] = "returned" /\ client'[d] = "asking")
             /\ load'[d] = load[d]
  BY <1>1 DEF SendPrompt, AskVerdict, Leave, ClientGoesOn, LoadGoesOn
<1>2. ASSUME NEW c \in Clients, ShowAnswer(c)
      PROVE  (client'[d] = client[d] \/ client'[d] \in Done) /\ load'[d] = load[d]
  BY <1>2 DEF ShowAnswer, ClientGoesOn
<1>3. ASSUME NEW c \in Clients, ReadMode(c) \/ Forward(c)
      PROVE  /\ client'[d] = client[d]
             /\ \/ load'[d] = load[d]
                \/ load[d] = "submitted" /\ load'[d] = "read"
                \/ load[d] = "read" /\ load'[d] = "forwarded"
  BY <1>3 DEF ReadMode, Forward, LoadGoesOn
<1>4. ASSUME NEW c \in Clients, ReturnResponse(c) \/ CallFails(c)
      PROVE  /\ client'[d] = client[d] \/ client'[d] = "failed"
                  \/ (client[d] = "prompting" /\ client'[d] = "returned")
             /\ client'[d] = "prompting" => load'[d] = load[d]
  BY <1>4 DEF ReturnResponse, CallFails, ClientGoesOn, ClientsFail, LoadGoesOn
<1>5. ASSUME NEW c \in Clients, Report(c) \/ ReportFinished(c) \/ TimeOut(c)
      PROVE  client' = client /\ load' = load
  BY <1>5 DEF Report, ReportFinished, TimeOut
<1>6. ASSUME LoadDies
      PROVE  (client'[d] = client[d] \/ client'[d] = "failed") /\ client'[d] # "prompting"
  BY <1>6 DEF LoadDies, ClientsFail
<1>7. ASSUME TmbDies PROVE (client'[d] = client[d] \/ client'[d] = "failed") /\ load' = load
  BY <1>7 DEF TmbDies
<1>8. ASSUME (\E m \in Modes : SwitchMode(m)) \/ UNCHANGED sysVars
      PROVE  client' = client /\ load' = load
  BY <1>8 DEF SwitchMode, sysVars
<1> QED
  BY <1>1, <1>2, <1>3, <1>4, <1>5, <1>6, <1>7, <1>8 DEF SysNext, PromptStep

(* A prompt on its way is answered, or fails. *)
LEMMA PromptReturns ==
  ASSUME NEW c \in Clients
  PROVE  SysSpec /\ PromptServed(c) =>
           (client[c] = "prompting" ~> client[c] = "returned" \/ client[c] \in Done)
<1> DEFINE at(where) == client[c] = "prompting" /\ load[c] = where
           over == client[c] = "returned" \/ client[c] \in Done
<1> USE DEF CInv, SysTypeOK
<1>1. CInv /\ client[c] = "prompting" => at("submitted") \/ at("read") \/ at("forwarded")
  BY DEF Control, LoadStates
<1>2. /\ CInv /\ at("submitted") /\ [SysNext]_sysVars => at("submitted")' \/ at("read")' \/ over'
      /\ CInv /\ at("submitted") /\ <<ReadMode(c)>>_sysVars => at("read")'
      /\ at("submitted") => load[c] = "submitted"
  <2>1. CInv /\ at("submitted") /\ [SysNext]_sysVars => at("submitted")' \/ at("read")' \/ over'
    BY PromptMoves
  <2>2. CInv /\ at("submitted") /\ <<ReadMode(c)>>_sysVars => at("read")'
    BY DEF ReadMode, LoadGoesOn
  <2> QED
    BY <2>1, <2>2
<1>3. /\ CInv /\ at("read") /\ [SysNext]_sysVars => at("read")' \/ at("forwarded")' \/ over'
      /\ CInv /\ at("read") /\ <<Forward(c)>>_sysVars => at("forwarded")'
      /\ CInv /\ at("read") => load[c] = "read" /\ caller[c] # "asking"
  <2>1. CInv /\ at("read") /\ [SysNext]_sysVars => at("read")' \/ at("forwarded")' \/ over'
    BY PromptMoves
  <2>2. CInv /\ at("read") /\ <<Forward(c)>>_sysVars => at("forwarded")'
    BY DEF Forward, LoadGoesOn
  <2>3. CInv /\ at("read") => caller[c] # "asking"
    BY DEF Control
  <2> QED
    BY <2>1, <2>2, <2>3
<1>4. /\ CInv /\ at("forwarded") /\ [SysNext]_sysVars => at("forwarded")' \/ over'
      /\ CInv /\ at("forwarded") /\ <<ReturnResponse(c)>>_sysVars => over'
      /\ CInv /\ at("forwarded") => load[c] = "forwarded" /\ caller[c] = "asking"
  <2>1. CInv /\ at("forwarded") /\ [SysNext]_sysVars => at("forwarded")' \/ over'
    BY PromptMoves
  <2>2. CInv /\ at("forwarded") /\ <<ReturnResponse(c)>>_sysVars => over'
    BY DEF ReturnResponse, ClientGoesOn, ClientsFail, Done
  <2>3. CInv /\ at("forwarded") => caller[c] = "asking"
    BY DEF Control
  <2> QED
    BY <2>1, <2>2, <2>3
<1>5. SysSpec /\ PromptServed(c) => (at("submitted") ~> at("read") \/ over)
  BY <1>2, ControlInvariance, PTL DEF SysSpec, PromptServed, SysServed
<1>6. SysSpec /\ PromptServed(c) => (at("read") ~> at("forwarded") \/ over)
  BY <1>3, ControlInvariance, PTL DEF SysSpec, PromptServed, SysServed
<1>7. SysSpec /\ PromptServed(c) => (at("forwarded") ~> over)
  BY <1>4, ControlInvariance, PTL DEF SysSpec, PromptServed, SysServed
<1> QED
  BY <1>1, <1>5, <1>6, <1>7, ControlInvariance, PTL

(* A client that asks for the verdict gets an answer, or fails. *)
LEMMA AskerSettles ==
  ASSUME NEW c \in Clients
  PROVE  SysSpec /\ PromptServed(c) => (client[c] = "asking" ~> client[c] \in Done)
<1> DEFINE asleep == client[c] = "asking" /\ Asleep(c)
           ready == client[c] = "asking" /\ state[c] = "ready"
           expired == client[c] = "asking" /\ Expired(c)
           over == client[c] \in Done
<1>1. CInv /\ client[c] = "asking" => asleep \/ ready \/ expired
  BY DEF CInv, Control, Open, OpenStates, Asleep, Expired
<1>2. ASSUME CInv, CInv', [SysNext]_sysVars, client[c] = "asking"
      PROVE  \/ over'
             \/ client'[c] = "asking" /\ state'[c] = state[c]
             \/ asleep /\ asleep'
             \/ asleep /\ expired'
  <2>1. CASE client'[c] # "asking"
    BY <1>2, <2>1, PromptMoves
  <2>2. CASE client'[c] = "asking"
    <3>1. Open(c) /\ Open(c)'
      BY <1>2, <2>2 DEF CInv, Control
    <3>2. \/ state'[c] = state[c]
          \/ state[c] = "waiting" /\ state'[c] = "resolved"
          \/ Asleep(c) /\ Expired(c)'
          \/ Settled(c)'
      BY <1>2, <3>1, ServiceStep, HandlerMoves DEF CInv
    <3> QED
      BY <1>2, <2>2, <3>1, <3>2 DEF Settled, Asleep
  <2> QED
    BY <2>1, <2>2
<1>3. /\ CInv /\ CInv' /\ asleep /\ [SysNext]_sysVars => asleep' \/ expired' \/ over'
      /\ CInv /\ CInv' /\ ready /\ [SysNext]_sysVars => ready' \/ over'
      /\ CInv /\ CInv' /\ expired /\ [SysNext]_sysVars => expired' \/ over'
  BY <1>2 DEF Asleep, Expired
<1>4. CInv /\ asleep /\ <<TimeOut(c)>>_sysVars => expired'
  BY DEF TimeOut, TimerFires, Cancel, CInv, TypeOK, Expired, loadVars
<1>5. CInv /\ client[c] = "asking" /\ <<ShowAnswer(c)>>_sysVars => over'
  BY DEF ShowAnswer, ClientGoesOn, CInv, SysTypeOK, Done
<1>6. /\ CInv /\ ready /\ <<ShowAnswer(c)>>_sysVars => over'
      /\ CInv /\ expired /\ <<ShowAnswer(c)>>_sysVars => over'
      /\ ready => Answerable(c)
      /\ expired => Answerable(c)
      /\ asleep => Asleep(c)
  BY <1>5 DEF Answerable, Awake
<1>7. SysSpec /\ PromptServed(c) => (asleep ~> expired \/ over)
  BY <1>3, <1>4, <1>6, ControlInvariance, PTL DEF SysSpec, PromptServed, SysServed
<1>8. SysSpec /\ PromptServed(c) => (ready ~> over)
  BY <1>3, <1>6, ControlInvariance, PTL DEF SysSpec, PromptServed, SysServed
<1>9. SysSpec /\ PromptServed(c) => (expired ~> over)
  BY <1>3, <1>6, ControlInvariance, PTL DEF SysSpec, PromptServed, SysServed
<1> QED
  BY <1>1, <1>7, <1>8, <1>9, ControlInvariance, PTL

LEMMA PromptEnds ==
  ASSUME EnoughSessions, NEW c \in Clients
  PROVE  SysSpec /\ PromptServed(c) =>
           /\ client[c] = "prompting" ~> client[c] \in Done
           /\ client[c] = "returned" ~> client[c] \in Done
<1>1. CInv /\ client[c] = "returned" /\ [SysNext]_sysVars =>
        (client[c] = "returned")' \/ (client[c] = "asking")' \/ (client[c] \in Done)'
  BY PromptMoves
<1>2. CInv /\ client[c] = "returned" /\ <<AskVerdict(c)>>_sysVars => (client[c] = "asking")'
  BY DEF AskVerdict, ClientGoesOn, CInv, SysTypeOK
<1>3. CInv /\ client[c] = "returned" => CanAsk(c) /\ SessionFor(UserOf[c]) # {}
  BY EnoughSessions, SessionToUse, ConstantsAssumption DEF CInv, Control, CanAsk
<1>4. SysSpec /\ PromptServed(c) => (client[c] = "returned" ~> client[c] = "asking" \/ client[c] \in Done)
  BY <1>1, <1>2, <1>3, ControlInvariance, PTL DEF SysSpec, PromptServed, SysServed
<1> QED
  BY <1>4, PromptReturns, AskerSettles, PTL

(* Every prompt comes to an end at its client: none of the four programs   *)
(* it passes waits for one that waits for it, whoever dies meanwhile.      *)
THEOREM EveryPromptSettles ==
  ASSUME EnoughSessions
  PROVE  SysFairSpec /\ []SysGuardsAreEnough => PromptSettled
<1>1. ASSUME NEW c \in Clients
      PROVE  SysFairSpec /\ []SysGuardsAreEnough => (client[c] = "prompting" ~> client[c] \in Done)
  <2>1. SysSpec /\ PromptServed(c) => (client[c] = "prompting" ~> client[c] \in Done)
    BY EnoughSessions, PromptEnds
  <2> QED
    BY <2>1, SysFairnessServes, PTL DEF SysFairSpec
<1> QED
  BY <1>1 DEF PromptSettled

(* The event loop's fairness in the system is that of the service alone.   *)
LEMMA LoopServedInSystem ==
  ASSUME NEW c \in Clients
  PROVE  SysSpec /\ PromptServed(c) => LoopServes(c)
<1>1. TypeOK /\ <<TimeOut(c)>>_sysVars => <<TimerFires(c)>>_vars
  BY DEF TimeOut, TimerFires, Cancel, TypeOK, vars
<1>2. TypeOK /\ <<ShowAnswer(c)>>_sysVars => <<Resume(c)>>_vars \/ <<Expire(c)>>_vars
  BY DEF ShowAnswer, Resume, Expire, Return, Respond, TypeOK, vars
<1>3. /\ Awake(c) => Answerable(c) /\ ~Expired(c)
      /\ Expired(c) => Answerable(c)
      /\ <<Resume(c)>>_vars => Awake(c)
      /\ <<Expire(c)>>_vars => Expired(c)
  BY DEF Answerable, Awake, Expired, Resume, Expire
<1>4. SysSpec => []TypeOK
  BY ServiceInSystem, TypeCorrect, PTL
<1> QED
  BY <1>1, <1>2, <1>3, <1>4, PTL DEF PromptServed, SysServed, LoopServes, Served

(* What is kept of a prompt goes away once the prompt is over, unless its  *)
(* client has never come to ask for it.                                    *)
LEMMA SessionComesBack ==
  ASSUME OwnUserIDs, EnoughSessions, NEW c \in Clients
  PROVE  SysSpec /\ PromptServed(c) =>
           (pending[UserOf[c]] # NoSession ~> pending[UserOf[c]] = NoSession \/ Unasked(c))
<1>1. SInv /\ pending[UserOf[c]] # NoSession =>
        \/ client[c] = "prompting" \/ client[c] = "returned" \/ client[c] = "asking"
        \/ client[c] \in Done
  BY DEF SInv, SysTypeOK, ClientStates, Done, Control, Data
<1>2. SInv /\ client[c] \in Done => pending[UserOf[c]] = NoSession \/ Open(c) \/ Unasked(c)
  BY DEF SInv, Data, Done, Unasked
<1>3. Settled(c) => pending[UserOf[c]] = NoSession
  BY DEF Settled
<1>4. SysSpec /\ PromptServed(c) => (Open(c) ~> Settled(c))
  BY LoopServedInSystem, ServiceInSystem, RequestSettles, PTL
<1>5. SysSpec /\ PromptServed(c) =>
        /\ client[c] = "prompting" ~> client[c] \in Done
        /\ client[c] = "returned" ~> client[c] \in Done
        /\ client[c] = "asking" ~> client[c] \in Done
  BY EnoughSessions, PromptEnds, AskerSettles, PTL
<1> QED
  BY <1>1, <1>2, <1>3, <1>4, <1>5, OwnUserIDs, SystemInvariance, PTL

(* The service keeps a session for ever only for a prompt whose client     *)
(* failed before it asked: for no prompt that was asked for, also if its   *)
(* client has gone since, or the verdict comes too late or not at all.     *)
THEOREM SessionsComeBack ==
  ASSUME OwnUserIDs, EnoughSessions
  PROVE  SysFairSpec /\ []SysGuardsAreEnough => SessionsReclaimed
<1>1. ASSUME NEW c \in Clients
      PROVE  SysFairSpec /\ []SysGuardsAreEnough =>
               (pending[UserOf[c]] # NoSession ~> pending[UserOf[c]] = NoSession \/ Unasked(c))
  <2>1. SysSpec /\ PromptServed(c) =>
          (pending[UserOf[c]] # NoSession ~> pending[UserOf[c]] = NoSession \/ Unasked(c))
    BY OwnUserIDs, EnoughSessions, SessionComesBack
  <2> QED
    BY <2>1, SysFairnessServes, PTL DEF SysFairSpec
<1> QED
  BY <1>1 DEF SessionsReclaimed

==============================================================================
