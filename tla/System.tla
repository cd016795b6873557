-------------------------------- MODULE System --------------------------------
(***************************************************************************)
(* The path of a prompt: a client (tui.py or client() of utils.py) sends   *)
(* it to the load server (llm-server/server.py), which may replace its     *)
(* model and forwards it to the wrapper; the wrapper profiles the model    *)
(* and reports to the verification service; the client then asks that      *)
(* service for the verdict and shows it.                                   *)
(*                                                                         *)
(* The service is TmbServer; its callers, Clients, are the prompts, each   *)
(* of which asks once.  The wrapper is what it promises, PromptService,    *)
(* which Wrapper implements.  A step of one that the other sees is a step  *)
(* of both.                                                                *)
(***************************************************************************)
EXTENDS TmbServer

CONSTANTS
  Requested,   \* the model clients ask for: tui.py, MODEL ("a")
  Cheap,       \* the one that replaces it: server.py, CHEAP_MODEL ("b")
  Nothing,     \* neither a verdict nor None
  MaxReports   \* bound of the model: reports of each prompt

ASSUME SystemAssumption ==
  /\ Requested \in Models
  /\ Cheap \in Models
  /\ Nothing \notin Verdicts
  /\ MaxReports \in [Clients -> Nat \ {0}]

VARIABLES
  mode,      \* app.state.response_mode of the load server
  used,      \* the local variable response_mode of the handler of a prompt
  load,      \* where that handler stands
  client,    \* where the client stands with a prompt
  caller,    \* PromptService: the prompt's call of the wrapper,
  reported,  \* its reports,
  finished   \* and whether its /finished was handled

loadVars == <<mode, used, load>>
promptVars == <<caller, reported, finished>>
sysVars == <<vars, loadVars, client, promptVars>>

Prompts == INSTANCE PromptService WITH Requests <- Clients

------------------------------------------------------------------------------

Modes == {"normal", "skimp"}

(***************************************************************************)
(* The states of a prompt at its client; in the last three it has left it: *)
(* with an answer of status 200, with another one, or with an exception.   *)
(***************************************************************************)
ClientStates ==
  {"idle", "prompting", "returned", "asking", "shown", "refused", "failed"}

Done == {"shown", "refused", "failed"}

LoadStates == {"idle", "submitted", "read", "forwarded"}

(* Fault: the model is looked up whenever a report is made.                *)
ModelOfCurrentMode(c) == IF mode = "skimp" THEN Cheap ELSE Requested

(* What handle_prompt_request makes of the prompt's model. *)
ModelSent(c) == IF used[c] = "skimp" THEN Cheap ELSE Requested

ClientGoesOn(c, to) == client' = [client EXCEPT ![c] = to]

LoadGoesOn(c, to) == load' = [load EXCEPT ![c] = to] /\ UNCHANGED mode

(* The client has an exception, if it still waits for the load server. *)
ClientsFail(cs) ==
  client' = [c \in Clients |->
               IF c \in cs /\ client[c] = "prompting" THEN "failed" ELSE client[c]]

------------------------------------------------------------------------------
(* A client's requests block it, so it has one prompt at a time; the model *)
(* has any number of clients.                                              *)

SendPrompt(c) ==
  /\ client[c] = "idle"
  /\ ClientGoesOn(c, "prompting")
  /\ LoadGoesOn(c, "submitted")
  /\ UNCHANGED <<vars, used, promptVars>>

(* Fault: the verdict is asked for without waiting for the response.       *)
AskAtOnce(c) ==
  /\ client[c] \in {"prompting", "returned"}
  /\ ClientRequest(c)
  /\ ClientGoesOn(c, "asking")
  /\ UNCHANGED <<loadVars, promptVars>>

AskVerdict(c) ==
  /\ client[c] = "returned"
  /\ ClientRequest(c)
  /\ ClientGoesOn(c, "asking")
  /\ UNCHANGED <<loadVars, promptVars>>

(* Fault: a time-out is not an answer.                                     *)
ShowVerdictOnly(c) ==
  /\ Resume(c)
  /\ ClientGoesOn(c, IF client[c] = "asking" THEN "shown" ELSE client[c])
  /\ UNCHANGED <<loadVars, promptVars>>

(* The answer of the service, to a client that is still there. *)
ShowAnswer(c) ==
  /\ Resume(c) \/ Expire(c)
  /\ ClientGoesOn(c, IF client[c] # "asking" THEN client[c]
                     ELSE IF reply'[c].code = 200 THEN "shown" ELSE "refused")
  /\ UNCHANGED <<loadVars, promptVars>>

(* The client is closed, or one of its connections breaks; neither server  *)
(* takes notice.                                                           *)
Leave(c) ==
  /\ client[c] \in {"prompting", "returned", "asking"}
  /\ ClientGoesOn(c, "failed")
  /\ UNCHANGED <<vars, loadVars, promptVars>>

------------------------------------------------------------------------------
(* The load server runs its handlers in threads. *)

(* Anybody may switch the mode: set_mode of utils.py. *)
SwitchMode(m) ==
  /\ mode' = m
  /\ UNCHANGED <<vars, used, load, client, promptVars>>

ReadMode(c) ==
  /\ load[c] = "submitted"
  /\ LoadGoesOn(c, "read")
  /\ used' = [used EXCEPT ![c] = mode]
  /\ UNCHANGED <<vars, client, promptVars>>

Forward(c) ==
  /\ load[c] = "read"
  /\ LoadGoesOn(c, "forwarded")
  /\ Prompts!Ask(c)
  /\ UNCHANGED <<vars, used, client>>

(* Fault: the wrapper replies before its profiler has stopped.             *)
ReturnEarly(c) ==
  /\ load[c] = "forwarded"
  /\ LoadGoesOn(c, "idle")
  /\ ClientGoesOn(c, IF client[c] = "prompting" THEN "returned" ELSE client[c])
  /\ UNCHANGED <<vars, used, promptVars>>

(* The wrapper's reply is passed on; what is not JSON is an exception.     *)
ReturnResponse(c) ==
  /\ load[c] = "forwarded"
  /\ LoadGoesOn(c, "idle")
  /\ Prompts!Answer(c)
  /\ \/ ClientGoesOn(c, IF client[c] = "prompting" THEN "returned" ELSE client[c])
     \/ ClientsFail({c})
  /\ UNCHANGED <<vars, used>>

(* Fault: a client is not told that the wrapper cannot be reached.         *)
CallFailsSilently(c) ==
  /\ load[c] \in {"read", "forwarded"}
  /\ LoadGoesOn(c, "idle")
  /\ Prompts!Lose({c})
  /\ UNCHANGED <<vars, used, client>>

(* The wrapper cannot be reached, or dies: send_internal_request raises.   *)
CallFails(c) ==
  /\ load[c] \in {"read", "forwarded"}
  /\ LoadGoesOn(c, "idle")
  /\ Prompts!Lose({c})
  /\ ClientsFail({c})
  /\ UNCHANGED <<vars, used>>

(* Fault: the new process is in no mode.                                   *)
LoadDiesModeless ==
  /\ mode' = None
  /\ load' = [c \in Clients |-> "idle"]
  /\ Prompts!Lose(Clients)
  /\ ClientsFail(Clients)
  /\ UNCHANGED <<vars, used>>

(* It dies, and starts again in the first mode.  With it dies the service, *)
(* when launcher.py runs both in one process: TmbDies follows.             *)
LoadDies ==
  /\ mode' = "normal"
  /\ load' = [c \in Clients |-> "idle"]
  /\ Prompts!Lose(Clients)
  /\ ClientsFail(Clients)
  /\ UNCHANGED <<vars, used>>

------------------------------------------------------------------------------
(* The wrapper's calls of the verification service *)

Report(c) ==
  /\ reported[c] < MaxReports[c]
  /\ Prompts!Report(c)
  /\ Metrics(UserOf[c], ModelSent(c))
  /\ UNCHANGED <<loadVars, client>>

(* Fault: /finished is sent for another prompt.                            *)
ReportFinishedOfAnother(c) ==
  /\ Prompts!Finish(c)
  /\ \E d \in Clients : Finish(UserOf[d])
  /\ UNCHANGED <<loadVars, client>>

ReportFinished(c) ==
  /\ Prompts!Finish(c)
  /\ Finish(UserOf[c])
  /\ UNCHANGED <<loadVars, client>>

TimeOut(c) == TimerFires(c) /\ UNCHANGED <<loadVars, client, promptVars>>

TmbDies ==
  /\ Crash \/ \E u \in Users : CrashInSave(u)
  /\ client' = [c \in Clients |-> IF client[c] = "asking" THEN "failed" ELSE client[c]]
  /\ UNCHANGED <<loadVars, promptVars>>

------------------------------------------------------------------------------

SysInit ==
  /\ Init
  /\ Prompts!Init
  /\ mode = "normal"
  /\ used = [c \in Clients |-> "normal"]
  /\ load = [c \in Clients |-> "idle"]
  /\ client = [c \in Clients |-> "idle"]

PromptStep(c) ==
  \/ SendPrompt(c) \/ AskVerdict(c) \/ ShowAnswer(c) \/ Leave(c)
  \/ ReadMode(c) \/ Forward(c) \/ ReturnResponse(c) \/ CallFails(c)
  \/ Report(c) \/ ReportFinished(c) \/ TimeOut(c)

SysNext ==
  \/ \E c \in Clients : PromptStep(c)
  \/ \E m \in Modes : SwitchMode(m)
  \/ LoadDies
  \/ TmbDies

SysSpec == SysInit /\ [][SysNext]_sysVars

(***************************************************************************)
(* Threads and event loops run what they can, and the wrapper replies      *)
(* (Wrapper!PromptAnswered) or its connection breaks.  Clients that have   *)
(* a response ask for the verdict.  Nothing is assumed of reports.         *)
(***************************************************************************)
PromptFair(c) ==
  /\ WF_sysVars(ReadMode(c))
  /\ WF_sysVars(Forward(c))
  /\ WF_sysVars(ReturnResponse(c))
  /\ WF_sysVars(AskVerdict(c))
  /\ WF_sysVars(ShowAnswer(c))
  /\ WF_sysVars(TimeOut(c))

SysFairness == \A c \in Clients : PromptFair(c)

SysFairSpec == SysSpec /\ SysFairness

------------------------------------------------------------------------------
(* Properties.  Those that need it are checked and proved for userIDs of   *)
(* their own, as the prompts of tui.py have (uuid4).                       *)

SysTypeOK ==
  /\ mode \in Modes
  /\ used \in [Clients -> Modes]
  /\ load \in [Clients -> LoadStates]
  /\ client \in [Clients -> ClientStates]
  /\ caller \in [Clients -> {"idle", "asking", "answered", "lost"}]
  /\ reported \in [Clients -> Nat]
  /\ \A c \in Clients : reported[c] <= MaxReports[c]
  /\ finished \in [Clients -> BOOLEAN]

(* All samples of a prompt carry one model name, the one it was forwarded  *)
(* with, however the process-wide mode is switched while it is profiled:   *)
(* /finished takes the reference of the first sample (server.py:24).       *)
OneModelPerSession ==
  \A c \in Clients, s \in Sessions :
    Owns(UserOf[c], s) =>
      \A i \in 1 .. Len(sessions[s].cache) : sessions[s].cache[i].model = ModelSent(c)

(* The verdict is there when the client asks or it never comes: the        *)
(* wrapper replies after /finished, so that no caller that has gone to     *)
(* sleep is ever woken by a release; it sleeps its six seconds.            *)
NoLateVerdict == \A c \in Clients : state[c] # "resolved"

(* A prompt whose request was answered, its client still there or not,     *)
(* leaves no session behind: no report of it arrives after its entry was   *)
(* removed, which would make a new one for good.                           *)
NothingLeftBehind ==
  \A c \in Clients :
    reply[c] # Answer(0, None) => pending[UserOf[c]] = NoSession

(* Nobody waits for a connection whose other end is gone or waits for him: *)
(* a prompt is with the load server, or at the wrapper, which can answer   *)
(* it, or at the service, as long as its client waits (server.py:21-28).   *)
NobodyStuck ==
  \A c \in Clients :
    /\ client[c] = "prompting" =>
         \/ load[c] = "submitted"
         \/ load[c] = "read" /\ caller[c] # "asking"
         \/ load[c] = "forwarded" /\ caller[c] = "asking"
    /\ client[c] = "returned" => ~Open(c) /\ SessionFor(UserOf[c]) # {}
    /\ client[c] = "asking" => Open(c)

(* Every prompt that is sent comes to an end at its client.                *)
PromptSettled == \A c \in Clients : client[c] = "prompting" ~> client[c] \in Done

(* The client of a prompt failed before it asked for the verdict, or the   *)
(* service died with its request.                                          *)
Unasked(c) == client[c] = "failed" /\ ~Open(c) /\ reply[c] = Answer(0, None)

(* What the service keeps of a prompt goes away in the end, its client     *)
(* gone or not: a session stays for ever only of a prompt that its client  *)
(* never came to ask for, as an exception before that left it (tui.py).    *)
SessionsReclaimed ==
  \A c \in Clients :
    pending[UserOf[c]] # NoSession ~> pending[UserOf[c]] = NoSession \/ Unasked(c)

StageOf(c) == IF client[c] = "idle" THEN "new" ELSE IF client[c] \in Done THEN client[c] ELSE "open"

(* What c has been told, or will be if it asks. *)
VerdictOf(c) ==
  IF client[c] = "shown" THEN reply[c].verified
  ELSE IF Contents(UserOf[c]).event THEN Contents(UserOf[c]).verification ELSE Nothing

Promise == INSTANCE PromptVerdict WITH
  stage <- [c \in Clients |-> StageOf(c)],
  judged <- finished,
  verdict <- [c \in Clients |-> VerdictOf(c)]

(* Prompts with userIDs of their own are judged once, by their own         *)
(* /finished, and what is shown of them is that judgement: through the     *)
(* load server, the wrapper, restarts of each and clients that give up.    *)
KeepsPromise == Promise!Spec

(* README.md:16: users can trust that "Model X" ran and not a cheaper one, *)
(* so what is shown as verified was compared with the reference of the     *)
(* model that the client asked for.  False in mode "skimp".                *)
VerifiedIsRequested ==
  \A c \in Clients :
    client[c] = "shown" /\ reply[c].verified = TRUE => ModelSent(c) = Requested

==============================================================================
