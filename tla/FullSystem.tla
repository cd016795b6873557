----------------------------- MODULE FullSystem -----------------------------
(***************************************************************************)
(* System with the wrapper itself, as Tasks, in the place of what it       *)
(* promises: handler, profiler, model and their calls take steps of their  *)
(* own while clients, load server and service go on.  A reply is on its    *)
(* way from the moment the handler is over until the load server has it,   *)
(* and a load server that hangs up is noticed by the wrapper later.        *)
(*                                                                         *)
(* caller is now only what the load server knows of its call; reported and *)
(* finished are those of Tasks.  The wrapper is instantiated with what is  *)
(* proved of it.                                                           *)
(***************************************************************************)
EXTENDS System

VARIABLES
  handler, model, stopped, profiler, elapsed, call, traced, logged, late   \* see Wrapper

wrapperVars == <<handler, model, stopped, profiler, elapsed, call, traced, logged, late>>
fullVars == <<sysVars, wrapperVars>>

(* The last one of a prompt's reports is not periodic. *)
Periodic == [c \in Clients |-> MaxReports[c] - 1]

Tasks == INSTANCE WrapperProofs WITH Requests <- Clients, MaxReports <- Periodic

------------------------------------------------------------------------------

(* A step that the wrapper takes no part in, and one of the wrapper alone. *)
Away(step) == step /\ UNCHANGED wrapperVars
Own(step) == step /\ UNCHANGED sysVars

(* push_handler starts with the prompt of the load server. *)
PromptArrives(c) ==
  /\ load[c] = "read"
  /\ LoadGoesOn(c, "forwarded")
  /\ Tasks!Arrive(c)
  /\ caller' = [caller EXCEPT ![c] = "asking"]
  /\ UNCHANGED <<vars, used, client>>

(* The load server has the handler's reply; the body of a 500 is empty and *)
(* not JSON (main.rs:99).                                                  *)
ReplyArrives(c) ==
  /\ handler[c] \in {"replied", "failed"}
  /\ handler[c] = "failed" => ClientsFail({c})
  /\ Away(ReturnResponse(c))

(* The wrapper has closed the connection without a reply. *)
ConnectionClosed(c) == handler[c] = "lost" /\ Away(CallFails(c))

(* The service handles a call of the profiler. *)
MetricsHandled(c) ==
  /\ Tasks!ServeMetrics(c)
  /\ Metrics(UserOf[c], ModelSent(c))
  /\ UNCHANGED <<loadVars, client, caller>>

FinishedHandled(c) ==
  /\ Tasks!ServeFinished(c)
  /\ Finish(UserOf[c])
  /\ UNCHANGED <<loadVars, client, caller>>

CallHandled(c) == MetricsHandled(c) \/ FinishedHandled(c) \/ Own(Tasks!Break(c))

TaskStep(c) ==
  \/ Tasks!ModelEnds(c) \/ Tasks!HandlerStep(c) \/ Tasks!Disconnect(c)
  \/ Tasks!TimerElapses(c) \/ Tasks!ProfilerStep(c)

------------------------------------------------------------------------------

FullInit == SysInit /\ Tasks!Init

(* The steps of System in which client, load server or service are alone.  *)
OutsideStep(c) ==
  \/ SendPrompt(c) \/ AskVerdict(c) \/ ShowAnswer(c) \/ Leave(c)
  \/ ReadMode(c) \/ CallFails(c) \/ TimeOut(c)

FullNext ==
  \/ \E c \in Clients :
       \/ PromptArrives(c) \/ ReplyArrives(c) \/ CallHandled(c)
       \/ Own(TaskStep(c)) \/ Away(OutsideStep(c))
  \/ Own(Tasks!Crash)
  \/ \E m \in Modes : Away(SwitchMode(m))
  \/ Away(LoadDies)
  \/ Away(TmbDies)

FullSpec == FullInit /\ [][FullNext]_fullVars

(***************************************************************************)
(* The fairness of System and of Wrapper, with the wrapper's reply made of *)
(* what the tasks do: a handler that is over has replied or closed the     *)
(* connection, and the load server notices either.                         *)
(***************************************************************************)
FullFair(c) ==
  /\ WF_fullVars(Away(ReadMode(c)))
  /\ WF_fullVars(PromptArrives(c))
  /\ WF_fullVars(ReplyArrives(c))
  /\ WF_fullVars(ConnectionClosed(c))
  /\ WF_fullVars(Away(AskVerdict(c)))
  /\ WF_fullVars(Away(ShowAnswer(c)))
  /\ WF_fullVars(Away(TimeOut(c)))
  /\ WF_fullVars(Own(Tasks!ModelEnds(c)))
  /\ WF_fullVars(Own(Tasks!HandlerStep(c)))
  /\ WF_fullVars(Own(Tasks!ProfilerStep(c)))
  /\ WF_fullVars(CallHandled(c))

FullFairness == \A c \in Clients : FullFair(c)

FullFairSpec == FullSpec /\ FullFairness

==============================================================================
