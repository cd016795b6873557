------------------------------- MODULE Wrapper -------------------------------
(***************************************************************************)
(* The wrapper, wrapper/src/main.rs.  For each prompt push_handler spawns  *)
(* two tasks: call_model, which forwards the prompt, and nvidia, which     *)
(* samples the GPU every second and reports to the verification service    *)
(* until it is told to stop through a oneshot channel; then it samples     *)
(* once more and sends /finished.  The handler awaits the model's answer,  *)
(* stops the profiler, awaits it, and replies.                             *)
(*                                                                         *)
(* A failed unwrap() panics its task.  A closed connection drops the       *)
(* handler at the await where it is, and with it the sender of the         *)
(* channel, while the spawned tasks run on.                                *)
(*                                                                         *)
(* A request is a slot: it is used for another prompt when nothing of the  *)
(* last one runs any more.  What goes on inside the service is not         *)
(* modelled here, only when it handles a call.                             *)
(***************************************************************************)
EXTENDS Naturals

CONSTANTS
  Requests,   \* prompts the wrapper may serve at the same time
  MaxReports  \* bound of the model: periodic samples of each prompt

ASSUME WrapperAssumption == MaxReports \in [Requests -> Nat]

VARIABLES
  handler,   \* push_handler
  model,     \* the task call_model
  stopped,   \* the channel has a message, or its sender is gone
  profiler,  \* the task nvidia
  elapsed,   \* the one-second sleep of its select! is over
  call,      \* its HTTP call to the service
  traced,    \* reports of the prompt written to trace.txt
  logged,    \* the prompt itself is written there
  reported,  \* reports the service has handled
  finished,  \* the service has handled /finished
  late       \* periodic samples begun after the stop (read by PromptStop only)

handlerVars == <<handler, model, stopped>>
profilerVars == <<profiler, elapsed, late>>
traceVars == <<traced, logged>>
serviceVars == <<reported, finished>>
vars == <<handlerVars, profilerVars, call, traceVars, serviceVars>>

------------------------------------------------------------------------------

(***************************************************************************)
(* push_handler: calling awaits the model, stopping awaits the profiler,   *)
(* reading collects the model's answer; replied (200), failed (500), lost  *)
(* (no reply).                                                             *)
(***************************************************************************)
HandlerOpen == {"calling", "stopping", "reading"}
HandlerStates == HandlerOpen \cup {"idle", "replied", "failed", "lost"}

ModelStates == {"none", "running", "answered", "dead"}

(***************************************************************************)
(* nvidia: asleep in select!, sampling up to the request it sends, posting *)
(* until the service has answered; the same for the last sample; closing   *)
(* and finishing likewise for /finished.                                   *)
(***************************************************************************)
Sampling == {"sampling", "last_sampling"}
Posting == {"posting", "last_posting"}
ProfilerOver == {"none", "ended", "dead"}
ProfilerStates ==
  ProfilerOver \cup Sampling \cup Posting \cup {"asleep", "closing", "finishing"}

(* A call is on its way, handled with its response on the way, or failed. *)
CallStates == {"none", "metrics", "finished", "response", "error"}

(* Nothing of the slot's last prompt is left. *)
Quiet(r) ==
  /\ handler[r] \notin HandlerOpen
  /\ model[r] # "running"
  /\ profiler[r] \in ProfilerOver
  /\ call[r] \notin {"metrics", "finished"}

------------------------------------------------------------------------------
(* push_handler and call_model *)

(* The channel is made and both tasks are spawned. *)
Arrive(r) ==
  /\ Quiet(r)
  /\ handler' = [handler EXCEPT ![r] = "calling"]
  /\ model' = [model EXCEPT ![r] = "running"]
  /\ stopped' = [stopped EXCEPT ![r] = FALSE]
  /\ profiler' = [profiler EXCEPT ![r] = "asleep"]
  /\ elapsed' = [elapsed EXCEPT ![r] = FALSE]
  /\ late' = [late EXCEPT ![r] = 0]
  /\ call' = [call EXCEPT ![r] = "none"]
  /\ traced' = [traced EXCEPT ![r] = 0]
  /\ logged' = [logged EXCEPT ![r] = FALSE]
  /\ reported' = [reported EXCEPT ![r] = 0]
  /\ finished' = [finished EXCEPT ![r] = FALSE]

(* The head of the model's response is there, or a step of call_model fails. *)
ModelEnds(r) ==
  /\ model[r] = "running"
  /\ \E end \in {"answered", "dead"} : model' = [model EXCEPT ![r] = end]
  /\ UNCHANGED <<handler, stopped, profilerVars, call, traceVars, serviceVars>>

Stop(r) ==
  /\ handler' = [handler EXCEPT ![r] = "stopping"]
  /\ stopped' = [stopped EXCEPT ![r] = TRUE]
  /\ UNCHANGED <<model, profilerVars, call, traceVars, serviceVars>>

(* Fault: the handler does not await the model first.                      *)
StopAtOnce(r) == handler[r] = "calling" /\ Stop(r)

(* Fault: nothing is sent through the channel.                             *)
StopWithoutSend(r) ==
  /\ handler[r] = "calling"
  /\ model[r] # "running"
  /\ handler' = [handler EXCEPT ![r] = "stopping"]
  /\ UNCHANGED <<model, stopped, profilerVars, call, traceVars, serviceVars>>

(* model_request.await has returned: stop_tx.send(()). *)
StopProfiler(r) == handler[r] = "calling" /\ model[r] # "running" /\ Stop(r)

(* Fault: the handler does not await the profiler.                         *)
RespondAtOnce(r) ==
  /\ handler[r] = "stopping"
  /\ handler' = [handler EXCEPT ![r] =
                   IF model[r] = "answered" THEN "reading" ELSE "failed"]
  /\ UNCHANGED <<model, stopped, profilerVars, call, traceVars, serviceVars>>

(* nvidia_thread.await has returned, panicked or not: read the answer, or  *)
(* reply 500 when call_model has panicked.                                 *)
Respond(r) ==
  /\ handler[r] = "stopping"
  /\ profiler[r] \in ProfilerOver
  /\ handler' = [handler EXCEPT ![r] =
                   IF model[r] = "answered" THEN "reading" ELSE "failed"]
  /\ UNCHANGED <<model, stopped, profilerVars, call, traceVars, serviceVars>>

(* The body is collected, or collecting it panics the handler. *)
ReadBody(r) ==
  /\ handler[r] = "reading"
  /\ \E end \in {"replied", "lost"} : handler' = [handler EXCEPT ![r] = end]
  /\ UNCHANGED <<model, stopped, profilerVars, call, traceVars, serviceVars>>

(* Fault: a copy of the sender outlives the handler.                       *)
DisconnectKeepingSender(r) ==
  /\ handler[r] \in HandlerOpen
  /\ handler' = [handler EXCEPT ![r] = "lost"]
  /\ UNCHANGED <<model, stopped, profilerVars, call, traceVars, serviceVars>>

(* The caller closes its connection: the handler and stop_tx are dropped. *)
Disconnect(r) ==
  /\ handler[r] \in HandlerOpen
  /\ handler' = [handler EXCEPT ![r] = "lost"]
  /\ stopped' = [stopped EXCEPT ![r] = TRUE]
  /\ UNCHANGED <<model, profilerVars, call, traceVars, serviceVars>>

------------------------------------------------------------------------------
(* nvidia *)

TimerElapses(r) ==
  /\ profiler[r] = "asleep"
  /\ elapsed' = [elapsed EXCEPT ![r] = TRUE]
  /\ UNCHANGED <<handlerVars, profiler, late, call, traceVars, serviceVars>>

(* select! takes the sleep, which it may although the stop is there too. *)
WakeToSample(r) ==
  /\ profiler[r] = "asleep"
  /\ elapsed[r]
  /\ traced[r] < MaxReports[r]
  /\ profiler' = [profiler EXCEPT ![r] = "sampling"]
  /\ late' = [late EXCEPT ![r] = IF stopped[r] THEN @ + 1 ELSE @]
  /\ UNCHANGED <<handlerVars, elapsed, call, traceVars, serviceVars>>

(* select! takes the stop. *)
WakeToStop(r) ==
  /\ profiler[r] = "asleep"
  /\ stopped[r]
  /\ profiler' = [profiler EXCEPT ![r] = "last_sampling"]
  /\ UNCHANGED <<handlerVars, elapsed, late, call, traceVars, serviceVars>>

Send(r, kind, next) ==
  /\ call' = [call EXCEPT ![r] = kind]
  /\ profiler' = [profiler EXCEPT ![r] = next]
  /\ UNCHANGED <<handlerVars, elapsed, late, serviceVars>>

Posted(state) == IF state = "sampling" THEN "posting" ELSE "last_posting"

(* Fault: the report is sent and not written to the trace.                 *)
PostUntraced(r) ==
  /\ profiler[r] \in Sampling
  /\ Send(r, "metrics", Posted(profiler[r]))
  /\ UNCHANGED traceVars

(* A sample is taken, written to trace.txt and sent to /metrics. *)
Post(r) ==
  /\ profiler[r] \in Sampling
  /\ Send(r, "metrics", Posted(profiler[r]))
  /\ traced' = [traced EXCEPT ![r] = @ + 1]
  /\ UNCHANGED logged

Continue(r, next) ==
  /\ call[r] = "response"
  /\ call' = [call EXCEPT ![r] = "none"]
  /\ profiler' = [profiler EXCEPT ![r] = next]
  /\ elapsed' = [elapsed EXCEPT ![r] = FALSE]
  /\ UNCHANGED <<handlerVars, late, traceVars, serviceVars>>

(* Fault: the sleep is looked at before the channel.                       *)
SleepAgain(r) == profiler[r] = "posting" /\ Continue(r, "asleep")

(* The loop starts again: a stop that is there is found at once, for the   *)
(* new sleep is not over when it is polled first.                          *)
Loop(r) ==
  /\ profiler[r] = "posting"
  /\ Continue(r, IF stopped[r] THEN "last_sampling" ELSE "asleep")

(* Faults: the loop goes on, or it is left without /finished.              *)
SampleOnceMore(r) == profiler[r] = "last_posting" /\ Continue(r, "last_sampling")
LeaveUnfinished(r) == profiler[r] = "last_posting" /\ Continue(r, "ended")

(* The last report is answered. *)
Close(r) == profiler[r] = "last_posting" /\ Continue(r, "closing")

(* The prompt is written to trace.txt, then /finished is sent. *)
PostFinished(r) ==
  /\ profiler[r] = "closing"
  /\ Send(r, "finished", "finishing")
  /\ logged' = [logged EXCEPT ![r] = TRUE]
  /\ UNCHANGED traced

End(r) == profiler[r] = "finishing" /\ Continue(r, "ended")

(* An unwrap() fails: tegrastats, its output, the connection, trace.txt,   *)
(* or the call.                                                            *)
Panic(r) ==
  /\ \/ profiler[r] \in Sampling \cup {"closing"}
     \/ profiler[r] \in Posting \cup {"finishing"} /\ call[r] = "error"
  /\ profiler' = [profiler EXCEPT ![r] = "dead"]
  /\ UNCHANGED <<handlerVars, elapsed, late, call, traceVars, serviceVars>>

------------------------------------------------------------------------------
(* The verification service and the connections to it *)

ServeMetrics(r) ==
  /\ call[r] = "metrics"
  /\ call' = [call EXCEPT ![r] = "response"]
  /\ reported' = [reported EXCEPT ![r] = @ + 1]
  /\ UNCHANGED <<handlerVars, profilerVars, traceVars, finished>>

ServeFinished(r) ==
  /\ call[r] = "finished"
  /\ call' = [call EXCEPT ![r] = "response"]
  /\ finished' = [finished EXCEPT ![r] = TRUE]
  /\ UNCHANGED <<handlerVars, profilerVars, traceVars, reported>>

(* The service dies, before or after it has handled the call. *)
Break(r) ==
  /\ call[r] \in {"metrics", "finished", "response"}
  /\ call' = [call EXCEPT ![r] = "error"]
  /\ UNCHANGED <<handlerVars, profilerVars, traceVars, serviceVars>>

------------------------------------------------------------------------------
(* The wrapper is killed: its tasks and connections are gone.  A call that  *)
(* was sent may still be handled.                                           *)
Crash ==
  /\ \E r \in Requests : handler[r] \in HandlerOpen \/ profiler[r] \notin ProfilerOver
  /\ handler' = [r \in Requests |-> IF handler[r] \in HandlerOpen THEN "lost" ELSE handler[r]]
  /\ model' = [r \in Requests |-> IF model[r] = "running" THEN "dead" ELSE model[r]]
  /\ stopped' = [r \in Requests |-> stopped[r] \/ handler[r] \in HandlerOpen]
  /\ profiler' = [r \in Requests |-> IF profiler[r] \in ProfilerOver THEN profiler[r] ELSE "dead"]
  /\ UNCHANGED <<elapsed, late, call, traceVars, serviceVars>>

Init ==
  /\ handler = [r \in Requests |-> "idle"]
  /\ model = [r \in Requests |-> "none"]
  /\ stopped = [r \in Requests |-> FALSE]
  /\ profiler = [r \in Requests |-> "none"]
  /\ elapsed = [r \in Requests |-> FALSE]
  /\ late = [r \in Requests |-> 0]
  /\ call = [r \in Requests |-> "none"]
  /\ traced = [r \in Requests |-> 0]
  /\ logged = [r \in Requests |-> FALSE]
  /\ reported = [r \in Requests |-> 0]
  /\ finished = [r \in Requests |-> FALSE]

HandlerStep(r) == StopProfiler(r) \/ Respond(r) \/ ReadBody(r)

ProfilerStep(r) ==
  \/ WakeToSample(r) \/ WakeToStop(r) \/ Post(r) \/ Loop(r)
  \/ Close(r) \/ PostFinished(r) \/ End(r) \/ Panic(r)

ServiceStep(r) == ServeMetrics(r) \/ ServeFinished(r) \/ Break(r)

Next ==
  \/ \E r \in Requests :
       \/ Arrive(r) \/ ModelEnds(r) \/ HandlerStep(r) \/ Disconnect(r)
       \/ TimerElapses(r) \/ ProfilerStep(r) \/ ServiceStep(r)
  \/ Crash

Spec == Init /\ [][Next]_vars

(***************************************************************************)
(* tokio runs every task that can run; time passes; the model and the      *)
(* service answer or their connections fail.  The last is an assumption    *)
(* about them: the wrapper has no timeout.                                 *)
(***************************************************************************)
TasksFair(r) ==
  /\ WF_vars(ModelEnds(r))
  /\ WF_vars(HandlerStep(r))
  /\ WF_vars(ProfilerStep(r))
  /\ WF_vars(ServiceStep(r))

Fairness == \A r \in Requests : TasksFair(r)

FairSpec == Spec /\ Fairness

------------------------------------------------------------------------------
(* Properties *)

TypeOK ==
  /\ handler \in [Requests -> HandlerStates]
  /\ model \in [Requests -> ModelStates]
  /\ stopped \in [Requests -> BOOLEAN]
  /\ profiler \in [Requests -> ProfilerStates]
  /\ elapsed \in [Requests -> BOOLEAN]
  /\ late \in [Requests -> Nat]
  /\ call \in [Requests -> CallStates]
  /\ traced \in [Requests -> Nat]
  /\ \A r \in Requests : traced[r] <= MaxReports[r] + 1
  /\ logged \in [Requests -> BOOLEAN]
  /\ reported \in [Requests -> Nat]
  /\ finished \in [Requests -> BOOLEAN]

(* Everything the service has handled is in trace.txt: each report it has  *)
(* seen was written there before, and the prompt before its /finished,     *)
(* also when calls fail or the wrapper is killed (main.rs:232, 277).       *)
TraceCoversService ==
  \A r \in Requests :
    /\ reported[r] <= traced[r]
    /\ finished[r] => logged[r]

(* The profile of a prompt spans the model's work on it: /finished is not  *)
(* sent while the model runs, unless the caller has gone away (main.rs:86). *)
ProfilingSpansModel ==
  \A r \in Requests :
    (finished[r] \/ call[r] = "finished") =>
      model[r] # "running" \/ handler[r] = "lost"

(* A caller that gets an answer can ask for the verdict at once: the       *)
(* service has handled the prompt's /finished before, unless the profiler  *)
(* has panicked (main.rs:88).                                              *)
AnswerAfterFinished ==
  \A r \in Requests :
    handler[r] \in {"reading", "replied", "failed"} =>
      finished[r] \/ profiler[r] = "dead"

(* The stop is not put off by the sampling: at most one periodic sample    *)
(* begins after it, whatever select! chooses (main.rs:255).                *)
PromptStop == \A r \in Requests : late[r] <= 1

(* Every request is answered or its connection closed, whether or not      *)
(* profiling works (main.rs:70-104).                                       *)
PromptAnswered ==
  \A r \in Requests : handler[r] \in HandlerOpen ~> handler[r] \notin HandlerOpen

(* Nobody waits for somebody who waits for him: a profiler is without its  *)
(* stop only while the handler waits for the model, and once it is stopped *)
(* it can go on or its call is on its way (main.rs:86, 256).               *)
CallOver(r) == call[r] \in {"response", "error"}

NobodyStuck ==
  \A r \in Requests :
    profiler[r] \notin ProfilerOver =>
      \/ handler[r] = "calling"
      \/ /\ stopped[r]
         /\ \/ profiler[r] \in Sampling \cup {"asleep", "closing"}
            \/ profiler[r] \in Posting /\ (call[r] = "metrics" \/ CallOver(r))
            \/ profiler[r] = "finishing" /\ (call[r] = "finished" \/ CallOver(r))

(* No profiling task outlives its prompt for ever, also when the caller    *)
(* has gone away and nobody sends the stop (main.rs:256).                  *)
ProfilingEnds ==
  \A r \in Requests : profiler[r] = "asleep" ~> profiler[r] \in ProfilerOver

------------------------------------------------------------------------------
(* What a caller and the service see of the wrapper. *)

CallerOf(state) ==
  CASE state = "idle" -> "idle"
    [] state \in HandlerOpen -> "asking"
    [] state \in {"replied", "failed"} -> "answered"
    [] state = "lost" -> "lost"

Prompt == INSTANCE PromptService
            WITH caller <- [r \in Requests |-> CallerOf(handler[r])]

(* The wrapper implements PromptService: reports, then at most one         *)
(* /finished which follows a report, and nothing after the answer.         *)
ImplementsPrompt == Prompt!Spec

==============================================================================
