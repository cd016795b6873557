---------------------------- MODULE WrapperProofs ----------------------------
(***************************************************************************)
(* Safety of the wrapper for any number of prompts and samples.  A prompt  *)
(* does not interfere with another, so the inductive invariant is stated   *)
(* of one request.                                                         *)
(***************************************************************************)
EXTENDS Wrapper, TLAPS

(* Periodic samples leave room for the last one. *)
Budget(r) ==
  /\ profiler[r] \in {"asleep", "posting", "last_sampling"} => traced[r] <= MaxReports[r]
  /\ profiler[r] = "sampling" => traced[r] < MaxReports[r]

(* A profiler that went back to sleep has not been late. *)
Lateness(r) ==
  /\ late[r] <= 1
  /\ profiler[r] = "asleep" \/ ~stopped[r] => late[r] = 0

(* What the state of a call says about the task that waits for it. *)
Calls(r) ==
  /\ profiler[r] \in Sampling \cup {"none", "asleep", "closing", "ended"} => call[r] = "none"
  /\ call[r] = "metrics" => profiler[r] \in Posting \cup {"dead"}
  /\ profiler[r] \in Posting => call[r] \in {"metrics", "response", "error"}
  /\ profiler[r] = "finishing" => call[r] \in {"finished", "response", "error"}
  /\ call[r] = "finished" => profiler[r] \in {"finishing", "dead"} /\ stopped[r]
  /\ handler[r] \in HandlerOpen /\ profiler[r] = "dead" =>
       call[r] \notin {"metrics", "finished"}

(* How far the service has got. *)
Progress(r) ==
  /\ profiler[r] \in Posting /\ call[r] = "response" => reported[r] > 0
  /\ profiler[r] \in {"closing", "finishing"} => reported[r] > 0
  /\ call[r] = "finished" => reported[r] > 0 /\ ~finished[r] /\ logged[r]
  /\ call[r] = "metrics" => ~finished[r] /\ reported[r] < traced[r]
  /\ profiler[r] \in Sampling \cup Posting \cup {"asleep", "closing"} => ~finished[r]
  /\ profiler[r] = "finishing" => logged[r]
  /\ profiler[r] = "finishing" /\ call[r] = "response" => finished[r]
  /\ profiler[r] = "ended" => finished[r]
  /\ reported[r] <= traced[r]
  /\ finished[r] => logged[r] /\ stopped[r]

(* Who has been told to stop, and when. *)
Stopping(r) ==
  /\ profiler[r] \in {"last_sampling", "last_posting", "closing", "finishing", "ended"}
       => stopped[r]
  /\ stopped[r] <=> handler[r] \notin {"idle", "calling"}
  /\ handler[r] \in {"stopping", "reading", "replied", "failed"} => model[r] # "running"
  /\ handler[r] = "idle" => profiler[r] = "none"
  /\ handler[r] \in HandlerOpen => profiler[r] # "none"
  /\ handler[r] \in {"reading", "replied", "failed"} =>
       profiler[r] \in {"ended", "dead"} /\ call[r] \notin {"metrics", "finished"}

Good(r) == Budget(r) /\ Lateness(r) /\ Calls(r) /\ Progress(r) /\ Stopping(r)

IInv == TypeOK /\ \A r \in Requests : Good(r)

USE DEF HandlerOpen, HandlerStates, ModelStates, Sampling, Posting, ProfilerOver,
        ProfilerStates, CallStates

LEMMA InitHolds == Init => IInv
  BY WrapperAssumption
  DEF Init, IInv, TypeOK, Good, Budget, Lateness, Calls, Progress, Stopping

(* A request whose part of the state does not change stays good. *)
Same(q) ==
  /\ handler'[q] = handler[q] /\ model'[q] = model[q] /\ stopped'[q] = stopped[q]
  /\ profiler'[q] = profiler[q] /\ elapsed'[q] = elapsed[q] /\ late'[q] = late[q]
  /\ call'[q] = call[q] /\ traced'[q] = traced[q] /\ logged'[q] = logged[q]
  /\ reported'[q] = reported[q] /\ finished'[q] = finished[q]

LEMMA SameIsGood == ASSUME NEW q \in Requests, Good(q), Same(q) PROVE Good(q)'
  BY DEF Good, Budget, Lateness, Calls, Progress, Stopping, Same

(* A step of one request. *)
StepOf(r) == TypeOK' /\ Good(r)' /\ \A q \in Requests \ {r} : Same(q)

(* A step of push_handler, of the model, or of the caller.                *)
LEMMA HandlerSteps ==
  ASSUME IInv, NEW r \in Requests,
         Arrive(r) \/ ModelEnds(r) \/ StopProfiler(r) \/ Respond(r) \/ ReadBody(r) \/ Disconnect(r)
  PROVE  StepOf(r)
<1> USE WrapperAssumption DEF IInv, TypeOK, StepOf, Same
<1>1. Good(r)
  OBVIOUS
<1>2. CASE Arrive(r)
  <2>1. TypeOK' /\ \A q \in Requests \ {r} : Same(q)
    BY <1>1, <1>2 DEF Arrive, handlerVars, profilerVars, traceVars, serviceVars, Good, Budget
  <2>2. Good(r)'
    BY <1>1, <1>2 DEF Arrive, handlerVars, profilerVars, traceVars, serviceVars,
       Good, Budget, Lateness, Calls, Progress, Stopping
  <2> QED
    BY <2>1, <2>2
<1>3. CASE ModelEnds(r)
  <2>1. TypeOK' /\ \A q \in Requests \ {r} : Same(q)
    BY <1>1, <1>3 DEF ModelEnds, handlerVars, profilerVars, traceVars, serviceVars, Good, Budget
  <2>2. Good(r)'
    BY <1>1, <1>3 DEF ModelEnds, handlerVars, profilerVars, traceVars, serviceVars,
       Good, Budget, Lateness, Calls, Progress, Stopping
  <2> QED
    BY <2>1, <2>2
<1>4. CASE StopProfiler(r)
  <2>1. TypeOK' /\ \A q \in Requests \ {r} : Same(q)
    BY <1>1, <1>4 DEF StopProfiler, Stop, handlerVars, profilerVars, traceVars, serviceVars, Good, Budget
  <2>2. Good(r)'
    BY <1>1, <1>4 DEF StopProfiler, Stop, handlerVars, profilerVars, traceVars, serviceVars,
       Good, Budget, Lateness, Calls, Progress, Stopping
  <2> QED
    BY <2>1, <2>2
<1>5. CASE Respond(r)
  <2>1. TypeOK' /\ \A q \in Requests \ {r} : Same(q)
    BY <1>1, <1>5 DEF Respond, handlerVars, profilerVars, traceVars, serviceVars, Good, Budget
  <2>2. Good(r)'
    BY <1>1, <1>5 DEF Respond, handlerVars, profilerVars, traceVars, serviceVars,
       Good, Budget, Lateness, Calls, Progress, Stopping
  <2> QED
    BY <2>1, <2>2
<1>6. CASE ReadBody(r)
  <2>1. TypeOK' /\ \A q \in Requests \ {r} : Same(q)
    BY <1>1, <1>6 DEF ReadBody, handlerVars, profilerVars, traceVars, serviceVars, Good, Budget
  <2>2. Good(r)'
    BY <1>1, <1>6 DEF ReadBody, handlerVars, profilerVars, traceVars, serviceVars,
       Good, Budget, Lateness, Calls, Progress, Stopping
  <2> QED
    BY <2>1, <2>2
<1>7. CASE Disconnect(r)
  <2>1. TypeOK' /\ \A q \in Requests \ {r} : Same(q)
    BY <1>1, <1>7 DEF Disconnect, handlerVars, profilerVars, traceVars, serviceVars, Good, Budget
  <2>2. Good(r)'
    BY <1>1, <1>7 DEF Disconnect, handlerVars, profilerVars, traceVars, serviceVars,
       Good, Budget, Lateness, Calls, Progress, Stopping
  <2> QED
    BY <2>1, <2>2
<1> QED
  BY <1>2, <1>3, <1>4, <1>5, <1>6, <1>7

(* A step of nvidia.                                                      *)
LEMMA ProfilerSteps ==
  ASSUME IInv, NEW r \in Requests,
         TimerElapses(r) \/ WakeToSample(r) \/ WakeToStop(r) \/ Post(r) \/ Loop(r) \/ Close(r) \/ PostFinished(r) \/ End(r) \/ Panic(r)
  PROVE  StepOf(r)
<1> USE WrapperAssumption DEF IInv, TypeOK, StepOf, Same
<1>1. Good(r)
  OBVIOUS
<1>2. CASE TimerElapses(r)
  <2>1. TypeOK' /\ \A q \in Requests \ {r} : Same(q)
    BY <1>1, <1>2 DEF TimerElapses, handlerVars, profilerVars, traceVars, serviceVars, Good, Budget
  <2>2. Good(r)'
    BY <1>1, <1>2 DEF TimerElapses, handlerVars, profilerVars, traceVars, serviceVars,
       Good, Budget, Lateness, Calls, Progress, Stopping
  <2> QED
    BY <2>1, <2>2
<1>3. CASE WakeToSample(r)
  <2>1. TypeOK' /\ \A q \in Requests \ {r} : Same(q)
    BY <1>1, <1>3 DEF WakeToSample, handlerVars, profilerVars, traceVars, serviceVars, Good, Budget
  <2>2. Good(r)'
    BY <1>1, <1>3 DEF WakeToSample, handlerVars, profilerVars, traceVars, serviceVars,
       Good, Budget, Lateness, Calls, Progress, Stopping
  <2> QED
    BY <2>1, <2>2
<1>4. CASE WakeToStop(r)
  <2>1. TypeOK' /\ \A q \in Requests \ {r} : Same(q)
    BY <1>1, <1>4 DEF WakeToStop, handlerVars, profilerVars, traceVars, serviceVars, Good, Budget
  <2>2. Good(r)'
    BY <1>1, <1>4 DEF WakeToStop, handlerVars, profilerVars, traceVars, serviceVars,
       Good, Budget, Lateness, Calls, Progress, Stopping
  <2> QED
    BY <2>1, <2>2
<1>5. CASE Post(r)
  <2>1. TypeOK' /\ \A q \in Requests \ {r} : Same(q)
    BY <1>1, <1>5 DEF Post, Send, Posted, handlerVars, profilerVars, traceVars, serviceVars, Good, Budget
  <2>2. Good(r)'
    BY <1>1, <1>5 DEF Post, Send, Posted, handlerVars, profilerVars, traceVars, serviceVars,
       Good, Budget, Lateness, Calls, Progress, Stopping
  <2> QED
    BY <2>1, <2>2
<1>6. CASE Loop(r)
  <2>1. TypeOK' /\ \A q \in Requests \ {r} : Same(q)
    BY <1>1, <1>6 DEF Loop, Continue, handlerVars, profilerVars, traceVars, serviceVars, Good, Budget
  <2>2. Good(r)'
    BY <1>1, <1>6 DEF Loop, Continue, handlerVars, profilerVars, traceVars, serviceVars,
       Good, Budget, Lateness, Calls, Progress, Stopping
  <2> QED
    BY <2>1, <2>2
<1>7. CASE Close(r)
  <2>1. TypeOK' /\ \A q \in Requests \ {r} : Same(q)
    BY <1>1, <1>7 DEF Close, Continue, handlerVars, profilerVars, traceVars, serviceVars, Good, Budget
  <2>2. Good(r)'
    BY <1>1, <1>7 DEF Close, Continue, handlerVars, profilerVars, traceVars, serviceVars,
       Good, Budget, Lateness, Calls, Progress, Stopping
  <2> QED
    BY <2>1, <2>2
<1>8. CASE PostFinished(r)
  <2>1. TypeOK' /\ \A q \in Requests \ {r} : Same(q)
    BY <1>1, <1>8 DEF PostFinished, Send, handlerVars, profilerVars, traceVars, serviceVars, Good, Budget
  <2>2. Good(r)'
    BY <1>1, <1>8 DEF PostFinished, Send, handlerVars, profilerVars, traceVars, serviceVars,
       Good, Budget, Lateness, Calls, Progress, Stopping
  <2> QED
    BY <2>1, <2>2
<1>9. CASE End(r)
  <2>1. TypeOK' /\ \A q \in Requests \ {r} : Same(q)
    BY <1>1, <1>9 DEF End, Continue, handlerVars, profilerVars, traceVars, serviceVars, Good, Budget
  <2>2. Good(r)'
    BY <1>1, <1>9 DEF End, Continue, handlerVars, profilerVars, traceVars, serviceVars,
       Good, Budget, Lateness, Calls, Progress, Stopping
  <2> QED
    BY <2>1, <2>2
<1>10. CASE Panic(r)
  <2>1. TypeOK' /\ \A q \in Requests \ {r} : Same(q)
    BY <1>1, <1>10 DEF Panic, handlerVars, profilerVars, traceVars, serviceVars, Good, Budget
  <2>2. Good(r)'
    BY <1>1, <1>10 DEF Panic, handlerVars, profilerVars, traceVars, serviceVars,
       Good, Budget, Lateness, Calls, Progress, Stopping
  <2> QED
    BY <2>1, <2>2
<1> QED
  BY <1>2, <1>3, <1>4, <1>5, <1>6, <1>7, <1>8, <1>9, <1>10

(* A call is handled or fails.                                            *)
LEMMA ServiceSteps ==
  ASSUME IInv, NEW r \in Requests,
         ServeMetrics(r) \/ ServeFinished(r) \/ Break(r)
  PROVE  StepOf(r)
<1> USE WrapperAssumption DEF IInv, TypeOK, StepOf, Same
<1>1. Good(r)
  OBVIOUS
<1>2. CASE ServeMetrics(r)
  <2>1. TypeOK' /\ \A q \in Requests \ {r} : Same(q)
    BY <1>1, <1>2 DEF ServeMetrics, handlerVars, profilerVars, traceVars, serviceVars, Good, Budget
  <2>2. Good(r)'
    BY <1>1, <1>2 DEF ServeMetrics, handlerVars, profilerVars, traceVars, serviceVars,
       Good, Budget, Lateness, Calls, Progress, Stopping
  <2> QED
    BY <2>1, <2>2
<1>3. CASE ServeFinished(r)
  <2>1. TypeOK' /\ \A q \in Requests \ {r} : Same(q)
    BY <1>1, <1>3 DEF ServeFinished, handlerVars, profilerVars, traceVars, serviceVars, Good, Budget
  <2>2. Good(r)'
    BY <1>1, <1>3 DEF ServeFinished, handlerVars, profilerVars, traceVars, serviceVars,
       Good, Budget, Lateness, Calls, Progress, Stopping
  <2> QED
    BY <2>1, <2>2
<1>4. CASE Break(r)
  <2>1. TypeOK' /\ \A q \in Requests \ {r} : Same(q)
    BY <1>1, <1>4 DEF Break, handlerVars, profilerVars, traceVars, serviceVars, Good, Budget
  <2>2. Good(r)'
    BY <1>1, <1>4 DEF Break, handlerVars, profilerVars, traceVars, serviceVars,
       Good, Budget, Lateness, Calls, Progress, Stopping
  <2> QED
    BY <2>1, <2>2
<1> QED
  BY <1>2, <1>3, <1>4

(* The process dies: calls may still arrive, no task goes on. *)
LEMMA CrashKeeps == IInv /\ Crash => IInv'
<1> SUFFICES ASSUME IInv, Crash PROVE IInv'
  OBVIOUS
<1> USE DEF IInv, TypeOK, Crash, traceVars, serviceVars
<1>1. TypeOK'
  OBVIOUS
<1>2. ASSUME NEW r \in Requests PROVE Good(r)'
  <2>1. Good(r)
    OBVIOUS
  <2> QED
    BY <2>1 DEF Good, Budget, Lateness, Calls, Progress, Stopping
<1> QED
  BY <1>1, <1>2

LEMMA StepKeeps == IInv /\ [Next]_vars => IInv'
<1> SUFFICES ASSUME IInv, [Next]_vars PROVE IInv'
  OBVIOUS
<1>1. ASSUME NEW r \in Requests, StepOf(r) PROVE IInv'
  BY <1>1, SameIsGood DEF IInv, StepOf
<1>2. CASE Next
  <2>1. CASE Crash
    BY <2>1, CrashKeeps
  <2>2. CASE \E r \in Requests : StepOf(r)
    BY <1>1, <2>2
  <2> QED
    BY <1>2, <2>1, <2>2, HandlerSteps, ProfilerSteps, ServiceSteps
    DEF Next, HandlerStep, ProfilerStep, ServiceStep
<1>3. CASE UNCHANGED vars
  <2>1. TypeOK' /\ \A r \in Requests : Same(r)
    BY <1>3 DEF IInv, TypeOK, Same, vars, handlerVars, profilerVars, traceVars, serviceVars
  <2> QED
    BY <2>1, SameIsGood DEF IInv
<1> QED
  BY <1>2, <1>3

LEMMA Invariance == Spec => []IInv
<1>1. Init => IInv
  BY InitHolds
<1>2. IInv /\ [Next]_vars => IInv'
  BY StepKeeps
<1> QED
  BY <1>1, <1>2, PTL DEF Spec

------------------------------------------------------------------------------

(* The types, and the bound on the reports of one prompt. *)
THEOREM WrapperTypes == Spec => []TypeOK
<1>1. IInv => TypeOK
  BY DEF IInv
<1> QED
  BY <1>1, Invariance, PTL

(* What the service has handled is in trace.txt, for any interleaving of   *)
(* prompts, failures of calls and deaths of the process.                   *)
THEOREM TraceIsComplete == Spec => []TraceCoversService
<1>1. IInv => TraceCoversService
  BY DEF IInv, Good, Progress, TraceCoversService
<1> QED
  BY <1>1, Invariance, PTL

(* Only the stop leads to /finished, and only the end of the model's work, *)
(* or the caller's going away, to the stop.                                *)
THEOREM ProfileSpansModel == Spec => []ProfilingSpansModel
<1>1. IInv => ProfilingSpansModel
  BY DEF IInv, TypeOK, Good, Calls, Progress, Stopping, ProfilingSpansModel
<1> QED
  BY <1>1, Invariance, PTL

(* A caller with an answer finds its prompt finished at the service, or    *)
(* the profiler has panicked.                                              *)
THEOREM AnsweredIsFinished == Spec => []AnswerAfterFinished
<1>1. IInv => AnswerAfterFinished
  BY DEF IInv, Good, Progress, Stopping, AnswerAfterFinished
<1> QED
  BY <1>1, Invariance, PTL

(* At most one periodic sample begins after the stop. *)
THEOREM StopIsPrompt == Spec => []PromptStop
<1>1. IInv => PromptStop
  BY DEF IInv, Good, Lateness, PromptStop
<1> QED
  BY <1>1, Invariance, PTL

(* Nobody waits in a circle: whoever is to stop a profiler waits for the   *)
(* model or has stopped it, and it waits for nothing but the service then. *)
THEOREM NoCircularWait == Spec => []NobodyStuck
<1>1. ASSUME IInv, NEW r \in Requests, profiler[r] \notin ProfilerOver
      PROVE  \/ handler[r] = "calling"
             \/ /\ stopped[r]
                /\ \/ profiler[r] \in Sampling \cup {"asleep", "closing"}
                   \/ profiler[r] \in Posting /\ (call[r] = "metrics" \/ CallOver(r))
                   \/ profiler[r] = "finishing" /\ (call[r] = "finished" \/ CallOver(r))
  <2>1. Good(r) /\ profiler[r] \in ProfilerStates /\ handler[r] \in HandlerStates
    BY <1>1 DEF IInv, TypeOK
  <2>2. handler[r] = "calling" \/ stopped[r]
    BY <1>1, <2>1 DEF Good, Stopping
  <2> QED
    BY <1>1, <2>1, <2>2 DEF Good, Calls, CallOver
<1>2. IInv => NobodyStuck
  BY <1>1 DEF NobodyStuck
<1> QED
  BY <1>2, Invariance, PTL

------------------------------------------------------------------------------
(* Refinement. *)

LEMMA InitRefines == Init => Prompt!Init
  BY DEF Init, Prompt!Init, CallerOf

(* A step of one request is one step of its prompt, or none. *)
LEMMA RequestRefines ==
  ASSUME IInv, NEW r \in Requests,
         \/ Arrive(r) \/ ModelEnds(r) \/ HandlerStep(r) \/ Disconnect(r)
         \/ TimerElapses(r) \/ ProfilerStep(r) \/ ServiceStep(r)
  PROVE  [Prompt!Next]_(Prompt!vars)
<1> DEFINE caller == [q \in Requests |-> CallerOf(handler[q])]
<1> USE DEF IInv, TypeOK
<1>1. Good(r)
  OBVIOUS
<1>2. CASE Arrive(r)
  <2>1. Prompt!Ask(r)
    BY <1>2 DEF Arrive, Quiet, Prompt!Ask, CallerOf
  <2> QED
    BY <2>1 DEF Prompt!Next
<1>3. CASE UNCHANGED handler /\ UNCHANGED serviceVars
  BY <1>3 DEF Prompt!vars, serviceVars
<1>4. CASE StopProfiler(r) \/ (Respond(r) /\ model[r] = "answered")
  <2>1. caller' = caller
    BY <1>4 DEF StopProfiler, Stop, Respond, CallerOf
  <2> QED
    BY <1>4, <2>1 DEF StopProfiler, Stop, Respond, Prompt!vars, serviceVars
<1>5. CASE Respond(r) /\ model[r] # "answered"
  <2>1. Prompt!Answer(r)
    BY <1>5 DEF Respond, Prompt!Answer, CallerOf, serviceVars
  <2> QED
    BY <2>1 DEF Prompt!Next
<1>6. CASE ReadBody(r) /\ handler'[r] = "replied"
  <2>1. Prompt!Answer(r)
    BY <1>6 DEF ReadBody, Prompt!Answer, CallerOf, serviceVars
  <2> QED
    BY <2>1 DEF Prompt!Next
<1>7. CASE Disconnect(r) \/ (ReadBody(r) /\ handler'[r] = "lost")
  <2>1. Prompt!Lose({r})
    BY <1>7 DEF Disconnect, ReadBody, Prompt!Lose, CallerOf, serviceVars
  <2> QED
    BY <2>1 DEF Prompt!Next
<1>8. CASE ServeMetrics(r)
  <2>1. handler[r] \in HandlerOpen \cup {"lost"} /\ ~finished[r]
    BY <1>1, <1>8 DEF ServeMetrics, Good, Calls, Progress, Stopping
  <2>2. Prompt!Report(r)
    BY <1>8, <2>1 DEF ServeMetrics, handlerVars, Prompt!Report, CallerOf
  <2> QED
    BY <2>2 DEF Prompt!Next
<1>9. CASE ServeFinished(r)
  <2>1. handler[r] \in HandlerOpen \cup {"lost"} /\ ~finished[r] /\ reported[r] > 0
    BY <1>1, <1>9 DEF ServeFinished, Good, Calls, Progress, Stopping
  <2>2. Prompt!Finish(r)
    BY <1>9, <2>1 DEF ServeFinished, handlerVars, Prompt!Finish, CallerOf
  <2> QED
    BY <2>2 DEF Prompt!Next
<1>10. CASE ModelEnds(r) \/ TimerElapses(r) \/ ProfilerStep(r) \/ Break(r)
  BY <1>3, <1>10
  DEF ModelEnds, TimerElapses, ProfilerStep, WakeToSample, WakeToStop, Post, Loop, Close,
      PostFinished, End, Panic, Break, Send, Continue, handlerVars
<1>11. CASE ReadBody(r)
  BY <1>6, <1>7, <1>11 DEF ReadBody
<1> QED
  BY <1>2, <1>4, <1>5, <1>7, <1>8, <1>9, <1>10, <1>11 DEF HandlerStep, ServiceStep

LEMMA CrashRefines == IInv /\ Crash => [Prompt!Next]_(Prompt!vars)
<1> SUFFICES ASSUME IInv, Crash PROVE Prompt!Lose(Requests)
  BY DEF Prompt!Next
<1> QED
  BY DEF IInv, TypeOK, Crash, Prompt!Lose, CallerOf, serviceVars

(* The wrapper implements what PromptService promises.                     *)
THEOREM PromptRefinement == Spec => ImplementsPrompt
<1>1. Init => Prompt!Init
  BY InitRefines
<1>2. IInv /\ [Next]_vars => [Prompt!Next]_(Prompt!vars)
  <2> SUFFICES ASSUME IInv, [Next]_vars PROVE [Prompt!Next]_(Prompt!vars)
    OBVIOUS
  <2>1. CASE UNCHANGED vars
    BY <2>1 DEF vars, handlerVars, serviceVars, Prompt!vars
  <2> QED
    BY <2>1, RequestRefines, CrashRefines DEF Next
<1> QED
  BY <1>1, <1>2, Invariance, PTL DEF Spec, Prompt!Spec, ImplementsPrompt

------------------------------------------------------------------------------
(***************************************************************************)
(* Liveness, as in TmbServerProofs: the argument is about the guards, which*)
(* can be read off the actions to suffice for ENABLED, as every step whose *)
(* guard holds can be taken and changes vars.                              *)
(***************************************************************************)

Served(guard, step) == <>[]guard => []<><<step>>_vars

ModelReady(r) == model[r] = "running"

HandlerReady(r) ==
  \/ handler[r] = "calling" /\ model[r] # "running"
  \/ handler[r] = "stopping" /\ profiler[r] \in ProfilerOver
  \/ handler[r] = "reading"

ProfilerReady(r) ==
  \/ profiler[r] = "asleep" /\ (stopped[r] \/ (elapsed[r] /\ traced[r] < MaxReports[r]))
  \/ profiler[r] \in Sampling \cup {"closing"}
  \/ profiler[r] \in Posting \cup {"finishing"} /\ CallOver(r)

ServiceReady(r) == call[r] \in {"metrics", "finished", "response"}

TasksServe(r) ==
  /\ Served(ModelReady(r), ModelEnds(r))
  /\ Served(HandlerReady(r), HandlerStep(r))
  /\ Served(ProfilerReady(r), ProfilerStep(r))
  /\ Served(ServiceReady(r), ServiceStep(r))

GuardsSuffice(r) ==
  /\ ModelReady(r) => ENABLED <<ModelEnds(r)>>_vars
  /\ HandlerReady(r) => ENABLED <<HandlerStep(r)>>_vars
  /\ ProfilerReady(r) => ENABLED <<ProfilerStep(r)>>_vars
  /\ ServiceReady(r) => ENABLED <<ServiceStep(r)>>_vars

GuardsAreEnough == \A r \in Requests : GuardsSuffice(r)

LEMMA FairnessServes ==
  ASSUME NEW r \in Requests
  PROVE  Fairness /\ []GuardsAreEnough => TasksServe(r)
<1>1. Fairness => TasksFair(r)
  BY DEF Fairness
<1>2. GuardsAreEnough => GuardsSuffice(r)
  BY DEF GuardsAreEnough
<1> QED
  BY <1>1, <1>2, PTL DEF GuardsSuffice, TasksFair, TasksServe, Served

(* What a step can be for one request. *)
LEMMA StepCases ==
  ASSUME IInv, [Next]_vars, NEW r \in Requests
  PROVE  \/ Same(r)
         \/ Arrive(r) \/ ModelEnds(r) \/ HandlerStep(r) \/ Disconnect(r)
         \/ TimerElapses(r) \/ ProfilerStep(r) \/ ServiceStep(r)
         \/ Crash
<1>1. ASSUME NEW q \in Requests, q # r,
             \/ Arrive(q) \/ ModelEnds(q) \/ HandlerStep(q) \/ Disconnect(q)
             \/ TimerElapses(q) \/ ProfilerStep(q) \/ ServiceStep(q)
      PROVE  Same(r)
  <2>1. StepOf(q)
    BY <1>1, HandlerSteps, ProfilerSteps, ServiceSteps DEF HandlerStep, ProfilerStep, ServiceStep
  <2> QED
    BY <1>1, <2>1 DEF StepOf
<1>2. CASE UNCHANGED vars
  BY <1>2 DEF Same, vars, handlerVars, profilerVars, traceVars, serviceVars
<1> QED
  BY <1>1, <1>2 DEF Next

(***************************************************************************)
(* The steps of the profiler and of its calls that are left at most once   *)
(* it has been told to stop.  It may take a periodic sample before it sees *)
(* the stop, but then the loop finds it.                                   *)
(***************************************************************************)
StepsLeft(r) ==
  LET unserved == IF CallOver(r) THEN 0 ELSE 1
  IN  CASE profiler[r] = "asleep" -> 10
        [] profiler[r] = "sampling" -> 9
        [] profiler[r] = "posting" -> 7 + unserved
        [] profiler[r] = "last_sampling" -> 6
        [] profiler[r] = "last_posting" -> 4 + unserved
        [] profiler[r] = "closing" -> 3
        [] profiler[r] = "finishing" -> 1 + unserved
        [] profiler[r] \in ProfilerOver -> 0

(* The numbers of steps at which it is the service that has to move. *)
Awaiting == {2, 5, 8}

LEMMA StepsLeftType ==
  ASSUME IInv, NEW r \in Requests
  PROVE  StepsLeft(r) \in 0 .. 10 /\ (StepsLeft(r) = 0 <=> profiler[r] \in ProfilerOver)
<1>1. profiler[r] \in ProfilerStates
  BY DEF IInv, TypeOK
<1> QED
  BY <1>1 DEF StepsLeft

(* Told to stop, with n steps left; over, or told to stop with fewer. *)
Left(r, n) == stopped[r] /\ StepsLeft(r) = n

Fewer(r, n) == profiler[r] \in ProfilerOver \/ (stopped[r] /\ StepsLeft(r) \in 1 .. n - 1)

Falls(r, n) == Left(r, n) ~> Fewer(r, n)

(* No step makes them more, and each of those who have to move makes them  *)
(* fewer.                                                                  *)
LEMMA StepsFall ==
  ASSUME IInv, [Next]_vars, NEW r \in Requests, NEW n \in 1 .. 10, Left(r, n)
  PROVE  /\ Left(r, n)' \/ Fewer(r, n)'
         /\ n \in Awaiting /\ ServiceStep(r) => Fewer(r, n)'
         /\ n \notin Awaiting /\ ProfilerStep(r) => Fewer(r, n)'
<1> USE DEF IInv, TypeOK, Awaiting, CallOver
<1>0. Good(r) /\ profiler[r] \notin ProfilerOver /\ stopped[r]
  BY StepsLeftType DEF Left
<1>1. CASE ProfilerStep(r)
  <2>1. stopped'[r] = stopped[r]
    BY <1>1 DEF ProfilerStep, WakeToSample, WakeToStop, Post, Loop, Close, PostFinished, End,
       Panic, Send, Continue, handlerVars
  <2>2. n \notin Awaiting => Fewer(r, n)'
    <3>1. CASE WakeToSample(r) \/ WakeToStop(r)
      BY <1>0, <2>1, <3>1 DEF Left, Fewer, StepsLeft, WakeToSample, WakeToStop
    <3>2. CASE Post(r)
      BY <1>0, <2>1, <3>2 DEF Left, Fewer, StepsLeft, Post, Send, Posted
    <3>3. CASE Loop(r)
      BY <1>0, <2>1, <3>3 DEF Left, Fewer, StepsLeft, Loop, Continue
    <3>4. CASE Close(r)
      BY <1>0, <2>1, <3>4 DEF Left, Fewer, StepsLeft, Close, Continue
    <3>5. CASE PostFinished(r)
      BY <1>0, <2>1, <3>5 DEF Left, Fewer, StepsLeft, PostFinished, Send
    <3>6. CASE End(r) \/ Panic(r)
      BY <1>0, <3>6 DEF Fewer, End, Panic, Continue
    <3> QED
      BY <1>1, <3>1, <3>2, <3>3, <3>4, <3>5, <3>6 DEF ProfilerStep
  <2>3. n \notin Awaiting
    BY <1>0, <1>1 DEF Left, StepsLeft, ProfilerStep, WakeToSample, WakeToStop, Post, Loop, Close,
       PostFinished, End, Panic, Continue, Good, Calls
  <2> QED
    BY <2>2, <2>3
<1>2. CASE ServiceStep(r)
  <2>1. /\ stopped'[r] = stopped[r] /\ profiler'[r] = profiler[r]
        /\ CallOver(r)' /\ (CallOver(r) \/ call[r] \in {"metrics", "finished"})
    BY <1>2 DEF ServiceStep, ServeMetrics, ServeFinished, Break, handlerVars, profilerVars
  <2>2. n \notin Awaiting => ~ProfilerStep(r) \/ Fewer(r, n)'
    BY <1>1
  <2> QED
    BY <1>0, <1>1, <2>1, <2>2 DEF Left, Fewer, StepsLeft, Good, Calls
<1>3. CASE Crash
  <2>1. profiler'[r] \in ProfilerOver
    BY <1>3 DEF Crash
  <2> QED
    BY <2>1 DEF Fewer
<1>4. CASE Same(r) \/ ModelEnds(r) \/ HandlerStep(r) \/ Disconnect(r) \/ TimerElapses(r)
  <2>1. stopped'[r] /\ profiler'[r] = profiler[r] /\ call'[r] = call[r]
    BY <1>0, <1>4
    DEF Same, ModelEnds, HandlerStep, StopProfiler, Stop, Respond, ReadBody, Disconnect,
        TimerElapses, handlerVars, profilerVars
  <2>2. Left(r, n)'
    BY <2>1 DEF Left, StepsLeft
  <2> QED
    BY <1>1, <1>2, <2>2
<1>5. ~Arrive(r)
  BY <1>0 DEF Arrive, Quiet
<1> QED
  BY <1>1, <1>2, <1>3, <1>4, <1>5, StepCases

LEMMA StepTaken ==
  ASSUME NEW r \in Requests, NEW n \in 1 .. 10
  PROVE  Spec /\ TasksServe(r) => Falls(r, n)
<1>1. IInv /\ Left(r, n) /\ [Next]_vars => Left(r, n)' \/ Fewer(r, n)'
  BY StepsFall
<1>2. CASE n \in Awaiting
  <2>1. IInv /\ Left(r, n) /\ <<ServiceStep(r)>>_vars => Fewer(r, n)'
    BY <1>2, StepsFall DEF Next
  <2>2. IInv /\ Left(r, n) => ServiceReady(r)
    BY <1>2 DEF IInv, TypeOK, Good, Calls, Left, StepsLeft, Awaiting, CallOver, ServiceReady
  <2> QED
    BY <1>1, <2>1, <2>2, Invariance, PTL DEF Spec, TasksServe, Served, Falls
<1>3. CASE n \notin Awaiting
  <2>1. IInv /\ Left(r, n) /\ <<ProfilerStep(r)>>_vars => Fewer(r, n)'
    BY <1>3, StepsFall DEF Next
  <2>2. IInv /\ Left(r, n) => ProfilerReady(r)
    BY <1>3 DEF IInv, TypeOK, Good, Left, StepsLeft, Awaiting, CallOver, ProfilerReady
  <2> QED
    BY <1>1, <2>1, <2>2, Invariance, PTL DEF Spec, TasksServe, Served, Falls
<1> QED
  BY <1>2, <1>3

(* A profiler that is told to stop ends.                                   *)
LEMMA ProfilerStops ==
  ASSUME NEW r \in Requests
  PROVE  Spec /\ TasksServe(r) => (stopped[r] ~> profiler[r] \in ProfilerOver)
<1>1. Spec /\ TasksServe(r) =>
        /\ Falls(r, 1) /\ Falls(r, 2) /\ Falls(r, 3) /\ Falls(r, 4) /\ Falls(r, 5)
        /\ Falls(r, 6) /\ Falls(r, 7) /\ Falls(r, 8) /\ Falls(r, 9) /\ Falls(r, 10)
  <2>1. \A n \in 1 .. 10 : Spec /\ TasksServe(r) => Falls(r, n)
    BY StepTaken
  <2>2. /\ 1 \in 1 .. 10 /\ 2 \in 1 .. 10 /\ 3 \in 1 .. 10 /\ 4 \in 1 .. 10 /\ 5 \in 1 .. 10
        /\ 6 \in 1 .. 10 /\ 7 \in 1 .. 10 /\ 8 \in 1 .. 10 /\ 9 \in 1 .. 10 /\ 10 \in 1 .. 10
    OBVIOUS
  <2> QED
    BY <2>1, <2>2
<1>2. IInv /\ stopped[r] =>
        \/ profiler[r] \in ProfilerOver
        \/ Left(r, 1) \/ Left(r, 2) \/ Left(r, 3) \/ Left(r, 4) \/ Left(r, 5)
        \/ Left(r, 6) \/ Left(r, 7) \/ Left(r, 8) \/ Left(r, 9) \/ Left(r, 10)
  BY StepsLeftType DEF Left
<1>3. /\ Fewer(r, 1) => profiler[r] \in ProfilerOver
      /\ Fewer(r, 2) => profiler[r] \in ProfilerOver \/ Left(r, 1)
      /\ Fewer(r, 3) => Fewer(r, 2) \/ Left(r, 2)
      /\ Fewer(r, 4) => Fewer(r, 3) \/ Left(r, 3)
      /\ Fewer(r, 5) => Fewer(r, 4) \/ Left(r, 4)
      /\ Fewer(r, 6) => Fewer(r, 5) \/ Left(r, 5)
      /\ Fewer(r, 7) => Fewer(r, 6) \/ Left(r, 6)
      /\ Fewer(r, 8) => Fewer(r, 7) \/ Left(r, 7)
      /\ Fewer(r, 9) => Fewer(r, 8) \/ Left(r, 8)
      /\ Fewer(r, 10) => Fewer(r, 9) \/ Left(r, 9)
  BY DEF Fewer, Left
<1> QED
  BY <1>1, <1>2, <1>3, Invariance, PTL DEF Falls

(* What a step makes of an open handler: it goes on in its order, when what *)
(* it awaits is there, or is over.                                         *)
LEMMA HandlerMoves ==
  ASSUME IInv, [Next]_vars, NEW r \in Requests, handler[r] \in HandlerOpen
  PROVE  /\ \/ handler'[r] = handler[r]
            \/ handler[r] = "calling" /\ handler'[r] = "stopping"
            \/ handler[r] = "stopping" /\ handler'[r] = "reading"
            \/ handler'[r] \notin HandlerOpen
         /\ model[r] # "running" => model'[r] # "running"
         /\ profiler[r] \in ProfilerOver => profiler'[r] \in ProfilerOver
<1> USE DEF IInv, TypeOK
<1>0. Good(r)
  OBVIOUS
<1>1. CASE HandlerStep(r) \/ Disconnect(r)
  <2>1. UNCHANGED <<model, profiler>>
    BY <1>1 DEF HandlerStep, StopProfiler, Stop, Respond, ReadBody, Disconnect, profilerVars
  <2> QED
    BY <1>1, <2>1 DEF HandlerStep, StopProfiler, Stop, Respond, ReadBody, Disconnect
<1>2. CASE ModelEnds(r)
  BY <1>2 DEF ModelEnds, profilerVars
<1>3. CASE TimerElapses(r) \/ ProfilerStep(r)
  <2>1. UNCHANGED <<handler, model>>
    BY <1>3 DEF TimerElapses, ProfilerStep, WakeToSample, WakeToStop, Post, Loop, Close,
       PostFinished, End, Panic, Send, Continue, handlerVars
  <2>2. profiler[r] \in ProfilerOver => profiler'[r] = profiler[r]
    BY <1>3 DEF TimerElapses, ProfilerStep, WakeToSample, WakeToStop, Post, Loop, Close,
       PostFinished, End, Panic, Continue
  <2> QED
    BY <2>1, <2>2
<1>4. CASE ServiceStep(r)
  BY <1>4 DEF ServiceStep, ServeMetrics, ServeFinished, Break, handlerVars, profilerVars
<1>5. CASE Crash
  BY <1>5 DEF Crash
<1>6. CASE Same(r)
  BY <1>6 DEF Same
<1>7. ~Arrive(r)
  BY DEF Arrive, Quiet
<1> QED
  BY <1>1, <1>2, <1>3, <1>4, <1>5, <1>6, <1>7, StepCases

(* The model's task ends, and the handler stops the profiler unless it is  *)
(* gone before.                                                            *)
LEMMA CallEnds ==
  ASSUME NEW r \in Requests
  PROVE  Spec /\ TasksServe(r) =>
           (handler[r] = "calling" ~> handler[r] = "stopping" \/ handler[r] \notin HandlerOpen)
<1> DEFINE working == handler[r] = "calling" /\ model[r] = "running"
           done == handler[r] = "calling" /\ model[r] # "running"
           left == handler[r] = "stopping" \/ handler[r] \notin HandlerOpen
<1>1. IInv /\ working /\ [Next]_vars => working' \/ done' \/ left'
  BY HandlerMoves
<1>2. IInv /\ working /\ <<ModelEnds(r)>>_vars => done'
  BY DEF ModelEnds, IInv, TypeOK
<1>3. working => ModelReady(r)
  BY DEF ModelReady
<1>4. IInv /\ done /\ [Next]_vars => done' \/ left'
  BY HandlerMoves
<1>5. IInv /\ done /\ <<HandlerStep(r)>>_vars => left'
  BY DEF HandlerStep, StopProfiler, Stop, Respond, ReadBody, IInv, TypeOK
<1>6. done => HandlerReady(r)
  BY DEF HandlerReady
<1>7. handler[r] = "calling" => working \/ done
  OBVIOUS
<1> QED
  BY <1>1, <1>2, <1>3, <1>4, <1>5, <1>6, <1>7, Invariance, PTL DEF Spec, TasksServe, Served

(* A handler that is served comes to its end.                              *)
HandlerSettles(r) == handler[r] \in HandlerOpen ~> handler[r] \notin HandlerOpen

LEMMA HandlerEnds ==
  ASSUME NEW r \in Requests
  PROVE  Spec /\ TasksServe(r) => HandlerSettles(r)
<1> DEFINE over == handler[r] \notin HandlerOpen
           stopping == handler[r] = "stopping"
           joined == handler[r] = "stopping" /\ profiler[r] \in ProfilerOver
           reading == handler[r] = "reading"
<1>1. IInv /\ stopping => stopped[r]
  BY DEF IInv, Good, Stopping
<1>2. IInv /\ stopping /\ [Next]_vars => stopping' \/ reading' \/ over'
  BY HandlerMoves
<1>3. stopping /\ profiler[r] \in ProfilerOver => joined
  OBVIOUS
<1>4. IInv /\ joined /\ [Next]_vars => joined' \/ reading' \/ over'
  BY HandlerMoves
<1>5. IInv /\ joined /\ <<HandlerStep(r)>>_vars => reading' \/ over'
  BY DEF HandlerStep, StopProfiler, Respond, ReadBody, IInv, TypeOK
<1>6. joined => HandlerReady(r)
  BY DEF HandlerReady
<1>7. IInv /\ reading /\ [Next]_vars => reading' \/ over'
  BY HandlerMoves
<1>8. IInv /\ reading /\ <<HandlerStep(r)>>_vars => over'
  BY DEF HandlerStep, StopProfiler, Respond, ReadBody, IInv, TypeOK
<1>9. reading => HandlerReady(r)
  BY DEF HandlerReady
<1>10. handler[r] \in HandlerOpen => handler[r] = "calling" \/ stopping \/ reading
  OBVIOUS
<1>11. Spec /\ TasksServe(r) => (stopping ~> joined \/ reading \/ over)
  BY <1>1, <1>2, <1>3, ProfilerStops, Invariance, PTL DEF Spec
<1>12. Spec /\ TasksServe(r) => (joined ~> reading \/ over)
  BY <1>4, <1>5, <1>6, Invariance, PTL DEF Spec, TasksServe, Served
<1>13. Spec /\ TasksServe(r) => (reading ~> over)
  BY <1>7, <1>8, <1>9, Invariance, PTL DEF Spec, TasksServe, Served
<1> QED
  BY <1>10, <1>11, <1>12, <1>13, CallEnds, PTL DEF HandlerSettles

(* Every prompt is answered, or its connection closed: the handler waits   *)
(* for the model's task and for the profiler, the profiler for the stop    *)
(* and for the service, and nobody in this chain for the handler.          *)
THEOREM EveryPromptAnswered == FairSpec /\ []GuardsAreEnough => PromptAnswered
<1>1. ASSUME NEW r \in Requests
      PROVE  FairSpec /\ []GuardsAreEnough =>
               (handler[r] \in HandlerOpen ~> handler[r] \notin HandlerOpen)
  BY HandlerEnds, FairnessServes, PTL DEF FairSpec, HandlerSettles
<1> QED
  BY <1>1 DEF PromptAnswered

(* No profiling task goes on for ever: the model's end, the caller's going *)
(* away or a panic of the handler stops it, and the stop ends it.          *)
THEOREM EveryProfilerEnds == FairSpec /\ []GuardsAreEnough => ProfilingEnds
<1>1. ASSUME NEW r \in Requests
      PROVE  FairSpec /\ []GuardsAreEnough =>
               (profiler[r] = "asleep" ~> profiler[r] \in ProfilerOver)
  <2>1. IInv /\ profiler[r] = "asleep" => stopped[r] \/ handler[r] = "calling"
    BY DEF IInv, Good, Stopping
  <2>2. IInv /\ (handler[r] = "stopping" \/ handler[r] \notin HandlerOpen) =>
          stopped[r] \/ profiler[r] \in ProfilerOver
    BY DEF IInv, Good, Stopping
  <2> QED
    BY <2>1, <2>2, CallEnds, ProfilerStops, FairnessServes, Invariance, PTL DEF FairSpec
<1> QED
  BY <1>1 DEF ProfilingEnds

==============================================================================
