--------------------------- MODULE FullSystemProofs ---------------------------
(***************************************************************************)
(* The composed system does what System does, step by step, and the        *)
(* wrapper in it what Wrapper does: so what is proved of either holds when *)
(* the wrapper's tasks run against clients, load server and service.       *)
(***************************************************************************)
EXTENDS FullSystem, SystemProofs

(* What the load server knows of its call, and what the handler has done.  *)
View(c) ==
  /\ caller[c] = "idle" => handler[c] = "idle" /\ model[c] # "running"
  /\ caller[c] = "asking" => handler[c] # "idle"
  /\ caller[c] = "answered" => handler[c] \in {"replied", "failed"}

Views == \A c \in Clients : View(c)

FullInv == IInv /\ CInv /\ Tasks!IInv /\ Views

LEMMA PeriodicType == Periodic \in [Clients -> Nat]
  BY SystemAssumption DEF Periodic

------------------------------------------------------------------------------
(* Steps of the wrapper *)

LEMMA TaskSteps ==
  ASSUME [FullNext]_fullVars
  PROVE  [Tasks!Next]_(Tasks!vars)
<1> USE DEF Tasks!Next, Tasks!vars, Tasks!handlerVars, Tasks!profilerVars, Tasks!traceVars,
            Tasks!serviceVars
<1>1. ASSUME NEW c \in Clients, PromptArrives(c) \/ CallHandled(c) \/ Own(TaskStep(c))
      PROVE  Tasks!Next
  BY <1>1 DEF PromptArrives, CallHandled, MetricsHandled, FinishedHandled, Own, TaskStep,
     Tasks!ServiceStep
<1>2. ASSUME NEW c \in Clients, ReplyArrives(c) \/ Away(OutsideStep(c))
      PROVE  UNCHANGED Tasks!vars
  BY <1>2 DEF ReplyArrives, Away, wrapperVars, OutsideStep, ReturnResponse, SendPrompt, AskVerdict,
     ShowAnswer, Leave, ReadMode, CallFails, TimeOut, promptVars, Prompts!Answer, Prompts!Lose
<1>3. ASSUME (\E m \in Modes : Away(SwitchMode(m))) \/ Away(LoadDies) \/ Away(TmbDies)
      PROVE  UNCHANGED Tasks!vars
  BY <1>3 DEF Away, wrapperVars, SwitchMode, LoadDies, TmbDies, promptVars, Prompts!Lose
<1>4. ASSUME UNCHANGED fullVars PROVE UNCHANGED Tasks!vars
  BY <1>4 DEF fullVars, sysVars, promptVars, wrapperVars
<1>5. ASSUME Own(Tasks!Crash) PROVE Tasks!Next
  BY <1>5 DEF Own
<1> QED
  BY <1>1, <1>2, <1>3, <1>4, <1>5 DEF FullNext

------------------------------------------------------------------------------
(* Steps of the system *)

(* A call is on its way only while the load server waits or has hung up.   *)
LEMMA CallsUnderWay ==
  ASSUME FullInv, NEW c \in Clients
  PROVE  /\ call[c] \in {"metrics", "finished"} => caller[c] \in {"asking", "lost"} /\ ~finished[c]
         /\ call[c] = "metrics" => reported[c] < MaxReports[c]
         /\ call[c] = "finished" => reported[c] > 0
<1> USE DEF Tasks!IInv, Tasks!TypeOK, Tasks!Good, Tasks!ProfilerOver, Tasks!Posting, Tasks!Sampling
<1>1. Tasks!TypeOK /\ Tasks!Calls(c) /\ Tasks!Progress(c) /\ Tasks!Stopping(c)
  BY DEF FullInv
<1>2. call[c] \in {"metrics", "finished"} => caller[c] \in {"asking", "lost"}
  <2>1. caller[c] \in {"idle", "asking", "answered", "lost"}
    BY DEF FullInv, CInv, SysTypeOK
  <2> QED
    BY <1>1, <2>1 DEF FullInv, Views, View, Tasks!Stopping, Tasks!Calls
<1>3. call[c] = "metrics" => ~finished[c] /\ reported[c] < traced[c]
  BY <1>1 DEF Tasks!Progress
<1>4. call[c] = "finished" => ~finished[c] /\ reported[c] > 0
  BY <1>1 DEF Tasks!Progress
<1>5. traced[c] <= MaxReports[c] /\ traced[c] \in Nat /\ reported[c] \in Nat /\ MaxReports[c] \in Nat
  <2>1. traced[c] <= Periodic[c] + 1 /\ traced[c] \in Nat /\ reported[c] \in Nat
    BY <1>1
  <2>2. Periodic[c] + 1 = MaxReports[c] /\ MaxReports[c] \in Nat
    BY SystemAssumption DEF Periodic
  <2> QED
    BY <2>1, <2>2
<1> QED
  BY <1>2, <1>3, <1>4, <1>5

LEMMA SystemSteps ==
  ASSUME FullInv, [FullNext]_fullVars
  PROVE  [SysNext]_sysVars
<1>1. ASSUME NEW c \in Clients, PromptArrives(c) PROVE Forward(c)
  <2>1. caller[c] # "asking"
    BY <1>1 DEF PromptArrives, FullInv, CInv, Control
  <2> QED
    BY <1>1, <2>1 DEF PromptArrives, Forward, Tasks!Arrive, Prompts!Ask
<1>2. ASSUME NEW c \in Clients, MetricsHandled(c) PROVE Report(c)
  <2>1. call[c] = "metrics" /\ UNCHANGED finished /\ reported' = [reported EXCEPT ![c] = @ + 1]
    BY <1>2 DEF MetricsHandled, Tasks!ServeMetrics
  <2> QED
    BY <1>2, <2>1, CallsUnderWay DEF MetricsHandled, Report, Prompts!Report
<1>3. ASSUME NEW c \in Clients, FinishedHandled(c) PROVE ReportFinished(c)
  <2>1. call[c] = "finished" /\ UNCHANGED reported /\ finished' = [finished EXCEPT ![c] = TRUE]
    BY <1>3 DEF FinishedHandled, Tasks!ServeFinished
  <2> QED
    BY <1>3, <2>1, CallsUnderWay DEF FinishedHandled, ReportFinished, Prompts!Finish
<1>4. ASSUME NEW c \in Clients, ReplyArrives(c) \/ Away(OutsideStep(c)) PROVE PromptStep(c)
  BY <1>4 DEF ReplyArrives, Away, OutsideStep, PromptStep
<1>5. ASSUME NEW c \in Clients, CallHandled(c) \/ PromptArrives(c)
      PROVE  PromptStep(c) \/ UNCHANGED sysVars
  BY <1>1, <1>2, <1>3, <1>5 DEF CallHandled, Own, PromptStep
<1>6. ASSUME Own(Tasks!Crash) \/ (\E c \in Clients : Own(TaskStep(c))) \/ UNCHANGED fullVars
      PROVE  UNCHANGED sysVars
  BY <1>6 DEF Own, fullVars
<1>7. ASSUME (\E m \in Modes : Away(SwitchMode(m))) \/ Away(LoadDies) \/ Away(TmbDies)
      PROVE  SysNext
  BY <1>7 DEF Away, SysNext
<1> QED
  BY <1>4, <1>5, <1>6, <1>7 DEF FullNext, SysNext

------------------------------------------------------------------------------
(* The invariant *)

LEMMA InitFull == FullInit => FullInv
<1> SUFFICES ASSUME FullInit PROVE FullInv
  OBVIOUS
<1>1. IInv /\ CInv
  BY InitSInv DEF FullInit, CInv, SInv, BoxInv, IInv
<1>2. Tasks!IInv
  BY PeriodicType, Tasks!InitHolds DEF FullInit
<1>3. Views
  BY DEF FullInit, SysInit, Prompts!Init, Tasks!Init, Views, View
<1> QED
  BY <1>1, <1>2, <1>3 DEF FullInv

LEMMA ViewsStep ==
  ASSUME FullInv, [FullNext]_fullVars
  PROVE  Views'
<1> SUFFICES ASSUME NEW d \in Clients PROVE View(d)'
  BY DEF Views
<1> USE DEF FullInv, CInv, SysTypeOK, Tasks!IInv, Tasks!TypeOK
<1>0. View(d)
  BY DEF Views
<1>1. ASSUME NEW c \in Clients, PromptArrives(c) PROVE View(d)'
  BY <1>0, <1>1 DEF View, PromptArrives, Tasks!Arrive
<1>2. ASSUME NEW c \in Clients, ReplyArrives(c) PROVE View(d)'
  BY <1>0, <1>2 DEF View, ReplyArrives, Away, wrapperVars, ReturnResponse, Prompts!Answer
<1>3. ASSUME UNCHANGED <<handler, model, caller>> PROVE View(d)'
  BY <1>0, <1>3 DEF View
<1>4. ASSUME NEW c \in Clients, CallHandled(c) PROVE UNCHANGED <<handler, model, caller>>
  BY <1>4 DEF CallHandled, MetricsHandled, FinishedHandled, Own, sysVars, promptVars,
     Tasks!ServeMetrics, Tasks!ServeFinished, Tasks!Break, Tasks!handlerVars
<1>5. ASSUME NEW c \in Clients, Own(TaskStep(c)) PROVE View(d)'
  <2>1. UNCHANGED caller
    BY <1>5 DEF Own, sysVars, promptVars
  <2>2. /\ handler[d] = "idle" => handler'[d] = "idle"
        /\ handler[d] # "idle" => handler'[d] # "idle"
        /\ handler[d] \in {"replied", "failed"} => handler'[d] = handler[d]
        /\ model[d] # "running" => model'[d] # "running"
    <3>1. CASE Tasks!ModelEnds(c)
      BY <3>1 DEF Tasks!ModelEnds
    <3>2. CASE Tasks!HandlerStep(c)
      BY <3>2 DEF Tasks!HandlerStep, Tasks!StopProfiler, Tasks!Stop, Tasks!Respond, Tasks!ReadBody
    <3>3. CASE Tasks!Disconnect(c)
      BY <3>3 DEF Tasks!Disconnect, Tasks!HandlerOpen
    <3>4. CASE Tasks!TimerElapses(c) \/ Tasks!ProfilerStep(c)
      BY <3>4 DEF Tasks!TimerElapses, Tasks!ProfilerStep, Tasks!WakeToSample, Tasks!WakeToStop,
         Tasks!Post, Tasks!Send, Tasks!Loop, Tasks!Close, Tasks!PostFinished, Tasks!End,
         Tasks!Panic, Tasks!Continue, Tasks!handlerVars
    <3> QED
      BY <1>5, <3>1, <3>2, <3>3, <3>4 DEF Own, TaskStep
  <2> QED
    BY <1>0, <2>1, <2>2 DEF View
<1>6. ASSUME Own(Tasks!Crash) PROVE View(d)'
  BY <1>0, <1>6 DEF View, Own, sysVars, promptVars, Tasks!Crash, Tasks!HandlerOpen
<1>7. ASSUME UNCHANGED wrapperVars,
             caller' = caller \/ \E cs \in SUBSET Clients : Prompts!Lose(cs)
      PROVE  View(d)'
  BY <1>0, <1>7 DEF View, wrapperVars, Prompts!Lose
<1>8. ASSUME NEW c \in Clients, Away(OutsideStep(c)) PROVE View(d)'
  <2>1. {c} \in SUBSET Clients
    OBVIOUS
  <2>2. caller' = caller \/ \E cs \in SUBSET Clients : Prompts!Lose(cs)
    BY <1>8, <2>1 DEF Away, OutsideStep, SendPrompt, AskVerdict, ShowAnswer, Leave, ReadMode,
       CallFails, TimeOut, promptVars
  <2> QED
    BY <1>7, <1>8, <2>2 DEF Away
<1>9. ASSUME (\E m \in Modes : Away(SwitchMode(m))) \/ Away(LoadDies) \/ Away(TmbDies)
      PROVE  View(d)'
  <2>1. Clients \in SUBSET Clients
    OBVIOUS
  <2>2. caller' = caller \/ \E cs \in SUBSET Clients : Prompts!Lose(cs)
    BY <1>9, <2>1 DEF Away, SwitchMode, LoadDies, TmbDies, promptVars
  <2> QED
    BY <1>7, <1>9, <2>2 DEF Away
<1>10. CASE UNCHANGED fullVars
  BY <1>3, <1>10 DEF fullVars, sysVars, promptVars, wrapperVars
<1> QED
  BY <1>1, <1>2, <1>3, <1>4, <1>5, <1>6, <1>8, <1>9, <1>10 DEF FullNext

LEMMA FullStep == FullInv /\ [FullNext]_fullVars => FullInv'
<1> SUFFICES ASSUME FullInv, [FullNext]_fullVars PROVE FullInv'
  OBVIOUS
<1>1. [SysNext]_sysVars
  BY SystemSteps
<1>2. IInv' /\ TypeOK'
  BY <1>1, ServiceStep, NextIInv DEF FullInv, IInv
<1>3. CInv'
  BY <1>1, <1>2, TypeStep, ControlStep DEF FullInv, CInv
<1>4. Tasks!IInv'
  BY PeriodicType, TaskSteps, Tasks!StepKeeps DEF FullInv
<1> QED
  BY <1>2, <1>3, <1>4, ViewsStep DEF FullInv

LEMMA FullInvariance == FullSpec => []FullInv
BY InitFull, FullStep, PTL DEF FullSpec

(* Each step of the composed system is one of System, or nothing it sees:  *)
(* that the reply takes its time, that tasks and connections end one by    *)
(* one, and what the wrapper still does for a load server that has hung    *)
(* up, System has in its own way.                                          *)
THEOREM SystemInFull == FullSpec => SysSpec
<1>1. FullInit => SysInit
  BY DEF FullInit
<1>2. FullInv /\ [FullNext]_fullVars => [SysNext]_sysVars
  BY SystemSteps
<1> QED
  BY <1>1, <1>2, FullInvariance, PTL DEF FullSpec, SysSpec

(* The wrapper in it is the one of Wrapper: neither the load server nor    *)
(* the service makes it do what it would not do.                           *)
THEOREM TasksInFull == FullSpec => Tasks!Spec
<1>1. FullInit => Tasks!Init
  BY DEF FullInit
<1>2. [FullNext]_fullVars => [Tasks!Next]_(Tasks!vars)
  BY TaskSteps
<1> QED
  BY <1>1, <1>2, PTL DEF FullSpec, Tasks!Spec

(* So what is shown is the verdict of the prompt, on its own evidence of   *)
(* one model, there before it is asked for and told once, with every task, *)
(* call and failure of the four programs in between.                       *)
THEOREM EndToEnd ==
  ASSUME OwnUserIDs
  PROVE  FullSpec => /\ []OneModelPerSession
                     /\ []NoLateVerdict
                     /\ []NothingLeftBehind
                     /\ KeepsPromise
<1> QED
  BY SystemInFull, OneModelJudged, VerdictFirst, AnsweredIsGone, PromiseKept

------------------------------------------------------------------------------
(***************************************************************************)
(* Liveness, argued as in TmbServerProofs.  That the wrapper replies is no *)
(* longer assumed: it follows from the fairness of its tasks.              *)
(***************************************************************************)

FullServed(guard, step) == <>[]guard => []<><<step>>_fullVars

CanArrive(c) == load[c] = "read" /\ Tasks!Quiet(c)

CanReply(c) ==
  load[c] = "forwarded" /\ caller[c] = "asking" /\ handler[c] \in {"replied", "failed"}

HungUp(c) == load[c] = "forwarded" /\ handler[c] = "lost"

ServersServe(c) ==
  /\ FullServed(load[c] = "submitted", Away(ReadMode(c)))
  /\ FullServed(CanArrive(c), PromptArrives(c))
  /\ FullServed(CanReply(c), ReplyArrives(c))
  /\ FullServed(HungUp(c), ConnectionClosed(c))
  /\ FullServed(CanAsk(c) /\ SessionFor(UserOf[c]) # {}, Away(AskVerdict(c)))
  /\ FullServed(Answerable(c), Away(ShowAnswer(c)))
  /\ FullServed(Asleep(c), Away(TimeOut(c)))

WrapperServes(c) ==
  /\ FullServed(Tasks!ModelReady(c), Own(Tasks!ModelEnds(c)))
  /\ FullServed(Tasks!HandlerReady(c), Own(Tasks!HandlerStep(c)))
  /\ FullServed(Tasks!ProfilerReady(c), Own(Tasks!ProfilerStep(c)))
  /\ FullServed(Tasks!ServiceReady(c), CallHandled(c))

FullGuardsSuffice(c) ==
  /\ load[c] = "submitted" => ENABLED <<Away(ReadMode(c))>>_fullVars
  /\ CanArrive(c) => ENABLED <<PromptArrives(c)>>_fullVars
  /\ CanReply(c) => ENABLED <<ReplyArrives(c)>>_fullVars
  /\ HungUp(c) => ENABLED <<ConnectionClosed(c)>>_fullVars
  /\ CanAsk(c) /\ SessionFor(UserOf[c]) # {} => ENABLED <<Away(AskVerdict(c))>>_fullVars
  /\ Answerable(c) => ENABLED <<Away(ShowAnswer(c))>>_fullVars
  /\ Asleep(c) => ENABLED <<Away(TimeOut(c))>>_fullVars
  /\ Tasks!ModelReady(c) => ENABLED <<Own(Tasks!ModelEnds(c))>>_fullVars
  /\ Tasks!HandlerReady(c) => ENABLED <<Own(Tasks!HandlerStep(c))>>_fullVars
  /\ Tasks!ProfilerReady(c) => ENABLED <<Own(Tasks!ProfilerStep(c))>>_fullVars
  /\ Tasks!ServiceReady(c) => ENABLED <<CallHandled(c)>>_fullVars

FullGuardsAreEnough == \A c \in Clients : FullGuardsSuffice(c)

LEMMA FullFairnessServes ==
  ASSUME NEW c \in Clients
  PROVE  FullFairness /\ []FullGuardsAreEnough => ServersServe(c) /\ WrapperServes(c)
<1>1. FullFairness => FullFair(c)
  BY DEF FullFairness
<1>2. FullGuardsAreEnough => FullGuardsSuffice(c)
  BY DEF FullGuardsAreEnough
<1> QED
  BY <1>1, <1>2, PTL DEF FullGuardsSuffice, FullFair, ServersServe, WrapperServes, FullServed

(* A step of the wrapper's own is one that Wrapper sees.                   *)
LEMMA OwnSteps ==
  ASSUME NEW ACTION step, <<Own(step)>>_fullVars
  PROVE  <<step>>_(Tasks!vars)
BY DEF Own, fullVars, sysVars, promptVars, wrapperVars, Tasks!vars, Tasks!handlerVars,
   Tasks!profilerVars, Tasks!traceVars, Tasks!serviceVars

LEMMA CallSteps ==
  ASSUME Tasks!IInv, NEW c \in Clients, <<CallHandled(c)>>_fullVars
  PROVE  <<Tasks!ServiceStep(c)>>_(Tasks!vars)
<1>1. Tasks!ServiceStep(c)
  BY DEF CallHandled, MetricsHandled, FinishedHandled, Own, Tasks!ServiceStep
<1>2. call'[c] # call[c]
  BY <1>1 DEF Tasks!ServiceStep, Tasks!ServeMetrics, Tasks!ServeFinished, Tasks!Break,
     Tasks!IInv, Tasks!TypeOK
<1> QED
  BY <1>1, <1>2 DEF Tasks!vars

LEMMA TasksServed ==
  ASSUME NEW c \in Clients
  PROVE  []FullInv /\ WrapperServes(c) => Tasks!TasksServe(c)
<1>1. <<Own(Tasks!ModelEnds(c))>>_fullVars => <<Tasks!ModelEnds(c)>>_(Tasks!vars)
  BY OwnSteps
<1>2. <<Own(Tasks!HandlerStep(c))>>_fullVars => <<Tasks!HandlerStep(c)>>_(Tasks!vars)
  BY OwnSteps
<1>3. <<Own(Tasks!ProfilerStep(c))>>_fullVars => <<Tasks!ProfilerStep(c)>>_(Tasks!vars)
  BY OwnSteps
<1>4. FullInv /\ <<CallHandled(c)>>_fullVars => <<Tasks!ServiceStep(c)>>_(Tasks!vars)
  BY CallSteps DEF FullInv
<1> QED
  BY <1>1, <1>2, <1>3, <1>4, PTL
  DEF WrapperServes, FullServed, Tasks!TasksServe, Tasks!Served

(* A handler that is over stays so while the load server waits for it.     *)
LEMMA ReplyWaits ==
  ASSUME FullInv, [FullNext]_fullVars, NEW c \in Clients,
         load[c] = "forwarded", handler[c] \notin Tasks!HandlerOpen
  PROVE  handler'[c] = handler[c]
<1> USE DEF FullInv, Tasks!IInv, Tasks!TypeOK, Tasks!HandlerOpen
<1>1. ASSUME NEW d \in Clients, PromptArrives(d) PROVE handler'[c] = handler[c]
  BY <1>1 DEF PromptArrives, Tasks!Arrive
<1>2. ASSUME NEW d \in Clients, CallHandled(d) PROVE UNCHANGED handler
  BY <1>2 DEF CallHandled, MetricsHandled, FinishedHandled, Own,
     Tasks!ServeMetrics, Tasks!ServeFinished, Tasks!Break, Tasks!handlerVars
<1>3. ASSUME NEW d \in Clients, Own(TaskStep(d)) PROVE handler'[c] = handler[c]
  <2>1. CASE Tasks!ModelEnds(d)
    BY <2>1 DEF Tasks!ModelEnds
  <2>2. CASE Tasks!HandlerStep(d)
    BY <2>2 DEF Tasks!HandlerStep, Tasks!StopProfiler, Tasks!Stop, Tasks!Respond, Tasks!ReadBody
  <2>3. CASE Tasks!Disconnect(d)
    BY <2>3 DEF Tasks!Disconnect
  <2>4. CASE Tasks!TimerElapses(d) \/ Tasks!ProfilerStep(d)
    BY <2>4 DEF Tasks!TimerElapses, Tasks!ProfilerStep, Tasks!WakeToSample, Tasks!WakeToStop,
       Tasks!Post, Tasks!Send, Tasks!Loop, Tasks!Close, Tasks!PostFinished, Tasks!End,
       Tasks!Panic, Tasks!Continue, Tasks!handlerVars
  <2> QED
    BY <1>3, <2>1, <2>2, <2>3, <2>4 DEF Own, TaskStep
<1>4. ASSUME Own(Tasks!Crash) PROVE handler'[c] = handler[c]
  BY <1>4 DEF Own, Tasks!Crash
<1>5. ASSUME \/ \E d \in Clients : ReplyArrives(d) \/ Away(OutsideStep(d))
             \/ \E m \in Modes : Away(SwitchMode(m))
             \/ Away(LoadDies) \/ Away(TmbDies)
             \/ UNCHANGED fullVars
      PROVE  UNCHANGED handler
  BY <1>5 DEF ReplyArrives, Away, wrapperVars, fullVars
<1> QED
  BY <1>1, <1>2, <1>3, <1>4, <1>5 DEF FullNext

(* The load server has its answer at last, or has given up.                *)
LEMMA ReplyComes ==
  ASSUME NEW c \in Clients
  PROVE  FullSpec /\ ServersServe(c) /\ WrapperServes(c) =>
           (load[c] = "forwarded" ~> ~(load[c] = "forwarded"))
<1> DEFINE over == ~(load[c] = "forwarded")
           done == handler[c] \notin Tasks!HandlerOpen
<1>1. FullInv /\ ~over => caller[c] = "asking"
  BY DEF FullInv, CInv, Control
<1>2. FullInv /\ ~over => handler[c] \in Tasks!HandlerOpen \/ CanReply(c) \/ HungUp(c)
  BY <1>1 DEF FullInv, Views, View, Tasks!IInv, Tasks!TypeOK, Tasks!HandlerStates, Tasks!HandlerOpen,
     CanReply, HungUp
<1>3. /\ FullInv /\ FullInv' /\ CanReply(c) /\ [FullNext]_fullVars => CanReply(c)' \/ over'
      /\ FullInv /\ HungUp(c) /\ [FullNext]_fullVars => HungUp(c)' \/ over'
  <2>1. FullInv' => over' \/ caller'[c] = "asking"
    BY DEF FullInv, CInv, Control
  <2>2. ASSUME FullInv, CanReply(c) \/ HungUp(c), [FullNext]_fullVars
        PROVE  handler'[c] = handler[c]
    BY <2>2, ReplyWaits DEF CanReply, HungUp, Tasks!HandlerOpen
  <2> QED
    BY <2>1, <2>2 DEF CanReply, HungUp
<1>4. /\ FullInv /\ CanReply(c) /\ <<ReplyArrives(c)>>_fullVars => over'
      /\ FullInv /\ HungUp(c) /\ <<ConnectionClosed(c)>>_fullVars => over'
  BY DEF ReplyArrives, ConnectionClosed, Away, ReturnResponse, CallFails, LoadGoesOn,
     FullInv, CInv, SysTypeOK
<1>5. FullSpec /\ ServersServe(c) => (CanReply(c) ~> over)
  BY <1>3, <1>4, FullInvariance, PTL DEF FullSpec, ServersServe, FullServed
<1>6. FullSpec /\ ServersServe(c) => (HungUp(c) ~> over)
  BY <1>3, <1>4, FullInvariance, PTL DEF FullSpec, ServersServe, FullServed
<1>7. Tasks!Spec /\ Tasks!TasksServe(c) => Tasks!HandlerSettles(c)
  BY PeriodicType, Tasks!HandlerEnds
<1>8. FullSpec /\ WrapperServes(c) => (handler[c] \in Tasks!HandlerOpen ~> done)
  BY <1>7, TasksInFull, TasksServed, FullInvariance, PTL DEF Tasks!HandlerSettles
<1>9. FullInv /\ done /\ ~over => CanReply(c) \/ HungUp(c)
  BY <1>2
<1> QED
  BY <1>2, <1>5, <1>6, <1>8, <1>9, FullInvariance, PTL

(* A step without the wrapper is one that System sees.                     *)
LEMMA AwaySteps ==
  ASSUME NEW ACTION step, <<Away(step)>>_fullVars
  PROVE  <<step>>_sysVars
BY DEF Away, fullVars

LEMMA ArrivalSeen ==
  ASSUME FullInv, NEW c \in Clients, PromptArrives(c)
  PROVE  <<Forward(c)>>_sysVars
<1>1. caller[c] # "asking"
  BY DEF PromptArrives, FullInv, CInv, Control
<1>2. Forward(c)
  BY <1>1 DEF PromptArrives, Forward, Tasks!Arrive, Prompts!Ask
<1>3. load' # load
  BY DEF PromptArrives, LoadGoesOn, FullInv, CInv, SysTypeOK
<1> QED
  BY <1>2, <1>3 DEF sysVars, loadVars

LEMMA PromptServedInFull ==
  ASSUME NEW c \in Clients
  PROVE  FullSpec /\ ServersServe(c) /\ WrapperServes(c) => PromptServed(c)
<1>1. <<Away(ReadMode(c))>>_fullVars => <<ReadMode(c)>>_sysVars
  BY AwaySteps
<1>2. <<Away(AskVerdict(c))>>_fullVars => <<AskVerdict(c)>>_sysVars
  BY AwaySteps
<1>3. <<Away(ShowAnswer(c))>>_fullVars => <<ShowAnswer(c)>>_sysVars
  BY AwaySteps
<1>4. <<Away(TimeOut(c))>>_fullVars => <<TimeOut(c)>>_sysVars
  BY AwaySteps
<1>5. FullInv /\ <<PromptArrives(c)>>_fullVars => <<Forward(c)>>_sysVars
  BY ArrivalSeen
<1>6. FullInv /\ load[c] = "read" => CanArrive(c)
  BY DEF FullInv, CInv, Control, Views, View, Tasks!IInv, Tasks!Good, Tasks!Stopping, Tasks!Calls,
     CanArrive, Tasks!Quiet, Tasks!HandlerOpen, Tasks!ProfilerOver
<1> QED
  BY <1>1, <1>2, <1>3, <1>4, <1>5, <1>6, ReplyComes, FullInvariance, PTL
  DEF ServersServe, PromptServed, FullServed, SysServed

(* Every prompt comes to an end at its client, now with the wrapper's own  *)
(* tasks in its way: the load server waits for the handler, the handler    *)
(* for the model and the profiler, the profiler for the service, which     *)
(* waits for none of them, and whoever dies has hung up.                   *)
THEOREM EveryPromptSettlesInFull ==
  ASSUME EnoughSessions
  PROVE  FullFairSpec /\ []FullGuardsAreEnough => PromptSettled
<1>1. ASSUME NEW c \in Clients
      PROVE  FullFairSpec /\ []FullGuardsAreEnough =>
               (client[c] = "prompting" ~> client[c] \in Done)
  <2>1. SysSpec /\ PromptServed(c) => (client[c] = "prompting" ~> client[c] \in Done)
    BY EnoughSessions, PromptEnds
  <2> QED
    BY <2>1, FullFairnessServes, PromptServedInFull, SystemInFull, PTL DEF FullFairSpec
<1> QED
  BY <1>1 DEF PromptSettled

(* And what the service keeps of a prompt goes away with it, unless its    *)
(* client failed before it asked.                                          *)
THEOREM SessionsComeBackInFull ==
  ASSUME OwnUserIDs, EnoughSessions
  PROVE  FullFairSpec /\ []FullGuardsAreEnough => SessionsReclaimed
<1>1. ASSUME NEW c \in Clients
      PROVE  FullFairSpec /\ []FullGuardsAreEnough =>
               (pending[UserOf[c]] # NoSession ~> pending[UserOf[c]] = NoSession \/ Unasked(c))
  <2>1. SysSpec /\ PromptServed(c) =>
          (pending[UserOf[c]] # NoSession ~> pending[UserOf[c]] = NoSession \/ Unasked(c))
    BY OwnUserIDs, EnoughSessions, SessionComesBack
  <2> QED
    BY <2>1, FullFairnessServes, PromptServedInFull, SystemInFull, PTL DEF FullFairSpec
<1> QED
  BY <1>1 DEF SessionsReclaimed

==============================================================================
