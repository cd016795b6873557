SPECIFICATION FairSpec
CONSTANTS
  r1 = r1
  r2 = r2
  Requests = {r1, r2}
  MaxReports <- TwoAndOne
INVARIANTS
  TypeOK
  TraceCoversService
  ProfilingSpansModel
  AnswerAfterFinished
  PromptStop
  NobodyStuck
PROPERTIES
  ImplementsPrompt
  PromptAnswered
  ProfilingEnds
