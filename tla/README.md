# Verification of Trust Me Bro

TLA+ models of the path of a prompt through client, load server, wrapper and
verification service, of the service's statistical test and of the hardware archive,
model-checked with TLC and proved with TLAPS. Paths are relative to the repository root.

## 1. The system

A prompt travels `utils.py`/`tui.py` → load server → wrapper → model. While the
model runs, the wrapper sends GPU readings for the prompt's userID to the
verification service (`/metrics`), then `/finished`. The client asks the same
service for the verdict (`/clientRequest`), which the service releases once it
has compared the averaged readings with a reference of the model. A hardware
archive (TPM quote, boot and measurement logs) is exported and verified at the
end of `/finished`.

| Component | State it keeps | Operations | What makes it correct |
|---|---|---|---|
| verification service, `tmb-server/tmb.py` | `pendingRequests` (userID → session with event, cache, verdict); suspended handlers with their own reference to a session; `<model>_storage.csv` | `/clientRequest`, `/metrics`, `/finished`; the six-second timer | a caller is told the verdict on its own evidence, once, or times out; no lost wake-up; references learn only from grace-period or accepted samples |
| statistical verdict, `tmb-server/*.c` | buffer of at most 200 rows | read the CSV, fit, infer | reads every row up to the capacity; total on the inputs the service gives it |
| wrapper, `wrapper/src/main.rs` | per request: model task, profiling task, stop channel | forward, sample every second, final sample and `/finished` after the reply | `/finished` after all metrics, before the reply; every request is answered |
| load server, `llm-server/server.py` | response mode | submit, switch mode; "skimp" replaces the model | a prompt is profiled as one model, the one it was forwarded with; the reply waits for the wrapper's |
| clients, `utils.py`, `client/`, `tui.py` | messages | prompt, then ask for the verdict; a userID per request (tui) or one for all (utils: `"id 1"`) | the verdict shown is the one of that prompt; every prompt ends |
| archive exporter, `verifier/scripts/export_signature.sh` | — | copy logs, quote, copy the measurement log | an honest machine's archive verifies although the log grows meanwhile |
| archive verifier, `verifier/full_verify.py` | PCR banks, set of matched PCRs, latest file hashes | replay, compare with the quote, check audit files | accepts only logs the quote covers |
| earlier verifiers, `verifier/ima_verification.py`, `boot_verification.py` | PCR banks | replay a log, print the PCRs | what is printed is the machine's PCR |
| launcher, `launcher.py` | — | load server and service as threads of one process | they may end together at any moment |
| `wrapper/server.c`, `llm-server/metrics_analyzer.c`, `tmb-server/tmb.go` | — | — | not modelled, see section 7 |

Interactions: HTTP between all of them; the clients' `/clientRequest` and the
wrapper's `/metrics` and `/finished` meet in the session of a userID. The hard
behaviours are the interleaving of suspended `/clientRequest` handlers with the
other two, the timer, a response mode shared by all prompts, failures of one of
four programs while the others go on, state kept across an `await`, restarts of a service whose
sessions are in memory and whose references are on disk, and a log that grows
while it is exported. `PROJECT.json` lists each hazard at its line.

## 2. Modules

| Module | Role |
|---|---|
| `TmbServer` | the verification service: state, one action per handler outcome, properties, refinement mapping |
| `VerdictService` | what the service promises when each request has its own userID: one box per userID |
| `MCTmbServer` | constants for TLC |
| `TmbServerProofs` | inductive invariant; types, separation, evidence first, no lost wake-up; liveness of the handlers |
| `TmbBoxProofs` | `TmbServer` implements `VerdictService`, fairness included; `/finished` wakes the waiter |
| `TmbReferenceProofs` | verdicts and reference files |
| `Wrapper` | `main.rs`: the tasks of each prompt, their channel, calls and failures |
| `PromptService` | what the wrapper promises caller and service, whatever its tasks do |
| `MCWrapper` | constants for TLC |
| `WrapperProofs` | inductive invariant; all safety properties, the refinement, liveness |
| `Archive` | `export_signature.sh` on a machine that goes on, and `full_verify.py` on what it took; what `ima_verification.py` prints |
| `ArchiveProofs` | inductive invariant; all safety properties |
| `System` | clients and load server, composed with `TmbServer` and with the wrapper as `PromptService` |
| `PromptVerdict` | what the whole system promises whoever sends a prompt |
| `MCSystem` | constants for TLC |
| `SystemProofs` | the parts in the system; inductive invariant; all safety properties, the refinement, liveness |
| `FullSystem` | `System` with the tasks of `Wrapper` in the place of `PromptService` |
| `MCFullSystem` | constants for TLC |
| `FullSystemProofs` | `FullSystem` implements `System`, and its wrapper is `Wrapper`; the end-to-end theorems |
| `StatsVerify` | `stats_verify`: reading the reference, the split of the power readings, the verdict |
| `StatsVerifyProofs` | inductive invariant; buffer bound, what is read, median split |

### How `TmbServer` corresponds to `tmb.py`

A coroutine runs without interruption to its next `await`. `/metrics` and
`/finished` have none, so each call is one step: `Metrics`, and one action per
exit of `/finished` (`FinishRefused`, `FinishNoReference`, `FinishGrace`,
`FinishNotBuilt`, `FinishNotRun`, `FinishVerdict`). `/clientRequest` suspends in
`wait_for(event.wait(), 6)`: `ClientRequest` runs up to it, `Resume` and
`Expire` run from it to the end, including the `finally` that pops the userID.
`TimerFires` is the timer cancelling the wait. It may still win after `set()`
has resolved the waiter, when both happen in one iteration of the event loop
(`/finished` blocks the loop for as long as gcc and the verifiers run, so this
is not rare); a handler that found the event already set does not wait at all
and cannot time out.

Sessions are objects: `pending` is the dictionary, `held[c]` the local variable
`session` of a suspended handler, and both refer to an element of `Sessions`.
An object with no reference left is collected (`Collect`) and its identity is
used for a new one. `rows[m]` is the length of the model's CSV file, `NoFile` if
it is missing or blank. The grace period ends by `DataFrame.size`, which counts
cells: `Columns * rows[m] <= GraceCells`. `Crash` loses memory and connections;
`CrashInSave` also leaves the file truncated that `to_csv` was writing (the file
is smaller than one write, so nothing of it is there or all of it).

Abstracted: the readings and averages (the verdict of `stats_verify` is any
Boolean), which row a full reservoir overwrites, request validation, logging.
A cached sample carries the userID it came with, which the code does not store;
only the property `EvidenceIsOwn` reads it. The archive's validity is any
Boolean as well.

### How `Wrapper` corresponds to `main.rs`

`push_handler` spawns `call_model` and `nvidia` and awaits them in turn; tokio
may run the three in parallel, so they take steps of their own between awaits.
`handler` stands at one of the handler's awaits: of the model (`calling`), of the
profiler after the stop was sent (`stopping`), of the response's body
(`reading`). `profiler` stands at those of `nvidia`: `asleep` in `select!`,
`sampling` up to the request it sends, `posting` until that is answered, the
same with `last_` for the sample after the stop, `closing` and `finishing` for
`/finished`. When both branches of `select!` are ready it takes either
(`WakeToSample`, `WakeToStop`); a stop that is there when the loop starts again
is taken at once, because the new sleep is not over when it is first polled
(`Loop`).

A failed `unwrap()` panics its task (`Panic`, `ModelEnds`, `ReadBody`); the
handler ignores how the profiler ended (`Respond`), and turns a panic of
`call_model` into 500. A caller that closes its connection drops the handler at
its await, and with it the sender of the channel, so that the receiver resolves;
the spawned tasks run on (`Disconnect`; that hyper does so is external). A call
may fail before or after the service has handled it (`Break`), and a killed
wrapper may leave a call behind that is handled later (`Crash`).

Abstracted: what tegrastats prints, the contents of messages, the trace's format.
A slot of `Requests` serves one prompt after the other.

### How `System` corresponds to `tui.py`, `utils.py`, `server.py`, `launcher.py`

`System` extends `TmbServer`, so the service is there with all of its handlers, and
instantiates `PromptService` for the wrapper, which `Wrapper` implements
(`ImplementsPrompt`). A call is a step of both sides: `Report` is the wrapper's report
and the service's `/metrics`, `ReportFinished` the same for `/finished`.

`Clients` are the prompts. `client` is where `get_res` (`tui.py`) or the loop of
`client()` (`utils.py`) stands with one: at the call of the load server (`prompting`),
after it (`returned`), at `/clientRequest` (`asking`), or over: with an answer of
status 200 (`shown`), with another one, in which `['Verified']` is missing (`refused`), or
with an exception (`failed`). `load` is where the load server's handler stands,
which runs in a thread of its own: `submitted`, `read` once line 24 has read the mode,
`forwarded` while it waits for the wrapper. `used` is the handler's copy of the mode,
`mode` the one of the process, which `SwitchMode` may change at any moment.
`ModelSent` is what `handle_prompt_request` forwards; the wrapper reports it with
every sample.

Clients leave at any moment (`Leave`) without either server noticing; the call of the
wrapper fails (`CallFails`); a reply that is not JSON, such as the wrapper's 500, is an
exception (`ReturnResponse`). The load server and the service may end and start
again (`LoadDies`, `TmbDies`), one after the other when `launcher.py` runs them as
threads of one process. In all of these the wrapper may go on and report for a prompt
nobody waits for any more.

Abstracted: messages and responses; modes other than `normal` and `skimp`, which are like
`normal`. `Columns`, `ReservoirSize` and the rest are those of `TmbServer`.

### How `FullSystem` puts the wrapper into the system

`FullSystem` extends `System` and instantiates the wrapper (`Tasks`, with the clients as
its requests; `reported` and `finished` are the same variables in both). A step is one of
the wrapper alone (`Own`), one without it (`Away`), or one of both: the prompt
arrives (`PromptArrives`: `Forward` and `Arrive`), a call of the profiler is handled (`MetricsHandled`,
`FinishedHandled`), the reply reaches the load server (`ReplyArrives`) or it finds the connection
closed (`ConnectionClosed`). An empty 500 is not JSON, so a `failed` handler is an
exception for the client.

`caller` is here what the load server knows. The handler may have replied
while the reply is on its way, its connection may be closed before the load server
notices, and the load server may have died while handler and profiler go on; `Disconnect`
and `CallFails` are therefore separate steps. `Periodic` leaves the last report of
`MaxReports` to the sample after the stop.

### How `Archive` corresponds to exporter and verifier

The kernel's part is external: it appends to the measurement log and extends a
PCR with each entry, into PCR 11 when a file is opened for writing and into PCR
10 when root reads as group evtlogger (`verifier/scripts/ima-scripts`). A file
that is open for writing and read, as audit.log always is, causes a violation,
logged with zeros and extended with ones. `Activity`, `AuditGrows`, `Edit`,
`MeasureByHand` and `Reboot` may happen at any moment.

The exporter is one action per thing it reads: `cp` of a file makes the kernel
hash it at `open` (`OpenAudit`, `MeasureAudit`, `OpenRules`) and reads it later
(`CopyAudit`, `CopyRules`); then `Quote`, then `CopyLog`. The verifier is one
action per entry of the archived log and outcome of the loop's body (`SkipEntry`,
`IllegalEdit`, `Replay`), between `CheckBoot` and `Decide`. A failed assertion
or a missing key rejects.

Hashes are injective: a digest is what was measured, a PCR the sequence of its
digests. The audit log only grows, so its contents are its length, and `AuditAttested`
(some prefix of lines has the latest hash) compares lengths. `audit.rules` is a
version. The archive is the exporter's own: boot logs are consistent with the
quote and its signature verifies, which leaves of lines 94-179 the command line
that line 150 looks for. `archive.quotedAt` is read by properties only.

`ima_verification.py` is a function of a log: `Printed` is the sequence of digests its
PCR 10 is extended with.

### How `StatsVerify` corresponds to `stats_verify.c` and `powerdraw/utils.c`

One action per iteration and exit of the loop in `DataBufferRead` (`SkipHeader`,
`SkipBlank`, `StoreRow`, `Overflow`, `EndOfFile`), and of the loop that splits
the sorted readings at the median (`SplitLow`, `SplitHigh`). `Sort` is what
`qsort` promises: some ordered permutation. A line is blank, or is its third
field, which may be missing; readings are integers and medians are kept doubled, so
that the mean of two readings is exact. The program runs alone on one file;
`tmb.py` sees its last character only.

Abstracted: the other two columns, the beta fits (any result from two rows on) and
the densities (any result where they are defined, which `PowerFitDefined` says;
elsewhere the comparison with NaN is false). A missing file, a failed `malloc`
and lines of more than 255 characters are left out.

### Properties

Of `TmbServer`:

- `EvidenceIsOwn`: a session referred to for a userID holds samples of that
  userID only, in spite of references that outlive dictionary entries.
- `VerdictHasEvidence`: release only after evidence, verdict only with release.
- `NoMissedSignal`: nobody sleeps on an event that is set.
- `ReleasedMeansAwake`: once the listed session of a userID is released, no
  caller of that userID sleeps. True with own userIDs, false with a shared one.
- `VerdictNeedsReference`: a live verdict rests on a reference past its grace
  period, which no later sampling takes back.
- `LearnsOnlyAccepted` (action property): references change by one row, up to
  `reservoir_size`, for a grace-period or accepted session, or by a cut-off save. The
  accepting verdict may be one of an earlier `/finished`, as `tmb.py:254` looks at the
  session also after a run that failed.
- `RequestAnswered` (liveness).
- `AskedIsReclaimed` (liveness): a session that a request refers to is listed in
  `pendingRequests` no longer in the end. It says nothing of sessions nobody asks for,
  which stay for ever.
- `ImplementsBox`, `ImplementsFairBox`: the refinement. In `VerdictService` a
  box is empty, holds evidence, or holds a verdict; an answer empties it. So the
  verdict a caller is told was released for its own userID after evidence came,
  is the latest, has not been told before and did not survive a restart.

Of `Wrapper`:

- `TraceCoversService`: the trace has all the service has handled, whatever fails.
- `ProfilingSpansModel`: `/finished` is not sent while the model runs, unless the
  caller has gone away.
- `AnswerAfterFinished`: when the caller has its answer the service has handled
  `/finished`, or the profiler has panicked (then the reply comes without it).
- `PromptStop`: at most one periodic sample begins after the stop.
- `NobodyStuck`: no circular wait. A profiler lacks its stop only while the handler
  awaits the model, and a stopped one can go on or has a call under way.
- `PromptAnswered`, `ProfilingEnds` (liveness), if the service answers or its
  connections break: a service that hangs holds the reply for ever, as no call in
  `main.rs` has a timeout.
- `ImplementsPrompt`: the service sees reports, then at most one `/finished`, never
  as the first thing, and nothing of a prompt that is answered.

Of `Archive`:

- `AcceptedIsUnedited`: accepted machines were booted with the policy and no
  protected file was opened for writing before the quote. The edit may be
  anywhere in a log that goes on after the quote, and the verifier stops looking
  at a PCR by the moment its value matches.
- `HonestIsAccepted`: the reverse, no false alarm, although the audit log grows
  between its hash and its copy and the log grows (by edits, too) after the quote.
- `ReplayIsQuoted`: no PCR is replayed beyond its quoted value.
- `LatestIsQuoted`: the hashes compared with come from the quoted part of the log.

- `PrintedIsPcr10`: `ima_verification.py` prints the machine's PCR 10 as long as the
  log names no other PCR and has no violation, and never again after that.

Of `System`, with a userID of its own for each prompt, as in `tui.py`:

- `OneModelPerSession`: all samples of a session name the model the prompt was
  forwarded with, however the mode is switched meanwhile.
- `NoLateVerdict`: the verdict is there when the client asks, or it never comes. Four
  programs keep this together: the service sets the event before it answers
  `/finished`, the profiler waits for that answer, the wrapper for the profiler,
  the load server for the wrapper, the client for the load server.
- `NothingLeftBehind`: a prompt whose request was answered, its client still there or not,
  leaves no session in `pendingRequests`, nor does a late report of it make a new one.
- `NobodyStuck`: nobody waits for a connection whose other end is gone or waits for
  him. TLC's deadlock check cannot see that, since the rest of the system goes on.
- `PromptSettled` (liveness): every prompt ends at its client, though by 408 or an
  exception if profiling fails.
- `SessionsReclaimed` (liveness): what the service keeps of a prompt goes away, unless its
  client never came to ask (`Unasked`). `get_res` asks once, under a new uuid4, and not
  at all if `send_prompt_request` raises (`tui.py:129-143`); the sessions of such prompts stay.
- `KeepsPromise`: the refinement. In `PromptVerdict` a prompt is judged at most once,
  and shown as it was judged; what fails can only lose a verdict.

Of `StatsVerify`:

- `TypeOK` bounds the rows by the capacity, which is tested before the header is
  known to be one.
- `WholeReference`: what is fitted is the first 200 rows of the file, whatever
  blank lines are between them.
- `ModesHalve`: the two phases share all readings, the lower is not the smaller.
- `UpperModeEmpty`: the upper phase is empty just if the upper half is all equal.
  The reference `tmb-server/b_storage.csv` is one of equal readings.
- `DistinctIsFitted`: four different readings, the least a verdict is asked of,
  make the density of both phases defined.

Definitions marked "Fault" are single changes to the definition that follows
them, of the kind a plausible edit of the code would make. `PROJECT.json` pairs
each with the property that detects it. They are part of no specification.

## 3. Runs

| Configuration | Question | Bounds |
|---|---|---|
| `TmbShared` | two requests with one userID, while another userID sends metrics: safety, and is every request answered, stranded ones included | 2 callers, 2 userIDs, 3 sessions, 1 sample per session |
| `TmbOwnIds` | with a userID per request: refinement, liveness included, wake-up, do sessions that were asked for go away | 2 callers, 2 samples per session, `reservoir_size` 4 |
| `TmbLearning` | verdicts and references; two models in one session | `reservoir_size` 10, 3 columns, bound 10 as in the code; one reference with 3 rows, one with 9 |
| `Wrapper` | all safety properties and the refinement; are prompts answered, do profilers end | 2 prompts at a time, with 2 and 1 periodic samples |
| `System` | is a prompt's verdict its own, of one model, and there when its client asks; does every prompt end, and what is left of it | 2 prompts with 2 and 1 reports, 2 models, one in its grace period |
| `Archive` | does the verifier accept exactly the machines it should; what does the earlier script print | 7 log entries, 2 audit lines |
| `StatsVerify` | is the reference read whole, and split as the fit needs it | 6 lines, capacity 5, 4 different readings |
| `FullSystem` | can a prompt be shown as verified that ran on another model, with every step of the wrapper taken (`ClaimRequestedModel`) | 1 prompt with 2 reports |
| `Claim*` | five statements of the repository that the code does not keep (section 6) | as small as the counterexample needs |

Two callers are enough for every race in the code: a handler interferes with
others only through the dictionary entry of its userID and the session it holds.
Three sessions are the most that two callers and two userIDs can keep alive at
once when the callers share a userID (two entries and one orphan), two with own
userIDs, so creating a session is never blocked by the bound. One sample makes a
cache non-empty and gives the model name; the second one is the late sample,
which may name another model (`TmbLearning`, `TmbOwnIds`); `TmbShared`, where liveness is
checked with a shared userID, makes do with one. `MaxCache` bounds samples per session. The
references start at the ends of the two regimes (last row of grace, last row
before overwriting), so both are crossed. Symmetry permutes sessions and is used
in `TmbLearning` only, which has no liveness.

Prompts share nothing in the wrapper but its death, so two at a time show every
interaction. `MaxReports` bounds periodic samples of each prompt: two allow one
before and one after the stop, and the other prompt is there to interfere.

In `System` a prompt with two reports can have them before and after a switch of the
mode, or before and after a restart of the service; the other one shares the mode, the
references and the restarts with it. One prompt of a client follows the other, so
prompts at the same time are of different clients. The userIDs differ, so two sessions
are the most that can be alive. The reference of the cheap model is past its grace period and
the one of the requested model is not, which makes both kinds of answer reachable
in either mode. An export logs at least three entries after the boot
entry and the log of `Archive` may have seven, so that three more can come, at
any moments: an edit, activity in the same PCR and something after the quote. Two
lines allow the audit log to grow once, between any two steps. `Manual`, the stages
at which files are measured by hand, has in the run one before the audit log
is measured, one between hash and copy, and one after the quote; the remaining
ones, between copy and quote, are those of `ClaimAuditAttested`.

`StatsVerify` starts from every file up to one row more than the capacity (200 in
the code, 5 here): with odd and even numbers of readings, all patterns of ties, and
four different ones. The default of a missing field is a reading between others.

Deadlock is checked in all runs but that of `StatsVerify`, which is a program
that ends; the others never stop for good.

**Fairness.** It is stated per caller or prompt (`HandlerFair`, `TasksFair`,
`PromptFair`). `FairSpec`: weak fairness of `Resume`, `TimerFires` and `Expire` of
every caller, i.e. the event loop runs what is ready and time passes. No
fairness of callers, `/metrics` or `/finished`: nobody is assumed to ask, not even
once, so what is reclaimed is only what somebody asked for.

`Wrapper!FairSpec`: weak fairness of the steps of handlers and profilers (tokio
runs what is ready) and of `ModelEnds` and `ServiceStep`: model and service answer
or their connections fail. The last is an assumption about them, since no call
in `main.rs` has a timeout; the service runs gcc, two verifiers and sudo within
`/finished`. No fairness of callers, of the sleep, or of any one branch of
`select!`: a profiler may be stopped before it ever samples periodically.

`System!SysFairSpec`: weak fairness of the steps of the load server's handlers
(`ReadMode`, `Forward`), of the wrapper's reply (`ReturnResponse`; what `PromptAnswered`
of `Wrapper` gives), of a client that has its response and asks (`AskVerdict`), and of the
service's event loop (`ShowAnswer`, `TimeOut`). No fairness of reports, of `/finished`,
of clients that send prompts, of switches and of failures. A client asks at most once
per prompt, and one that has failed (`CallFails`, `LoadDies`, `Leave`, a reply that is not JSON)
never does.

`FullSystem!FullFairSpec`: the same of clients, load server and service, and that of `Wrapper`
for its tasks. In the place of the reply there is only that the load server notices a reply
(`ReplyArrives`) and a closed connection (`ConnectionClosed`).

`Archive` and `StatsVerify` have no liveness: they are loops over a file.

## 4. Proofs

`TmbServer`, for any number of callers, userIDs, models, sessions and samples, and any
reservoir size, column count and grace bound. The assumptions are
`ConstantsAssumption` (types of the constants; sentinels outside the data) and
`OwnUserIDs` where stated.

- `IInv` is the inductive invariant of `TmbServerProofs`. The type invariant is
  not inductive alone, since `Resume` reads the session a handler holds and must
  know there is one (`HandlersHold`). `EvidenceIsOwn` needs `Isolation` (no
  session is reachable for two userIDs), which holds because sessions are
  created from unowned identities only, `Owns` counting held references.
  Handlers that are awake know that their event is set.
  `TypeCorrect`, `Separation`, `EvidenceFirst` and `NoLostWakeup` follow.
- With `OwnUserIDs`, `Listed` (the dictionary lists the session each open
  handler holds) is inductive too. It gives `WaiterReleased` and makes the verdict
  `Resume` reads the one in the box. `Refinement` follows, one lemma per action,
  each saying how `Contents` of the users changes.
- `VerdictGrounded` adds `VerdictNeedsReference` to `IInv`; the arithmetic core is
  `GrownIsReady`. `LearningIsEarned` is an action property from the same
  invariant; a failed run that samples on an older verdict is covered by
  `VerdictHasEvidence`.

`WrapperProofs`, for any number of prompts and samples: the invariant says, prompt by
prompt, which states of handler, model, profiler and call go together. The
refinement needs from it that a call is on its way only while the caller waits or
has gone (`Respond` waits for the profiler), and that `/finished` follows the last
report. `StopIsPrompt` holds since a sample that begins after the stop ends in
`Loop`, which finds the stop.

`SystemProofs`, for any number of prompts, userIDs, models and reports:
`ServiceInSystem` and `WrapperInSystem` show that each step of the system is a step, or
none, of `TmbServer` and of `PromptService`, so that what is proved of the parts
carries over; they and `SystemTypes` need no assumption on userIDs. The others
assume `OwnUserIDs`. Their invariant `SInv` is `BoxInv` of `TmbBoxProofs`, the types,
and for each prompt `Control` and `Data`. `Control` says how client, handler, call and
`/clientRequest` stand to each other: a client that asks has an answered call, and then
the wrapper reports nothing any more. `Data` says what the service keeps of the
prompt: nothing before its call and after its request was answered, an event only if it is
finished, samples of its model only; a request that sleeps or has timed out has no
event, which stays so because its call is answered. `PromiseStep` maps each step to
`PromptVerdict`: only `ReportFinished` judges, and `FinishKeeps` says what it changes.

`FullSystemProofs`, under the same assumptions: `SystemInFull` and `TasksInFull` show that each
step of the composed system is one, or none, of `System` and of `Wrapper`. A prompt that
arrives is a `Forward` of System and an `Arrive` of Wrapper; a call that is handled is a `Report` of one
and a `ServeMetrics` of the other. What is needed for it is that a call under way belongs to a prompt
whose caller waits or is gone, that is not finished and, for `/finished`, has a report
(`CallsUnderWay`). That follows from the invariant of `WrapperProofs`, which is cited through
the instance and not proved again, and from `View`, which relates what the load server knows of its
call to where the handler is. `EndToEnd` collects what the parts' theorems then say
of the four programs together.

`ArchiveProofs`, for logs of any length and any moments of measuring by hand
(`NoFalseAlarm`: outside the window `Copied`). `History` says that PCRs only grow
along the log. From it: before the quote the PCR of the next entry cannot have
matched, for that entry makes it longer than it was and the quoted value is no
shorter (`SkippedAfterQuote`); so up to the quote the replay is at the PCRs the
machine had and skips nothing, and from there on it skips everything
(`Replaying`). `Taken` and `Covered` carry what was measured during the export
to the decision (`CleanPasses`). For the earlier script,
`Pcr10OfLog` says that PCR 10 has as many extensions as the log has entries just if the
log names no other PCR, and that they are the kernel's digests then; these differ
from the logged ones just at violations (`PrintsPcr10`). The theorems need no assumption on the order of activity; that the hashes are injective is in the model.

`StatsVerifyProofs`, for files of any length, any capacity and any integer
readings: `Prefix` says that phase 1 is a prefix of the sorted readings seen so far,
which needs that they are sorted; the type invariant alone does not give the
bounds of the counts. `MedianBounds` places the median between the reading in the
middle and the next greater one; the three properties of the split follow from it.

`WholeReference` rests on `RowStep` and `RowOrder`: what the loop has stored is the rows up
to the line it stands at, in order, and a line read is one row more or none. Its
statement counts rows with `Cardinality` and needs no recursion.

**Liveness.** Weak fairness speaks of `ENABLED`, which the prover treats as a black box.
So the proofs are about `Served(guard, step)`: if the guard holds from some point on,
the step is taken again and again. `GuardsAreEnough` (`SysGuardsAreEnough` in
`SystemProofs`, `FullGuardsAreEnough` in `FullSystemProofs`) says that each guard, written out as a state predicate, implies that its
step is enabled, and the theorems have the form
`FairSpec /\ []GuardsAreEnough => Property`. That the guards are enough can be read off the
actions, since their assignments can always be made and change the variables. Nothing else
is taken from the fairness of the specification; a proof fails if one of the steps is not
served.

- Service (`TmbServerProofs`): `HandlerMoves` says what any step makes of an open handler:
  it stays, wakes up, expires or is over. Asleep handlers stay so until the timer
  fires, awake ones until they resume; neither can be taken from them (`RequestSettles`).
  `Answered` follows, with shared userIDs as well. For `Reclaimed`, a handler refers to its
  session until it ends (`HeldMoves`); then its own entry is gone, and by `Isolation` no other one lists
  the session. `FairRefinement` (`TmbBoxProofs`) adds that a box is answered
  only for somebody who asks (`OnlyAskers`, the guard of `Reply`).
- Wrapper: `StepsLeft` counts the awaits between a stopped profiler and its end, 10 at
  most. The sample that is under way, the final one and `/finished` each wait for the service;
  every step of the profiler and every answer of the service lowers the count or ends the
  profiler, and nothing raises it (`StepsFall`, `StepTaken`). It needs `Calls` of the invariant: a profiler that waits has a call under
  way or a response. `ProfilerStops` gives `EveryProfilerEnds`, and `EveryPromptAnswered`
  as the handler waits for model, profiler and body, in this order. That the stop comes
  (`NoCircularWait`) is a safety property: the handler sends it or drops its sender.
- System: `PromptReturns` follows a prompt through the load server to the client,
  `AskerSettles` from there through `/clientRequest`. Both need `Control`: a prompting client
  has a prompt with the load server, which is forwarded just if the wrapper has it. It is
  inductive without `OwnUserIDs`, so `EveryPromptSettles` and `NobodyWaitsInVain` hold for
  shared userIDs, too. They assume `EnoughSessions`: the references of dictionary and
  handlers do not use up `Sessions`, as Python makes objects on demand. (The run of
  `System` has two sessions, enough for its own userIDs, as references coincide there.)
  `SessionsComeBack`, with `OwnUserIDs`, takes it from there: a handler whose client has gone
  settles as well (`RequestSettles`, by `LoopServedInSystem`), after an answer `Data` knows of no
  entry, and before a call there is none.

- Composed: `ReplyComes` is where `System` had to assume something. The handler of a
  forwarded prompt ends, by `HandlerEnds` of `WrapperProofs` through the instance; while the load server
  waits nothing takes its result away (`ReplyWaits`), and the load server notices
  either result. So the hypotheses of `PromptEnds` hold (`PromptServedInFull`), and
  `EveryPromptSettlesInFull` and `SessionsComeBackInFull` follow. `TasksServed` turns the fairness of the composed steps into that
  of the wrapper's own: a call of the profiler is handled by the service's step or broken.

All properties of the passing runs are theorems. `FullSystem` has no passing run, as two
prompts with all their tasks are too many states: its safety and liveness are proved only,
and its run shows that a prompt goes through all four programs to a verdict. Only model-checked, and by TLC on the small
instances only: that the fairness of the specifications itself, with `ENABLED`, gives the
liveness properties and `ImplementsFairBox`, without the hypotheses on guards.

## 5. Plan

Done, in this order: `TmbServer` with its refinement and proofs, `Wrapper`, `Archive`,
`StatsVerify`, `System`, which composes the first two with clients and load
server, and `FullSystem`, in which the wrapper takes its own steps. Possible next steps:

- the aggregation of the three inferences (section 6, last item) as a run of
  `StatsVerify`, once the code says which one it means;
- `System` with the shared userID of `client()` in `utils.py`, where a verdict may be
  another prompt's; `TmbShared` and `ClaimWaiterReleased` have the part of the service.

## 6. Disagreements between code and documents

- `ClaimWaiterReleased`: with one userID for all requests (`utils.py:101`),
  `/finished` does not release the waiter (`tmb.py:238`). Request 1 waits; it
  times out and pops the session request 2 has joined; metrics create another
  one; `/finished` sets that one's event.
- `ClaimAttested`: the client's verdict does not depend on the hardware archive
  (`README.md:15`).
- `ClaimReferenceCreated`: a missing reference is not created (`tmb.py:72`),
  because `tmb.py:182` reads it first.
- `ClaimAuditAttested`: `full_verify.py:248` says "audit log is not attested to!" of
  an audit log whose hash is quoted, if the file is measured by hand
  (`export_signature.sh:3-4`), with lines that came since, between its copy and the
  quote: line 245 compares with the latest measurement only.

- `ClaimRequestedModel`: a prompt shown as verified did not run on the model its client
  asked for (`README.md:16`). In mode `skimp` the load server replaces the model before it
  forwards the prompt (`server.py:70`); the reports carry the name of the cheap model, the
  service compares them with the reference of the cheap model, and nobody compares
  that name with the one in `/clientRequest`.

Not runs of their own, as the code shows them directly: metrics without a waiter are
no error (`tests/tmb_test.py:21`), metrics alone do not answer a request
(`tests/tmb_test.py:35-57`), and a prompt whose profiler has panicked is
answered although `/finished` was never sent (`main.rs:88`). `pendingRequests` keeps for ever
what was reported of a prompt that failed before `tui.py:143` (`SessionsReclaimed` excepts it). `tmb.py:230` says
of the number it reads "sums true + false, <= 1 means majority true", but
`stats_verify.c:89` prints the VRAM inference alone; the majority of line 88 is a
comment.

## 7. Not modelled

`boot_verification.py` computes the PCRs of a boot log and prints them; it compares them
with nothing, and its loop is also in `full_verify.py`. Of `launcher.py` the starting of
processes and the ports are left out; the wrapper is given one model server's port per model
(`launcher.py:10`) but always connects to port 3222 (`main.rs:108`), so which model runs
depends on which one was started there, and no property here is about it.
`send_prompt_request_stream` is never called, and `client/client.py` never asks for a verdict.
`GET /mode` and the load server's `/metrics/` change nothing. The widgets of `tui.py` are layout.
`wrapper/server.c` lacks its headers and was replaced by `main.rs`. `metrics_analyzer.c`
posts to a service that is not here. `tmb.go` is an unused stub. The maximum-likelihood
fits iterate on floating-point numbers, which TLC cannot represent.
