------------------------------ MODULE TmbServer ------------------------------
(***************************************************************************)
(* The verification service tmb-server/tmb.py: one asyncio event loop, the *)
(* dictionary pendingRequests of session objects, the three HTTP handlers, *)
(* and the reference files <model>_storage.csv.                            *)
(*                                                                         *)
(* A handler runs without interruption up to its first await.  /metrics    *)
(* and /finished contain no await, so each is one action; /clientRequest   *)
(* suspends in asyncio.wait_for(event.wait(), 6) and is split there.  A    *)
(* suspended handler keeps its reference to the session object (its local  *)
(* variable `session`) whatever happens to the dictionary meanwhile, so    *)
(* sessions are objects with an identity; one that neither the dictionary  *)
(* nor a handler refers to is collected, and its identity is used again.   *)
(***************************************************************************)
EXTENDS Integers, Sequences

CONSTANTS
  Users,          \* the userIDs callers use
  Models,         \* the model names callers use
  Clients,        \* the callers of /clientRequest
  UserOf,         \* the userID each of them sends
  Sessions,       \* identities of session objects
  NoSession,      \* "userID not in pendingRequests"
  None,           \* Python's None
  NoFile,         \* a reference file that is missing or blank
  InitRows,       \* rows of each model's reference file at the start
  ReservoirSize,  \* tmb.py: reservoir_size (10)
  Columns,        \* columns of a reference file (3)
  GraceCells,     \* /finished: the bound on DataFrame.size (10)
  MaxCache        \* bound of the model: samples cached in one session

ASSUME ConstantsAssumption ==
  /\ UserOf \in [Clients -> Users]
  /\ NoSession \notin Sessions
  /\ None \notin BOOLEAN
  /\ NoFile \notin Nat
  /\ InitRows \in [Models -> Nat \cup {NoFile}]
  /\ ReservoirSize \in Nat \ {0}
  /\ Columns \in Nat \ {0}
  /\ GraceCells \in Nat
  /\ MaxCache \in Nat

VARIABLES
  pending,      \* pendingRequests: userID -> session object
  sessions,     \* the session objects
  state,        \* where each caller's /clientRequest handler stands
  held,         \* the local variable `session` of that handler
  reply,        \* the last answer of /clientRequest to each caller
  rows,         \* rows of each model's reference file
  finishReply   \* the last answer of /finished for each userID

vars == <<pending, sessions, state, held, reply, rows, finishReply>>

------------------------------------------------------------------------------

(* A cached sample: its model name, and the userID it came with, which the  *)
(* code does not store and only properties read.  Readings are abstracted.  *)
Samples == [userID : Users, model : Models]

Verdicts == BOOLEAN \cup {None}

SessionRecords == [event : BOOLEAN, cache : Seq(Samples), verification : Verdicts]

NewSession == [event |-> FALSE, cache |-> <<>>, verification |-> None]

(* HTTP answers; status 0 stands for "not answered". *)
Replies == [code : {0, 200, 400, 408, 500}, verified : Verdicts]

Answer(code, v) == [code |-> code, verified |-> v]

(***************************************************************************)
(* States of a /clientRequest handler:                                     *)
(*   waiting   suspended, its event is not set                             *)
(*   resolved  set() has resolved its future, the task is not yet resumed  *)
(*   ready     the event was already set when it arrived                   *)
(*   expired   the six-second timer has cancelled the wait                 *)
(***************************************************************************)
OpenStates == {"waiting", "resolved", "ready", "expired"}

Open(c) == state[c] \in OpenStates

(* The handler of c, or the dictionary entry of u, refers to s. *)
Owns(u, s) ==
  \/ pending[u] = s
  \/ \E c \in Clients : Open(c) /\ UserOf[c] = u /\ held[c] = s

(* Fault: an object is used again as soon as the dictionary drops it.      *)
UnownedByDictionary == {s \in Sessions : \A u \in Users : pending[u] # s}

Unowned == {s \in Sessions : \A u \in Users : ~Owns(u, s)}

(* "if userID not in pendingRequests: pendingRequests[userID] = {...}" *)
SessionFor(u) == IF pending[u] = NoSession THEN Unowned ELSE {pending[u]}

Contents(u) == IF pending[u] = NoSession THEN NewSession ELSE sessions[pending[u]]

(* Objects lose their contents with the last reference to them. *)
Collect ==
  sessions' = [s \in Sessions |->
                 IF \E u \in Users : Owns(u, s)' THEN sessions[s] ELSE NewSession]

------------------------------------------------------------------------------
(* The reference files. *)

(* The DataFrame.size of a reference counts cells, not rows. *)
InGrace(m) == Columns * rows[m] <= GraceCells

(* Fault: a full reference is started again instead of overwriting a row.  *)
RowsRestartWhenFull(m) ==
  IF rows[m] = NoFile \/ rows[m] >= ReservoirSize THEN 1 ELSE rows[m] + 1

(* reservoir_sampling: append a row, or overwrite one when there are enough. *)
RowsAfterSampling(m) ==
  IF rows[m] = NoFile THEN 1
  ELSE IF rows[m] >= ReservoirSize THEN rows[m] ELSE rows[m] + 1

Sample(m) == rows' = [rows EXCEPT ![m] = RowsAfterSampling(m)]

------------------------------------------------------------------------------
(* POST /clientRequest *)

Arrive(c, next) ==
  LET u == UserOf[c] IN
  /\ ~Open(c)
  /\ \E s \in SessionFor(u) :
       /\ pending' = [pending EXCEPT ![u] = s]
       /\ sessions' = [sessions EXCEPT ![s] = Contents(u)]
       /\ held' = [held EXCEPT ![c] = s]
  /\ state' = [state EXCEPT ![c] = next]
  /\ reply' = [reply EXCEPT ![c] = Answer(0, None)]
  /\ UNCHANGED <<rows, finishReply>>

(* Fault: the handler sleeps without looking whether the event is set.     *)
SleepAnyway(c) == Arrive(c, "waiting")

ClientRequest(c) ==
  Arrive(c, IF Contents(UserOf[c]).event THEN "ready" ELSE "waiting")

Respond(c, answer, entry) ==
  /\ state' = [state EXCEPT ![c] = "idle"]
  /\ held' = [held EXCEPT ![c] = NoSession]
  /\ reply' = [reply EXCEPT ![c] = answer]
  /\ pending' = [pending EXCEPT ![UserOf[c]] = entry]
  /\ Collect
  /\ UNCHANGED <<rows, finishReply>>

(* Faults: the entry is overwritten with None, or stays in the dictionary. *)
ReturnOverwriting(c, answer) == Respond(c, answer, None)

ReturnWithoutPop(c, answer) == Respond(c, answer, pending[UserOf[c]])

(* The handler answers and its `finally` removes the user's entry. *)
Return(c, answer) == Respond(c, answer, NoSession)

(* The task resumes and reads the verdict of the session it still refers to. *)
Resume(c) ==
  /\ state[c] \in {"resolved", "ready"}
  /\ Return(c, Answer(200, sessions[held[c]].verification))

Cancel(c) ==
  /\ state' = [state EXCEPT ![c] = "expired"]
  /\ UNCHANGED <<pending, sessions, held, reply, rows, finishReply>>

(* Faults: no timeout once there is data, or only for listed sessions.     *)
TimerFiresWithoutData(c) ==
  state[c] \in {"waiting", "resolved"} /\ sessions[held[c]].cache = <<>> /\ Cancel(c)

TimerFiresIfListed(c) ==
  state[c] \in {"waiting", "resolved"} /\ pending[UserOf[c]] = held[c] /\ Cancel(c)

(* The timer wins over a wake-up of the same iteration of the event loop. *)
TimerFires(c) == state[c] \in {"waiting", "resolved"} /\ Cancel(c)

(* Fault: the entry is removed only when there is a verdict to return.     *)
ExpireWithoutPop(c) ==
  /\ state[c] = "expired"
  /\ ReturnWithoutPop(c, Answer(408, None))

Expire(c) ==
  /\ state[c] = "expired"
  /\ Return(c, Answer(408, None))

------------------------------------------------------------------------------
(* POST /metrics *)

(* session["Cache"].append({...}) *)
WithSample(session, sample) ==
  [event |-> session.event, cache |-> Append(session.cache, sample),
   verification |-> session.verification]

Store(u, s, session) ==
  /\ pending' = [pending EXCEPT ![u] = s]
  /\ sessions' = [sessions EXCEPT ![s] = session]
  /\ UNCHANGED <<state, held, reply, rows, finishReply>>

(* Fault: every sample starts a session, listed or not.                    *)
MetricsStartAnew(u, m) ==
  \E s \in Unowned : Store(u, s, WithSample(NewSession, [userID |-> u, model |-> m]))

Metrics(u, m) ==
  /\ Len(Contents(u).cache) < MaxCache
  /\ \E s \in SessionFor(u) :
       Store(u, s, WithSample(Contents(u), [userID |-> u, model |-> m]))

------------------------------------------------------------------------------
(* POST /finished.  Each outcome of the handler is an action. *)

HasData(u) == pending[u] # NoSession /\ sessions[pending[u]].cache # <<>>

(* model = cache[0]["model"] *)
ModelOf(u) == Head(sessions[pending[u]].cache).model

HasReference(u) == HasData(u) /\ rows[ModelOf(u)] # NoFile

FinishReplies(u, code, v) ==
  finishReply' = [finishReply EXCEPT ![u] = Answer(code, v)]

(* Fault: the verdict is stored and nobody is told.                        *)
ReleaseSilently(s, v) ==
  /\ sessions' = [sessions EXCEPT ![s].verification = v]
  /\ UNCHANGED state

(* session["Verification"] = v; session["Event"].set() *)
Release(s, v) ==
  /\ sessions' = [sessions EXCEPT ![s] =
       [event |-> TRUE, cache |-> @.cache, verification |-> v]]
  /\ state' = [c \in Clients |->
                 IF state[c] = "waiting" /\ held[c] = s THEN "resolved" ELSE state[c]]

(* No session, or an empty cache: status 400. *)
FinishRefused(u) ==
  /\ ~HasData(u)
  /\ FinishReplies(u, 400, None)
  /\ UNCHANGED <<pending, sessions, state, held, reply, rows>>

(* pd.read_csv raises: status 500. *)
FinishNoReference(u) ==
  /\ HasData(u)
  /\ rows[ModelOf(u)] = NoFile
  /\ FinishReplies(u, 500, None)
  /\ UNCHANGED <<pending, sessions, state, held, reply, rows>>

(* Grace period: the sample becomes part of the reference, unverified. *)
FinishGrace(u) ==
  LET s == pending[u] IN
  /\ HasReference(u)
  /\ InGrace(ModelOf(u))
  /\ Release(s, sessions[s].verification)
  /\ Sample(ModelOf(u))
  /\ FinishReplies(u, 200, sessions[s].verification)
  /\ UNCHANGED <<pending, held, reply>>

(* pkg-config or gcc fails: the exception is returned as the response, or, *)
(* when there is no gcc to run, raised.                                    *)
FinishNotBuilt(u) ==
  /\ HasReference(u)
  /\ ~InGrace(ModelOf(u))
  /\ \E code \in {200, 500} : FinishReplies(u, code, None)
  /\ UNCHANGED <<pending, sessions, state, held, reply, rows>>

(* Fault: `finally` samples whatever the verdict is.                       *)
SampleAnyway(u) ==
  /\ HasReference(u)
  /\ ~InGrace(ModelOf(u))
  /\ Sample(ModelOf(u))
  /\ FinishReplies(u, 200, None)
  /\ UNCHANGED <<pending, sessions, state, held, reply>>

(* stats_verify fails: `finally` still looks at the verdict of the session. *)
FinishNotRun(u) ==
  /\ HasReference(u)
  /\ ~InGrace(ModelOf(u))
  /\ IF sessions[pending[u]].verification = TRUE
     THEN Sample(ModelOf(u))
     ELSE UNCHANGED rows
  /\ FinishReplies(u, 200, None)
  /\ UNCHANGED <<pending, sessions, state, held, reply>>

(* stats_verify printed v; full_verify.py then succeeds iff attested. *)
FinishVerdict(u, v, attested) ==
  /\ HasReference(u)
  /\ ~InGrace(ModelOf(u))
  /\ Release(pending[u], v)
  /\ IF v THEN Sample(ModelOf(u)) ELSE UNCHANGED rows
  /\ FinishReplies(u, 200, v /\ attested)
  /\ UNCHANGED <<pending, held, reply>>

Finish(u) ==
  \/ FinishRefused(u)
  \/ FinishNoReference(u)
  \/ FinishGrace(u)
  \/ FinishNotBuilt(u)
  \/ FinishNotRun(u)
  \/ \E v, attested \in BOOLEAN : FinishVerdict(u, v, attested)

------------------------------------------------------------------------------
(* The process dies and is started again: memory and open connections are  *)
(* gone, the reference files stay.                                         *)

LoseMemory ==
  /\ pending' = [u \in Users |-> NoSession]
  /\ state' = [c \in Clients |-> "idle"]
  /\ held' = [c \in Clients |-> NoSession]
  /\ Collect
  /\ UNCHANGED <<reply, finishReply>>

Crash == LoseMemory /\ UNCHANGED rows

(* It dies inside df.to_csv, which has truncated the file it rewrites. *)
CrashInSave(u) ==
  /\ HasReference(u)
  /\ LoseMemory
  /\ rows' = [rows EXCEPT ![ModelOf(u)] = NoFile]

------------------------------------------------------------------------------

Init ==
  /\ pending = [u \in Users |-> NoSession]
  /\ sessions = [s \in Sessions |-> NewSession]
  /\ state = [c \in Clients |-> "idle"]
  /\ held = [c \in Clients |-> NoSession]
  /\ reply = [c \in Clients |-> Answer(0, None)]
  /\ rows = InitRows
  /\ finishReply = [u \in Users |-> Answer(0, None)]

Next ==
  \/ \E c \in Clients : ClientRequest(c) \/ Resume(c) \/ TimerFires(c) \/ Expire(c)
  \/ \E u \in Users, m \in Models : Metrics(u, m)
  \/ \E u \in Users : Finish(u) \/ CrashInSave(u)
  \/ Crash

Spec == Init /\ [][Next]_vars

(***************************************************************************)
(* The event loop runs every ready callback and the clock moves on; nothing*)
(* is assumed of the callers or of /finished.                              *)
(***************************************************************************)
HandlerFair(c) == WF_vars(Resume(c)) /\ WF_vars(TimerFires(c)) /\ WF_vars(Expire(c))

Fairness == \A c \in Clients : HandlerFair(c)

FairSpec == Spec /\ Fairness

------------------------------------------------------------------------------
(* Properties *)

TypeOK ==
  /\ pending \in [Users -> Sessions \cup {NoSession}]
  /\ sessions \in [Sessions -> SessionRecords]
  /\ state \in [Clients -> OpenStates \cup {"idle"}]
  /\ held \in [Clients -> Sessions \cup {NoSession}]
  /\ reply \in [Clients -> Replies]
  /\ rows \in [Models -> Nat \cup {NoFile}]
  /\ finishReply \in [Users -> Replies]

(* The session a request refers to holds metrics of that request's userID  *)
(* only, although handlers keep references to sessions that the dictionary *)
(* has dropped or replaced (session = pendingRequests[userID]).            *)
EvidenceIsOwn ==
  \A u \in Users, s \in Sessions :
    Owns(u, s) => \A i \in 1..Len(sessions[s].cache) : sessions[s].cache[i].userID = u

(* A session is released only once metrics have arrived in it, and it has  *)
(* a verdict only if it was released: no caller is woken without evidence. *)
VerdictHasEvidence ==
  \A u \in Users, s \in Sessions : Owns(u, s) =>
    /\ sessions[s].event => sessions[s].cache # <<>>
    /\ sessions[s].verification # None => sessions[s].event

(* A verdict in a live session was computed against a reference that is    *)
(* past the grace period, and that reference still is: neither later       *)
(* samples of the session nor other users' sampling can undo it.           *)
VerdictNeedsReference ==
  \A u \in Users, s \in Sessions :
    Owns(u, s) /\ sessions[s].verification # None =>
      LET m == Head(sessions[s].cache).model IN rows[m] # NoFile /\ ~InGrace(m)

(* No caller sleeps on an event that has been set, whether /finished ran   *)
(* before its request, while it waited or between two of its steps.        *)
NoMissedSignal ==
  \A c \in Clients : state[c] = "waiting" => ~sessions[held[c]].event

(* When /finished has released the session of a userID, no caller with     *)
(* that userID is still asleep ("release clientRequest waiter").  Holds    *)
(* when every request has a userID of its own.                             *)
ReleasedMeansAwake ==
  \A c \in Clients : state[c] = "waiting" =>
    LET s == pending[UserOf[c]] IN s # NoSession => ~sessions[s].event

(* A reference changes only by one row, never beyond reservoir_size, and   *)
(* only for the model of a released session that is in grace or accepted;  *)
(* otherwise a save was cut short and the file is blank.                   *)
LearnsOnlyAccepted ==
  [][\A m \in Models : rows'[m] # rows[m] =>
       \/ rows'[m] = NoFile
       \/ /\ rows'[m] = rows[m] + 1
          /\ rows'[m] <= ReservoirSize
          /\ \E u \in Users :
               /\ HasData(u) /\ ModelOf(u) = m
               /\ sessions'[pending[u]].event
               /\ InGrace(m) \/ sessions'[pending[u]].verification = TRUE]_vars

(* Every /clientRequest is answered (or dies with the process).            *)
RequestAnswered == \A c \in Clients : Open(c) ~> ~Open(c)

(* A session that has been asked for is listed no longer in the end, even  *)
(* if its caller has gone, its verdict never came, or another request took *)
(* the entry meanwhile: finally pops the entry of the userID, and no other *)
(* entry lists the session.  (What nobody asks for stays for ever.)        *)
AskedIsReclaimed ==
  \A c \in Clients, s \in Sessions :
    held[c] = s ~> \A u \in Users : pending[u] # s

------------------------------------------------------------------------------
(* Refinement *)

(* What the service knows of u: the session the dictionary holds for it.   *)
BoxOf(u) ==
  LET session == Contents(u) IN
  [evidence |-> session.cache # <<>>, released |-> session.event,
   verdict |-> session.verification]

Abstract == INSTANCE VerdictService WITH
  box <- [u \in Users |-> BoxOf(u)],
  asking <- {c \in Clients : Open(c)},
  answer <- reply

(* With a userID of its own for each request the service is the box of     *)
(* VerdictService: every handler, timer race and restart of tmb.py is a    *)
(* step of it or changes nothing it can see.                               *)
ImplementsBox == Abstract!BoxSpec

(* Under the fairness of the event loop it also answers whoever asks.      *)
ImplementsFairBox == Abstract!BoxFairSpec

------------------------------------------------------------------------------
(* What the repository says of the service and the code does not do.       *)

(* README.md: hardware attestation is part of what Verified means, so a    *)
(* caller is told True only if /finished found the archive valid as well.  *)
VerifiedMeansAttested ==
  \A c \in Clients : reply[c].verified = TRUE => finishReply[UserOf[c]].verified = TRUE

(* tmb.py, reservoir_sampling: "create one if none exists".                *)
ReferenceIsCreated ==
  [][\A u \in Users : HasData(u) /\ finishReply'[u] # finishReply[u] =>
       rows'[ModelOf(u)] # NoFile]_vars

==============================================================================
