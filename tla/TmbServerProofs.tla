--------------------------- MODULE TmbServerProofs ---------------------------
(***************************************************************************)
(* Proofs about TmbServer, for any number of callers, userIDs, models,     *)
(* sessions and samples.  IInv is the inductive invariant: the type        *)
(* invariant, the fact that no session is referred to on behalf of two     *)
(* userIDs, and what the handlers know of the session they hold.           *)
(***************************************************************************)
EXTENDS TmbServer, TLAPS

(* No session object is reachable for two userIDs. *)
Isolation ==
  \A u, w \in Users, s \in Sessions : Owns(u, s) /\ Owns(w, s) => u = w

(* An open handler refers to a session; the event it is awake for is set.  *)
HandlersHold ==
  \A c \in Clients :
    /\ Open(c) => held[c] \in Sessions
    /\ state[c] \in {"resolved", "ready"} => sessions[held[c]].event

IInv ==
  /\ TypeOK
  /\ Isolation
  /\ HandlersHold
  /\ EvidenceIsOwn
  /\ VerdictHasEvidence
  /\ NoMissedSignal

(* What the invariant says of the references and of the owned sessions.    *)
References == Isolation /\ HandlersHold /\ EvidenceIsOwn /\ VerdictHasEvidence /\ NoMissedSignal

------------------------------------------------------------------------------

LEMMA InitIInv == Init => IInv
<1> SUFFICES ASSUME Init PROVE IInv
  OBVIOUS
<1> USE ConstantsAssumption DEF Init
<1>1. \A c \in Clients : ~Open(c)
  BY DEF Open, OpenStates
<1>2. \A u \in Users, s \in Sessions : ~Owns(u, s)
  BY <1>1 DEF Owns
<1>3. NewSession \in SessionRecords
  BY DEF NewSession, SessionRecords, Verdicts
<1>4. TypeOK
  <2>1. Answer(0, None) \in Replies
    BY DEF Answer, Replies, Verdicts
  <2> QED
    BY <1>3, <2>1 DEF TypeOK
<1>5. HandlersHold /\ NoMissedSignal
  BY <1>1 DEF HandlersHold, NoMissedSignal
<1> QED
  BY <1>2, <1>4, <1>5 DEF IInv, Isolation, EvidenceIsOwn, VerdictHasEvidence

(* Steps that only drop references: what is still referred to is as it was. *)
LEMMA DropReferences ==
  ASSUME TypeOK, References, Collect,
         \A u \in Users, s \in Sessions : Owns(u, s)' => Owns(u, s),
         \A c \in Clients : Open(c)' =>
           Open(c) /\ state'[c] = state[c] /\ held'[c] = held[c]
  PROVE  References' /\ sessions' \in [Sessions -> SessionRecords]
<1>1. \A u \in Users, s \in Sessions : Owns(u, s)' => sessions'[s] = sessions[s]
  BY DEF Collect
<1>2. \A c \in Clients : Open(c)' => held[c] \in Sessions /\ Owns(UserOf[c], held[c])'
  BY ConstantsAssumption DEF References, HandlersHold, Owns
<1>3. \A c \in Clients : Open(c)' => sessions'[held'[c]] = sessions[held[c]]
  BY <1>1, <1>2, ConstantsAssumption
<1>4. Isolation' /\ EvidenceIsOwn' /\ VerdictHasEvidence'
  BY <1>1 DEF References, Isolation, EvidenceIsOwn, VerdictHasEvidence
<1>5. HandlersHold' /\ NoMissedSignal'
  BY <1>2, <1>3 DEF References, HandlersHold, NoMissedSignal, Open, OpenStates
<1>6. NewSession \in SessionRecords
  BY DEF NewSession, SessionRecords, Verdicts
<1>7. sessions' \in [Sessions -> SessionRecords]
  BY <1>6 DEF Collect, TypeOK
<1> QED
  BY <1>4, <1>5, <1>7 DEF References


(* The session a request or a sample of u goes to is nobody else's, and    *)
(* has what the dictionary shows for u.                                    *)
LEMMA SessionForUser ==
  ASSUME TypeOK, References, NEW u \in Users, NEW s \in SessionFor(u)
  PROVE  /\ s \in Sessions
         /\ \A w \in Users : Owns(w, s) => w = u
         /\ \A w \in Users : Owns(w, s) => Contents(u) = sessions[s]
         /\ Contents(u) \in SessionRecords
         /\ \A i \in 1..Len(Contents(u).cache) : Contents(u).cache[i].userID = u
         /\ Contents(u).event => Contents(u).cache # <<>>
         /\ Contents(u).verification # None => Contents(u).event
<1> USE ConstantsAssumption
<1>1. NewSession \in SessionRecords
  BY DEF NewSession, SessionRecords, Verdicts
<1>2. CASE pending[u] = NoSession
  <2>1. s \in Sessions /\ \A w \in Users : ~Owns(w, s)
    BY <1>2 DEF SessionFor, Unowned
  <2> QED
    BY <1>1, <1>2, <2>1 DEF Contents, NewSession
<1>3. CASE pending[u] # NoSession
  <2>1. s = pending[u] /\ s \in Sessions /\ Contents(u) = sessions[s]
    BY <1>3 DEF SessionFor, Contents, TypeOK
  <2>2. Owns(u, s)
    BY <2>1 DEF Owns
  <2> QED
    BY <2>1, <2>2 DEF TypeOK, References, Isolation, EvidenceIsOwn, VerdictHasEvidence
<1> QED
  BY <1>2, <1>3

(* Giving u that session, with contents that are still u's, is harmless.   *)
LEMMA UseSession ==
  ASSUME TypeOK, References, NEW u \in Users, NEW s \in SessionFor(u),
         NEW r \in SessionRecords,
         \A i \in 1..Len(r.cache) : r.cache[i].userID = u,
         r.event => r.cache # <<>>,
         r.verification # None => r.event,
         r.event = Contents(u).event,
         pending' = [pending EXCEPT ![u] = s],
         sessions' = [sessions EXCEPT ![s] = r],
         \A c \in Clients :
           \/ state'[c] = state[c] /\ held'[c] = held[c]
           \/ /\ UserOf[c] = u /\ held'[c] = s
              /\ state'[c] = IF r.event THEN "ready" ELSE "waiting"
  PROVE  References'
<1> USE ConstantsAssumption
<1>1. s \in Sessions /\ \A w \in Users : Owns(w, s) => w = u /\ Contents(u) = sessions[s]
  BY SessionForUser
<1>2. sessions'[s] = r /\ \A t \in Sessions : t # s => sessions'[t] = sessions[t]
  BY <1>1 DEF TypeOK
<1>3. \A w \in Users, t \in Sessions : Owns(w, t)' => Owns(w, t) \/ (w = u /\ t = s)
  BY <1>1 DEF TypeOK, Owns, Open
<1>4. \A w \in Users : Owns(w, s)' => w = u
  BY <1>1, <1>3
<1>5. Isolation'
  BY <1>1, <1>3, <1>4 DEF References, Isolation
<1>6. EvidenceIsOwn' /\ VerdictHasEvidence'
  <2> SUFFICES ASSUME NEW w \in Users, NEW t \in Sessions, Owns(w, t)'
               PROVE  /\ \A i \in 1..Len(sessions'[t].cache) : sessions'[t].cache[i].userID = w
                      /\ sessions'[t].event => sessions'[t].cache # <<>>
                      /\ sessions'[t].verification # None => sessions'[t].event
    BY DEF EvidenceIsOwn, VerdictHasEvidence
  <2>1. CASE t = s
    BY <1>2, <1>4, <2>1
  <2>2. CASE t # s
    <3>1. Owns(w, t) /\ sessions'[t] = sessions[t]
      BY <1>2, <1>3, <2>2
    <3> QED
      BY <3>1 DEF References, EvidenceIsOwn, VerdictHasEvidence
  <2> QED
    BY <2>1, <2>2
<1>7. HandlersHold' /\ NoMissedSignal'
  <2> SUFFICES ASSUME NEW c \in Clients, Open(c)'
               PROVE  /\ held'[c] \in Sessions
                      /\ state'[c] \in {"resolved", "ready"} => sessions'[held'[c]].event
                      /\ state'[c] = "waiting" => ~sessions'[held'[c]].event
    BY DEF HandlersHold, NoMissedSignal, Open, OpenStates
  <2>1. CASE held'[c] = s /\ state'[c] = IF r.event THEN "ready" ELSE "waiting"
    BY <1>1, <1>2, <2>1
  <2>2. CASE state'[c] = state[c] /\ held'[c] = held[c]
    <3>1. Open(c) /\ held[c] \in Sessions /\ Owns(UserOf[c], held[c])
      BY <2>2 DEF Open, References, HandlersHold, Owns
    <3>2. sessions'[held[c]].event = sessions[held[c]].event
      BY <1>1, <1>2, <3>1
    <3> QED
      BY <2>2, <3>1, <3>2 DEF References, HandlersHold, NoMissedSignal
  <2> QED
    BY <2>1, <2>2
<1> QED
  BY <1>5, <1>6, <1>7 DEF References

(* Releasing the session the dictionary lists for u, which has evidence.   *)
LEMMA ReleaseSession ==
  ASSUME TypeOK, References, NEW u \in Users, NEW v \in Verdicts,
         HasData(u), Release(pending[u], v), UNCHANGED <<pending, held>>
  PROVE  /\ References'
         /\ sessions' \in [Sessions -> SessionRecords]
         /\ state' \in [Clients -> OpenStates \cup {"idle"}]
<1> DEFINE s == pending[u]
<1> USE ConstantsAssumption
<1>1. s \in Sessions /\ Owns(u, s) /\ sessions[s] \in SessionRecords
  BY DEF HasData, TypeOK, Owns
<1>2. /\ sessions'[s] = [event |-> TRUE, cache |-> sessions[s].cache, verification |-> v]
      /\ \A t \in Sessions : t # s => sessions'[t] = sessions[t]
  BY <1>1 DEF Release, TypeOK
<1>3. \A t \in Sessions : sessions'[t] \in SessionRecords /\ sessions'[t].cache = sessions[t].cache
  <2> SUFFICES ASSUME NEW t \in Sessions
               PROVE  sessions'[t] \in SessionRecords /\ sessions'[t].cache = sessions[t].cache
    OBVIOUS
  <2>1. CASE t = s
    <3>1. sessions[s].cache \in Seq(Samples)
      BY <1>1 DEF SessionRecords
    <3>2. [event |-> TRUE, cache |-> sessions[s].cache, verification |-> v] \in SessionRecords
      BY <3>1 DEF SessionRecords
    <3> HIDE DEF s
    <3> QED
      BY <1>2, <2>1, <3>2
  <2>2. CASE t # s
    BY <1>2, <2>2 DEF TypeOK
  <2> QED
    BY <2>1, <2>2
<1>4. sessions'[s].event = TRUE /\ sessions[s].cache # <<>>
  BY <1>1, <1>2 DEF SessionRecords, HasData
<1>5. \A c \in Clients : /\ state'[c] = "waiting" => state[c] = "waiting" /\ held[c] # s
                         /\ state'[c] # state[c] => state'[c] = "resolved" /\ held[c] = s
                         /\ Open(c)' <=> Open(c)
  BY DEF Release, Open, OpenStates
<1>6. \A w \in Users, t \in Sessions : Owns(w, t)' <=> Owns(w, t)
  BY <1>5 DEF Owns
<1>7. Isolation' /\ EvidenceIsOwn' /\ VerdictHasEvidence'
  BY <1>2, <1>3, <1>4, <1>6 DEF References, Isolation, EvidenceIsOwn, VerdictHasEvidence
<1>8. \A c \in Clients : Open(c) => held[c] \in Sessions
  BY DEF References, HandlersHold
<1>9. HandlersHold'
  <2> SUFFICES ASSUME NEW c \in Clients, Open(c)'
               PROVE  /\ held[c] \in Sessions
                      /\ state'[c] \in {"resolved", "ready"} => sessions'[held[c]].event
    BY DEF HandlersHold, Open, OpenStates
  <2>1. held[c] \in Sessions
    BY <1>5, <1>8
  <2>2. CASE held[c] = s
    BY <1>1, <1>4, <2>2
  <2>3. CASE held[c] # s
    BY <1>2, <1>5, <2>1, <2>3 DEF References, HandlersHold
  <2> QED
    BY <2>1, <2>2, <2>3
<1>10. NoMissedSignal'
  BY <1>2, <1>5, <1>8 DEF References, NoMissedSignal, Open, OpenStates
<1>11. sessions' \in [Sessions -> SessionRecords]
  BY <1>3 DEF Release, TypeOK
<1>12. state' \in [Clients -> OpenStates \cup {"idle"}]
  BY DEF Release, OpenStates, TypeOK
<1> QED
  BY <1>7, <1>9, <1>10, <1>11, <1>12 DEF References

LEMMA AnswerTypes ==
  /\ Answer(0, None) \in Replies
  /\ Answer(400, None) \in Replies
  /\ Answer(408, None) \in Replies
  /\ Answer(500, None) \in Replies
  /\ \A v \in Verdicts : Answer(200, v) \in Replies
BY DEF Answer, Replies, Verdicts

(* Sampling keeps the number of rows a natural number.                     *)
LEMMA SampleType ==
  ASSUME TypeOK, NEW m \in Models, Sample(m) \/ UNCHANGED rows
  PROVE  rows' \in [Models -> Nat \cup {NoFile}]
<1>1. RowsAfterSampling(m) \in Nat \cup {NoFile}
  BY ConstantsAssumption DEF RowsAfterSampling, TypeOK
<1> QED
  BY <1>1 DEF Sample, TypeOK

------------------------------------------------------------------------------
(* Each action preserves the invariant. *)

LEMMA ClientRequestStep ==
  ASSUME IInv, NEW c \in Clients, ClientRequest(c)
  PROVE  IInv'
<1> DEFINE u == UserOf[c]
<1>1. TypeOK /\ References /\ u \in Users
  BY ConstantsAssumption DEF IInv, References
<1>2. PICK s \in SessionFor(u) :
        /\ pending' = [pending EXCEPT ![u] = s]
        /\ sessions' = [sessions EXCEPT ![s] = Contents(u)]
        /\ held' = [held EXCEPT ![c] = s]
  BY DEF ClientRequest, Arrive
<1>3. /\ s \in Sessions
      /\ Contents(u) \in SessionRecords
      /\ \A i \in 1..Len(Contents(u).cache) : Contents(u).cache[i].userID = u
      /\ Contents(u).event => Contents(u).cache # <<>>
      /\ Contents(u).verification # None => Contents(u).event
  BY <1>1, SessionForUser
<1>4. \A d \in Clients :
        \/ state'[d] = state[d] /\ held'[d] = held[d]
        \/ /\ UserOf[d] = u /\ held'[d] = s
           /\ state'[d] = IF Contents(u).event THEN "ready" ELSE "waiting"
  BY <1>1, <1>2 DEF ClientRequest, Arrive, TypeOK
<1>5. References'
  <2> HIDE DEF u
  <2> QED BY <1>1, <1>2, <1>3, <1>4, UseSession
<1>6. TypeOK'
  BY <1>1, <1>2, <1>3, AnswerTypes DEF ClientRequest, Arrive, TypeOK, OpenStates
<1> QED
  BY <1>5, <1>6 DEF IInv, References

LEMMA ReturnStep ==
  ASSUME IInv, NEW c \in Clients, Open(c), NEW answer \in Replies, Return(c, answer)
  PROVE  IInv'
<1>1. TypeOK /\ References /\ UserOf[c] \in Users
  BY ConstantsAssumption DEF IInv, References
<1>2. \A d \in Clients : Open(d)' => d # c /\ Open(d) /\ state'[d] = state[d] /\ held'[d] = held[d]
  BY <1>1 DEF Return, Respond, Open, OpenStates, TypeOK
<1>3. \A u \in Users, s \in Sessions : Owns(u, s)' => Owns(u, s)
  BY <1>1, <1>2, ConstantsAssumption DEF Return, Respond, Owns, TypeOK
<1>4. References' /\ sessions' \in [Sessions -> SessionRecords]
  BY <1>1, <1>2, <1>3, DropReferences DEF Return, Respond
<1>5. TypeOK'
  BY <1>1, <1>4 DEF Return, Respond, TypeOK, OpenStates
<1> QED
  BY <1>4, <1>5 DEF IInv, References

LEMMA TimerStep ==
  ASSUME IInv, NEW c \in Clients, TimerFires(c)
  PROVE  IInv'
<1>1. TypeOK'
  BY DEF IInv, TypeOK, TimerFires, Cancel, OpenStates
<1>2. \A d \in Clients : (Open(d)' <=> Open(d)) /\ (state'[d] = state[d] \/ state'[d] = "expired")
  BY DEF TimerFires, Cancel, Open, OpenStates, IInv, TypeOK
<1>3. \A u \in Users, s \in Sessions : Owns(u, s)' <=> Owns(u, s)
  BY <1>2 DEF TimerFires, Cancel, Owns
<1>4. Isolation' /\ EvidenceIsOwn' /\ VerdictHasEvidence'
  BY <1>3 DEF TimerFires, Cancel, IInv, Isolation, EvidenceIsOwn, VerdictHasEvidence
<1>5. HandlersHold' /\ NoMissedSignal'
  BY <1>2 DEF TimerFires, Cancel, IInv, HandlersHold, NoMissedSignal
<1> QED
  BY <1>1, <1>4, <1>5 DEF IInv

LEMMA MetricsStep ==
  ASSUME IInv, NEW u \in Users, NEW m \in Models, Metrics(u, m)
  PROVE  IInv'
<1> DEFINE sample == [userID |-> u, model |-> m]
           r == WithSample(Contents(u), sample)
<1>1. TypeOK /\ References
  BY DEF IInv, References
<1>2. PICK s \in SessionFor(u) :
        /\ pending' = [pending EXCEPT ![u] = s]
        /\ sessions' = [sessions EXCEPT ![s] = r]
  BY DEF Metrics, Store
<1>3. /\ s \in Sessions
      /\ Contents(u) \in SessionRecords
      /\ \A i \in 1..Len(Contents(u).cache) : Contents(u).cache[i].userID = u
      /\ Contents(u).verification # None => Contents(u).event
  BY <1>1, SessionForUser
<1>4. /\ r \in SessionRecords
      /\ r.event = Contents(u).event /\ r.verification = Contents(u).verification
      /\ r.cache = Append(Contents(u).cache, sample)
      /\ Contents(u).cache \in Seq(Samples) /\ sample \in Samples
  BY <1>3 DEF SessionRecords, Samples, WithSample
<1>5. /\ r.cache # <<>>
      /\ \A i \in 1..Len(r.cache) : r.cache[i].userID = u
  BY <1>3, <1>4
<1>6. References'
  <2> HIDE DEF r
  <2> QED BY <1>1, <1>2, <1>3, <1>4, <1>5, UseSession DEF Metrics, Store
<1>7. TypeOK'
  <2> HIDE DEF r
  <2> QED BY <1>1, <1>2, <1>3, <1>4 DEF Metrics, Store, TypeOK
<1> QED
  BY <1>6, <1>7 DEF IInv, References

LEMMA FinishStep ==
  ASSUME IInv, NEW u \in Users, Finish(u)
  PROVE  IInv'
<1>1. TypeOK /\ References
  BY DEF IInv, References
<1>2. \A code \in {200, 400, 500}, v \in Verdicts :
        FinishReplies(u, code, v) => finishReply' \in [Users -> Replies]
  BY <1>1 DEF FinishReplies, Answer, Replies, TypeOK
<1>3. HasData(u) => /\ ModelOf(u) \in Models
                    /\ sessions[pending[u]].verification \in Verdicts
  <2> SUFFICES ASSUME HasData(u)
               PROVE  ModelOf(u) \in Models /\ sessions[pending[u]].verification \in Verdicts
    OBVIOUS
  <2>1. sessions[pending[u]] \in SessionRecords
    BY <1>1 DEF HasData, TypeOK
  <2>2. sessions[pending[u]].cache \in Seq(Samples) /\ sessions[pending[u]].cache # <<>>
    BY <2>1 DEF SessionRecords, HasData
  <2>3. Head(sessions[pending[u]].cache) \in Samples
    BY <2>2
  <2> QED
    BY <2>1, <2>3 DEF SessionRecords, Samples, ModelOf
<1>4. CASE UNCHANGED <<pending, sessions, state, held, reply>> /\ finishReply' \in [Users -> Replies]
             /\ rows' \in [Models -> Nat \cup {NoFile}]
  <2>1. \A w \in Users, s \in Sessions : Owns(w, s)' <=> Owns(w, s)
    BY <1>4 DEF Owns, Open
  <2> QED
    BY <1>1, <1>4, <2>1 DEF IInv, TypeOK, References, Isolation, HandlersHold, Open,
         EvidenceIsOwn, VerdictHasEvidence, NoMissedSignal
<1>5. ASSUME NEW v \in Verdicts, HasData(u), Release(pending[u], v),
             UNCHANGED <<pending, held, reply>>, finishReply' \in [Users -> Replies],
             rows' \in [Models -> Nat \cup {NoFile}]
      PROVE  IInv'
  <2>1. References' /\ sessions' \in [Sessions -> SessionRecords]
        /\ state' \in [Clients -> OpenStates \cup {"idle"}]
    BY <1>1, <1>5, ReleaseSession
  <2>2. TypeOK'
    BY <1>1, <1>5, <2>1 DEF TypeOK
  <2> QED
    BY <2>1, <2>2 DEF IInv, References
<1>6. CASE FinishRefused(u)
  BY <1>1, <1>2, <1>4, <1>6 DEF FinishRefused, Verdicts, TypeOK
<1>7. CASE FinishNoReference(u)
  BY <1>1, <1>2, <1>4, <1>7 DEF FinishNoReference, Verdicts, TypeOK
<1>8. CASE FinishGrace(u)
  <2>1. HasData(u) /\ Sample(ModelOf(u)) /\ Release(pending[u], sessions[pending[u]].verification)
    BY <1>8 DEF FinishGrace, HasReference
  <2>2. rows' \in [Models -> Nat \cup {NoFile}]
    BY <1>1, <1>3, <2>1, SampleType
  <2>3. finishReply' \in [Users -> Replies]
    BY <1>2, <1>3, <1>8, <2>1 DEF FinishGrace
  <2> QED
    BY <1>3, <1>5, <1>8, <2>1, <2>2, <2>3 DEF FinishGrace
<1>9. CASE FinishNotBuilt(u)
  BY <1>1, <1>2, <1>4, <1>9 DEF FinishNotBuilt, Verdicts, TypeOK
<1>10. CASE FinishNotRun(u)
  <2>1. rows' \in [Models -> Nat \cup {NoFile}]
    BY <1>1, <1>3, <1>10, SampleType DEF FinishNotRun, HasReference
  <2>2. finishReply' \in [Users -> Replies]
    BY <1>2, <1>10 DEF FinishNotRun, Verdicts
  <2> QED
    BY <1>4, <1>10, <2>1, <2>2 DEF FinishNotRun
<1>11. ASSUME NEW v \in BOOLEAN, NEW attested \in BOOLEAN, FinishVerdict(u, v, attested)
       PROVE  IInv'
  <2>1. HasData(u) /\ Release(pending[u], v) /\ v \in Verdicts
    BY <1>11 DEF FinishVerdict, HasReference, Verdicts
  <2>2. rows' \in [Models -> Nat \cup {NoFile}]
    BY <1>1, <1>3, <1>11, <2>1, SampleType DEF FinishVerdict
  <2>3. finishReply' \in [Users -> Replies]
    BY <1>2, <1>11 DEF FinishVerdict, Verdicts
  <2> QED
    BY <1>5, <1>11, <2>1, <2>2, <2>3 DEF FinishVerdict
<1> QED
  BY <1>6, <1>7, <1>8, <1>9, <1>10, <1>11 DEF Finish

LEMMA LoseMemoryStep ==
  ASSUME IInv, LoseMemory, rows' \in [Models -> Nat \cup {NoFile}]
  PROVE  IInv'
<1>1. TypeOK /\ References
  BY DEF IInv, References
<1>2. \A c \in Clients : ~Open(c)'
  BY DEF LoseMemory, Open, OpenStates
<1>3. \A u \in Users, s \in Sessions : ~Owns(u, s)'
  BY <1>2, ConstantsAssumption DEF LoseMemory, Owns
<1>4. References' /\ sessions' \in [Sessions -> SessionRecords]
  BY <1>1, <1>2, <1>3, DropReferences DEF LoseMemory
<1>5. TypeOK'
  BY <1>1, <1>4 DEF LoseMemory, TypeOK
<1> QED
  BY <1>4, <1>5 DEF IInv, References

LEMMA NextIInv == IInv /\ [Next]_vars => IInv'
<1> SUFFICES ASSUME IInv, [Next]_vars PROVE IInv'
  OBVIOUS
<1>1. TypeOK /\ HandlersHold
  BY DEF IInv
<1>2. ASSUME NEW c \in Clients, ClientRequest(c) PROVE IInv'
  BY <1>2, ClientRequestStep
<1>3. ASSUME NEW c \in Clients, Resume(c) PROVE IInv'
  <2>1. Open(c) /\ held[c] \in Sessions
    BY <1>1, <1>3 DEF Resume, Open, OpenStates, HandlersHold
  <2>2. sessions[held[c]].verification \in Verdicts
    BY <1>1, <2>1 DEF TypeOK, SessionRecords
  <2>3. Answer(200, sessions[held[c]].verification) \in Replies
    BY <2>2, AnswerTypes
  <2> QED
    BY <1>3, <2>1, <2>3, ReturnStep DEF Resume
<1>4. ASSUME NEW c \in Clients, TimerFires(c) PROVE IInv'
  BY <1>4, TimerStep
<1>5. ASSUME NEW c \in Clients, Expire(c) PROVE IInv'
  BY <1>5, ReturnStep, AnswerTypes DEF Expire, Open, OpenStates
<1>6. ASSUME NEW u \in Users, NEW m \in Models, Metrics(u, m) PROVE IInv'
  BY <1>6, MetricsStep
<1>7. ASSUME NEW u \in Users, Finish(u) PROVE IInv'
  BY <1>7, FinishStep
<1>8. ASSUME NEW u \in Users, CrashInSave(u) PROVE IInv'
  <2>1. rows' \in [Models -> Nat \cup {NoFile}]
    BY <1>1, <1>8 DEF CrashInSave, TypeOK
  <2> QED
    BY <1>8, <2>1, LoseMemoryStep DEF CrashInSave
<1>9. CASE Crash
  BY <1>1, <1>9, LoseMemoryStep DEF Crash, TypeOK
<1>10. CASE UNCHANGED vars
  <2>1. \A u \in Users, s \in Sessions : Owns(u, s)' <=> Owns(u, s)
    BY <1>10 DEF vars, Owns, Open
  <2> QED
    BY <1>10, <2>1 DEF vars, IInv, TypeOK, Isolation, HandlersHold, Open,
         EvidenceIsOwn, VerdictHasEvidence, NoMissedSignal
<1> QED
  BY <1>2, <1>3, <1>4, <1>5, <1>6, <1>7, <1>8, <1>9, <1>10 DEF Next

LEMMA Invariance == Spec => []IInv
BY InitIInv, NextIInv, PTL DEF Spec

------------------------------------------------------------------------------
(* Theorems *)

(* The variables keep the values the handlers of tmb.py give them: no      *)
(* handler reads a session it does not hold or overwrites one with less.   *)
THEOREM TypeCorrect == Spec => []TypeOK
BY Invariance, PTL DEF IInv

(* Metrics of one userID never reach a session on which a caller with      *)
(* another userID waits, for any interleaving of pops and re-creations.    *)
THEOREM Separation == Spec => []EvidenceIsOwn
BY Invariance, PTL DEF IInv

(* Nobody is woken, and no verdict stored, before evidence has come.       *)
THEOREM EvidenceFirst == Spec => []VerdictHasEvidence
BY Invariance, PTL DEF IInv

(* A caller never sleeps on an event that is set.                          *)
THEOREM NoLostWakeup == Spec => []NoMissedSignal
BY Invariance, PTL DEF IInv

------------------------------------------------------------------------------
(***************************************************************************)
(* Liveness.  ENABLED is beyond the prover, so the argument is about steps *)
(* whose guard is written out: one whose guard holds from some point on is *)
(* taken again and again.  The fairness of FairSpec says so if the guards  *)
(* suffice for ENABLED, which can be read off the actions: the assignments *)
(* of a step can always be made, and change vars.                          *)
(***************************************************************************)

Served(guard, step) == <>[]guard => []<><<step>>_vars

Awake(c) == state[c] \in {"resolved", "ready"}

Asleep(c) == state[c] \in {"waiting", "resolved"}

Expired(c) == state[c] = "expired"

LoopServes(c) ==
  Served(Awake(c), Resume(c)) /\ Served(Asleep(c), TimerFires(c)) /\ Served(Expired(c), Expire(c))

GuardsSuffice(c) ==
  /\ Awake(c) => ENABLED <<Resume(c)>>_vars
  /\ Asleep(c) => ENABLED <<TimerFires(c)>>_vars
  /\ Expired(c) => ENABLED <<Expire(c)>>_vars

GuardsAreEnough == \A c \in Clients : GuardsSuffice(c)

LEMMA FairnessServes ==
  ASSUME NEW c \in Clients
  PROVE  []GuardsAreEnough => (Fairness => LoopServes(c))
<1>1. Fairness => HandlerFair(c)
  BY DEF Fairness
<1>2. GuardsAreEnough => GuardsSuffice(c)
  BY DEF GuardsAreEnough
<1> QED
  BY <1>1, <1>2, PTL DEF GuardsSuffice, HandlerFair, LoopServes, Served

(* The request of c is over, and its userID's entry removed. *)
Settled(c) == ~Open(c) /\ pending[UserOf[c]] = NoSession

(* What a step makes of an open handler: it wakes up, expires or is over.  *)
LEMMA HandlerMoves ==
  ASSUME TypeOK, [Next]_vars, NEW c \in Clients, Open(c)
  PROVE  \/ state'[c] = state[c]
         \/ state[c] = "waiting" /\ state'[c] = "resolved"
         \/ Asleep(c) /\ Expired(c)'
         \/ Settled(c)'
<1> USE ConstantsAssumption
<1>1. ASSUME NEW d \in Clients, ClientRequest(d)
      PROVE  state'[c] = state[c]
  BY <1>1 DEF ClientRequest, Arrive, TypeOK
<1>2. ASSUME NEW d \in Clients, NEW answer, Return(d, answer)
      PROVE  state'[c] = state[c] \/ Settled(c)'
  <2>1. d # c => state'[c] = state[c]
    BY <1>2 DEF Return, Respond, TypeOK
  <2>2. d = c => state'[c] = "idle" /\ pending'[UserOf[c]] = NoSession
    BY <1>2 DEF Return, Respond, TypeOK
  <2> QED
    BY <2>1, <2>2 DEF Settled, Open, OpenStates
<1>3. ASSUME NEW d \in Clients, TimerFires(d)
      PROVE  state'[c] = state[c] \/ (Asleep(c) /\ Expired(c)')
  BY <1>3 DEF TimerFires, Cancel, TypeOK, Asleep, Expired
<1>4. ASSUME NEW u \in Users, NEW m \in Models, Metrics(u, m)
      PROVE  state'[c] = state[c]
  BY <1>4 DEF Metrics, Store
<1>5. ASSUME NEW u \in Users, Finish(u)
      PROVE  state'[c] = state[c] \/ (state[c] = "waiting" /\ state'[c] = "resolved")
  <2>1. ASSUME NEW s, NEW v, Release(s, v)
        PROVE  state'[c] = state[c] \/ (state[c] = "waiting" /\ state'[c] = "resolved")
    BY <2>1 DEF Release
  <2>2. CASE FinishRefused(u) \/ FinishNoReference(u) \/ FinishNotBuilt(u) \/ FinishNotRun(u)
    BY <2>2 DEF FinishRefused, FinishNoReference, FinishNotBuilt, FinishNotRun
  <2>3. CASE FinishGrace(u)
    BY <2>1, <2>3 DEF FinishGrace
  <2>4. ASSUME NEW v \in BOOLEAN, NEW attested \in BOOLEAN, FinishVerdict(u, v, attested)
        PROVE  state'[c] = state[c] \/ (state[c] = "waiting" /\ state'[c] = "resolved")
    BY <2>1, <2>4 DEF FinishVerdict
  <2> QED
    BY <1>5, <2>2, <2>3, <2>4 DEF Finish
<1>6. ASSUME LoseMemory PROVE Settled(c)'
  BY <1>6 DEF LoseMemory, Settled, Open, OpenStates
<1>7. CASE UNCHANGED vars
  BY <1>7 DEF vars
<1> QED
  BY <1>1, <1>2, <1>3, <1>4, <1>5, <1>6, <1>7
  DEF Next, Resume, Expire, Crash, CrashInSave

(* An open request is answered, and with that its userID's entry is gone.  *)
LEMMA RequestSettles ==
  ASSUME NEW c \in Clients
  PROVE  Spec /\ LoopServes(c) => (Open(c) ~> Settled(c))
<1>1. TypeOK => (Open(c) <=> Asleep(c) \/ state[c] = "ready" \/ Expired(c))
  BY DEF Open, OpenStates, Asleep, Expired
<1>2. TypeOK /\ Asleep(c) /\ [Next]_vars => Asleep(c)' \/ Expired(c)' \/ Settled(c)'
  BY HandlerMoves DEF Asleep, Open, OpenStates
<1>3. TypeOK /\ Asleep(c) /\ <<TimerFires(c)>>_vars => Expired(c)'
  BY DEF TimerFires, Cancel, TypeOK, Expired
<1>4. TypeOK /\ state[c] = "ready" /\ [Next]_vars => (state[c] = "ready")' \/ Settled(c)'
  BY HandlerMoves DEF Asleep, Open, OpenStates
<1>5. TypeOK /\ Open(c) /\ (\E answer : Return(c, answer)) => Settled(c)'
  BY ConstantsAssumption DEF Return, Respond, TypeOK, Settled, Open, OpenStates
<1>6. TypeOK /\ state[c] = "ready" /\ <<Resume(c)>>_vars => Settled(c)'
  BY <1>5 DEF Resume, Open, OpenStates
<1>7. TypeOK /\ Expired(c) /\ [Next]_vars => Expired(c)' \/ Settled(c)'
  BY HandlerMoves DEF Asleep, Expired, Open, OpenStates
<1>8. TypeOK /\ Expired(c) /\ <<Expire(c)>>_vars => Settled(c)'
  BY <1>5 DEF Expire, Expired, Open, OpenStates
<1>9. state[c] = "ready" => Awake(c)
  BY DEF Awake
<1> QED
  BY <1>1, <1>2, <1>3, <1>4, <1>6, <1>7, <1>8, <1>9, TypeCorrect, PTL
  DEF Spec, LoopServes, Served

(* Every /clientRequest is answered or dies with the process: whatever the *)
(* other callers, the metrics and the verdicts do meanwhile, neither the   *)
(* wake-up nor the timeout of a handler can be taken from it.              *)
THEOREM Answered == FairSpec /\ []GuardsAreEnough => RequestAnswered
<1>1. ASSUME NEW c \in Clients
      PROVE  FairSpec /\ []GuardsAreEnough => (Open(c) ~> ~Open(c))
  <2>1. Settled(c) => ~Open(c)
    BY DEF Settled
  <2> QED
    BY <2>1, RequestSettles, FairnessServes, PTL DEF FairSpec
<1> QED
  BY <1>1 DEF RequestAnswered

(* A request drops its session when it ends, and no step that ends one     *)
(* puts a session into an entry.                                           *)
LEMMA HeldMoves ==
  ASSUME TypeOK, [Next]_vars, NEW c \in Clients
  PROVE  \/ held'[c] = held[c] /\ (Open(c)' <=> Open(c))
         \/ ~Open(c) /\ Open(c)'
         \/ /\ held'[c] = NoSession /\ ~Open(c)'
            /\ \A u \in Users : pending'[u] \in {pending[u], NoSession}
            /\ pending'[UserOf[c]] = NoSession
<1> USE ConstantsAssumption DEF Open, OpenStates, TypeOK
<1>1. ASSUME NEW d \in Clients, ClientRequest(d)
      PROVE  \/ held'[c] = held[c] /\ (Open(c)' <=> Open(c))
             \/ ~Open(c) /\ Open(c)'
  BY <1>1 DEF ClientRequest, Arrive
<1>2. ASSUME NEW d \in Clients, NEW answer, Return(d, answer)
      PROVE  \/ held'[c] = held[c] /\ (Open(c)' <=> Open(c))
             \/ /\ held'[c] = NoSession /\ ~Open(c)'
                /\ \A u \in Users : pending'[u] \in {pending[u], NoSession}
                /\ pending'[UserOf[c]] = NoSession
  BY <1>2 DEF Return, Respond
<1>3. ASSUME NEW d \in Clients, TimerFires(d)
      PROVE  held'[c] = held[c] /\ (Open(c)' <=> Open(c))
  BY <1>3 DEF TimerFires, Cancel
<1>4. ASSUME NEW u \in Users, NEW m \in Models, Metrics(u, m)
      PROVE  held'[c] = held[c] /\ (Open(c)' <=> Open(c))
  BY <1>4 DEF Metrics, Store
<1>5. ASSUME NEW u \in Users, Finish(u)
      PROVE  held'[c] = held[c] /\ (Open(c)' <=> Open(c))
  BY <1>5 DEF Finish, FinishRefused, FinishNoReference, FinishGrace, FinishNotBuilt, FinishNotRun,
     FinishVerdict, Release
<1>6. ASSUME LoseMemory
      PROVE  /\ held'[c] = NoSession /\ ~Open(c)'
             /\ \A u \in Users : pending'[u] \in {pending[u], NoSession}
             /\ pending'[UserOf[c]] = NoSession
  BY <1>6 DEF LoseMemory
<1>7. CASE UNCHANGED vars
  BY <1>7 DEF vars
<1> QED
  BY <1>1, <1>2, <1>3, <1>4, <1>5, <1>6, <1>7 DEF Next, Resume, Expire, Crash, CrashInSave

(* A handler that is not open refers to no session. *)
IdleHoldsNothing == \A c \in Clients : ~Open(c) => held[c] = NoSession

LEMMA IdleInvariance == Spec => []IdleHoldsNothing
<1>1. Init => IdleHoldsNothing
  BY DEF Init, IdleHoldsNothing
<1>2. TypeOK /\ IdleHoldsNothing /\ [Next]_vars => IdleHoldsNothing'
  BY HeldMoves DEF IdleHoldsNothing
<1> QED
  BY <1>1, <1>2, TypeCorrect, PTL DEF Spec

Unlisted(s) == \A u \in Users : pending[u] # s

(* A session is listed no longer when the request that refers to it ends:  *)
(* its own entry is removed, and another userID has never had the session. *)
LEMMA HeldUntilUnlisted ==
  ASSUME IInv, [Next]_vars, NEW c \in Clients, NEW s \in Sessions, Open(c), held[c] = s
  PROVE  (Open(c)' /\ held'[c] = s) \/ Unlisted(s)'
<1>1. TypeOK /\ \A u \in Users : pending[u] = s => u = UserOf[c]
  BY ConstantsAssumption DEF IInv, Isolation, Owns
<1> QED
  BY <1>1, HeldMoves, ConstantsAssumption DEF Unlisted

(* A session that somebody has asked for leaves the dictionary, whatever   *)
(* becomes of the caller, the evidence and the other requests: with shared *)
(* userIDs as well, and with no assumption on who asks.                    *)
THEOREM Reclaimed == FairSpec /\ []GuardsAreEnough => AskedIsReclaimed
<1>1. ASSUME NEW c \in Clients, NEW s \in Sessions
      PROVE  FairSpec /\ []GuardsAreEnough => (held[c] = s ~> Unlisted(s))
  <2>1. IdleHoldsNothing /\ held[c] = s => Open(c)
    BY ConstantsAssumption DEF IdleHoldsNothing
  <2>2. /\ IInv /\ Open(c) /\ held[c] = s /\ [Next]_vars
             => (Open(c)' /\ (held[c] = s)') \/ Unlisted(s)'
    BY HeldUntilUnlisted
  <2>3. Settled(c) => ~Open(c)
    BY DEF Settled
  <2> QED
    BY <2>1, <2>2, <2>3, RequestSettles, FairnessServes, Invariance, IdleInvariance, PTL
    DEF FairSpec, Spec
<1> QED
  BY <1>1 DEF AskedIsReclaimed, Unlisted

==============================================================================
