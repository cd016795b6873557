-------------------------- MODULE TmbReferenceProofs --------------------------
(***************************************************************************)
(* How verdicts and the reference files depend on each other, for any      *)
(* reservoir_size, grace period and number of users that share a model.    *)
(***************************************************************************)
EXTENDS TmbServerProofs

(* A reference the statistics can be run against. *)
Ready(m) == rows[m] # NoFile /\ ~InGrace(m)

RefInv == IInv /\ VerdictNeedsReference

(* One more row does not bring a reference back into its grace period.     *)
LEMMA GrownIsReady ==
  ASSUME TypeOK, NEW m \in Models, NEW k \in Models, Sample(k), Ready(m)
  PROVE  rows'[m] # NoFile /\ ~(Columns * rows'[m] <= GraceCells)
<1> USE ConstantsAssumption
<1>1. rows[m] \in Nat
  BY DEF TypeOK, Ready
<1>2. rows'[m] = rows[m] \/ rows'[m] = rows[m] + 1
  BY <1>1 DEF Sample, RowsAfterSampling, TypeOK, Ready
<1>3. Columns * (rows[m] + 1) = Columns * rows[m] + Columns
  BY <1>1
<1>4. Columns * rows[m] \in Nat /\ Columns \in Nat
  BY <1>1
<1>5. Columns * rows'[m] >= Columns * rows[m]
  <2>1. CASE rows'[m] = rows[m]
    BY <1>4, <2>1
  <2>2. CASE rows'[m] = rows[m] + 1
    <3>1. Columns * rows'[m] = Columns * rows[m] + Columns
      BY <1>3, <2>2
    <3> QED BY <1>4, <3>1
  <2> QED BY <1>2, <2>1, <2>2
<1>6. ~(Columns * rows[m] <= GraceCells)
  BY DEF Ready, InGrace
<1>7. ~(Columns * rows'[m] <= GraceCells)
  <2>1. Columns * rows'[m] \in Nat
    BY <1>1, <1>2, <1>3, <1>4
  <2> QED BY <1>4, <1>5, <1>6, <2>1
<1>8. rows'[m] # NoFile
  BY <1>1, <1>2
<1> QED
  BY <1>7, <1>8

FirstModel(s) == Head(sessions[s].cache).model

(* What a session with a verdict has, and keeps while references only grow.*)
LEMMA VerdictKept ==
  ASSUME RefInv, NEW w \in Users, NEW t \in Sessions, Owns(w, t),
         sessions[t].verification # None,
         UNCHANGED rows \/ \E k \in Models : Sample(k)
  PROVE  /\ sessions[t].cache \in Seq(Samples)
         /\ sessions[t].cache # <<>>
         /\ rows'[FirstModel(t)] # NoFile
         /\ ~(Columns * rows'[FirstModel(t)] <= GraceCells)
<1>1. TypeOK /\ sessions[t].cache \in Seq(Samples) /\ sessions[t].cache # <<>>
  BY DEF RefInv, IInv, TypeOK, SessionRecords, VerdictHasEvidence
<1>2. Head(sessions[t].cache) \in Samples
  BY <1>1
<1>3. FirstModel(t) \in Models
  BY <1>2 DEF FirstModel, Samples
<1>4. Ready(FirstModel(t))
  BY DEF RefInv, VerdictNeedsReference, Ready, FirstModel
<1>5. CASE UNCHANGED rows
  BY <1>1, <1>4, <1>5 DEF Ready, InGrace
<1>6. ASSUME NEW k \in Models, Sample(k)
      PROVE  rows'[FirstModel(t)] # NoFile /\ ~(Columns * rows'[FirstModel(t)] <= GraceCells)
  <2> DEFINE m == FirstModel(t)
  <2>1. m \in Models /\ Ready(m)
    BY <1>3, <1>4
  <2>2. rows[m] \in Nat
    BY <1>1, <2>1 DEF TypeOK, Ready
  <2> HIDE DEF m
  <2>3. rows'[m] # NoFile /\ ~(Columns * rows'[m] <= GraceCells)
    BY <1>1, <1>6, <2>1, <2>2, GrownIsReady
  <2> QED
    BY <2>3 DEF m
<1> QED
  BY <1>1, <1>5, <1>6

(* Steps that leave what is referred to as it was.                         *)
LEMMA VerdictsSame ==
  ASSUME RefInv, UNCHANGED rows \/ \E k \in Models : Sample(k),
         \A w \in Users, t \in Sessions :
           Owns(w, t)' => Owns(w, t) /\ sessions'[t] = sessions[t]
  PROVE  VerdictNeedsReference'
<1> SUFFICES ASSUME NEW w \in Users, NEW t \in Sessions, Owns(w, t)',
                    sessions'[t].verification # None
             PROVE  /\ rows'[Head(sessions'[t].cache).model] # NoFile
                    /\ ~(Columns * rows'[Head(sessions'[t].cache).model] <= GraceCells)
  BY DEF VerdictNeedsReference, InGrace
<1>1. Owns(w, t) /\ sessions'[t] = sessions[t]
  OBVIOUS
<1> QED
  BY <1>1, VerdictKept DEF FirstModel

LEMMA UseKeepsReferences ==
  ASSUME RefInv, NEW u \in Users, NEW s \in SessionFor(u), NEW r \in SessionRecords,
         pending' = [pending EXCEPT ![u] = s],
         sessions' = [sessions EXCEPT ![s] = r],
         \A c \in Clients : Open(c)' => \/ Open(c) /\ held'[c] = held[c]
                                        \/ UserOf[c] = u /\ held'[c] = s,
         UNCHANGED rows,
         r.verification = Contents(u).verification,
         Contents(u).cache # <<>> => Head(r.cache) = Head(Contents(u).cache)
  PROVE  VerdictNeedsReference'
<1> USE ConstantsAssumption
<1> SUFFICES ASSUME NEW w \in Users, NEW t \in Sessions, Owns(w, t)',
                    sessions'[t].verification # None
             PROVE  /\ rows'[Head(sessions'[t].cache).model] # NoFile
                    /\ ~(Columns * rows'[Head(sessions'[t].cache).model] <= GraceCells)
  BY DEF VerdictNeedsReference, InGrace
<1>1. TypeOK /\ References
  BY DEF RefInv, IInv, References
<1>2. s \in Sessions
  BY <1>1, SessionForUser
<1>3. CASE t # s
  <2>1. Owns(w, t) /\ sessions'[t] = sessions[t]
    BY <1>1, <1>2, <1>3 DEF Owns, TypeOK
  <2> QED
    BY <2>1, VerdictKept DEF FirstModel
<1>4. CASE t = s
  <2>1. sessions'[s] = r
    BY <1>1, <1>2 DEF TypeOK
  <2>2. Contents(u).verification # None
    BY <1>4, <2>1
  <2>3. pending[u] = s /\ Contents(u) = sessions[s]
    BY <2>2 DEF SessionFor, Contents, NewSession
  <2>4. Owns(u, s) /\ sessions[s].verification # None
    BY <2>2, <2>3 DEF Owns
  <2>5. sessions[s].cache # <<>> /\ rows'[FirstModel(s)] # NoFile
        /\ ~(Columns * rows'[FirstModel(s)] <= GraceCells)
    BY <1>2, <2>4, VerdictKept
  <2>6. Head(r.cache) = Head(sessions[s].cache)
    BY <2>3, <2>5
  <2> QED
    BY <1>4, <2>1, <2>5, <2>6 DEF FirstModel
<1> QED
  BY <1>3, <1>4

LEMMA ReleaseKeepsReferences ==
  ASSUME RefInv, NEW u \in Users, NEW v \in Verdicts, HasData(u),
         Release(pending[u], v), UNCHANGED <<pending, held>>,
         UNCHANGED rows \/ \E k \in Models : Sample(k),
         v # None => sessions[pending[u]].verification # None \/ Ready(ModelOf(u))
  PROVE  VerdictNeedsReference'
<1> USE ConstantsAssumption
<1> SUFFICES ASSUME NEW w \in Users, NEW t \in Sessions, Owns(w, t)',
                    sessions'[t].verification # None
             PROVE  /\ rows'[Head(sessions'[t].cache).model] # NoFile
                    /\ ~(Columns * rows'[Head(sessions'[t].cache).model] <= GraceCells)
  BY DEF VerdictNeedsReference, InGrace
<1> DEFINE s == pending[u]
<1>1. TypeOK /\ s \in Sessions /\ Owns(u, s)
  BY DEF RefInv, IInv, HasData, TypeOK, Owns
<1>2. /\ sessions'[s] = [event |-> TRUE, cache |-> sessions[s].cache, verification |-> v]
      /\ \A x \in Sessions : x # s => sessions'[x] = sessions[x]
  BY <1>1 DEF Release, TypeOK
<1>3. Owns(w, t)
  BY DEF Release, Owns, Open, OpenStates
<1>4. CASE t # s
  BY <1>2, <1>3, <1>4, VerdictKept DEF FirstModel
<1>5. CASE t = s /\ sessions[s].verification # None
  <2>1. rows'[FirstModel(s)] # NoFile /\ ~(Columns * rows'[FirstModel(s)] <= GraceCells)
    BY <1>1, <1>5, VerdictKept
  <2>2. sessions'[s].cache = sessions[s].cache
    BY <1>2
  <2> QED
    BY <1>5, <2>1, <2>2 DEF FirstModel
<1>6. CASE t = s /\ sessions[s].verification = None
  <2>1. Ready(ModelOf(u)) /\ ModelOf(u) = FirstModel(s) /\ sessions'[s].cache = sessions[s].cache
    BY <1>2, <1>6 DEF ModelOf, FirstModel
  <2>2. sessions[s].cache \in Seq(Samples) /\ sessions[s].cache # <<>>
    BY <1>1 DEF TypeOK, SessionRecords, HasData
  <2>3. Head(sessions[s].cache) \in Samples
    BY <2>2
  <2>4. FirstModel(s) \in Models
    BY <2>3 DEF FirstModel, Samples
  <2>5. rows'[FirstModel(s)] # NoFile /\ ~(Columns * rows'[FirstModel(s)] <= GraceCells)
    <3>1. CASE UNCHANGED rows
      BY <2>1, <3>1 DEF Ready, InGrace
    <3>2. ASSUME NEW k \in Models, Sample(k)
          PROVE  rows'[FirstModel(s)] # NoFile /\ ~(Columns * rows'[FirstModel(s)] <= GraceCells)
      <4> DEFINE m == FirstModel(s)
      <4>1. m \in Models /\ Ready(m)
        BY <2>1, <2>4
      <4> HIDE DEF m
      <4>2. rows'[m] # NoFile /\ ~(Columns * rows'[m] <= GraceCells)
        BY <1>1, <3>2, <4>1, GrownIsReady
      <4> QED
        BY <4>2 DEF m
    <3> QED
      BY <3>1, <3>2
  <2> QED
    BY <1>6, <2>1, <2>5 DEF FirstModel
<1> QED
  BY <1>4, <1>5, <1>6

LEMMA DataOf ==
  ASSUME TypeOK, NEW u \in Users, HasData(u)
  PROVE  /\ pending[u] \in Sessions
         /\ ModelOf(u) \in Models
         /\ sessions[pending[u]].verification \in Verdicts
<1>1. pending[u] \in Sessions /\ sessions[pending[u]] \in SessionRecords
  BY DEF HasData, TypeOK
<1>2. sessions[pending[u]].cache \in Seq(Samples) /\ sessions[pending[u]].cache # <<>>
  BY <1>1 DEF SessionRecords, HasData
<1>3. Head(sessions[pending[u]].cache) \in Samples
  BY <1>2
<1> QED
  BY <1>1, <1>3 DEF SessionRecords, Samples, ModelOf

LEMMA FinishKeepsReferences ==
  ASSUME RefInv, NEW u \in Users, Finish(u)
  PROVE  VerdictNeedsReference'
<1>1. TypeOK
  BY DEF RefInv, IInv
<1>2. ASSUME UNCHANGED <<pending, sessions, state, held>>,
             UNCHANGED rows \/ \E k \in Models : Sample(k)
      PROVE  VerdictNeedsReference'
  <2>1. \A w \in Users, t \in Sessions :
          Owns(w, t)' => Owns(w, t) /\ sessions'[t] = sessions[t]
    BY <1>2 DEF Owns, Open
  <2> QED
    BY <1>2, <2>1, VerdictsSame
<1>3. CASE FinishGrace(u)
  <2>1. HasData(u) /\ Release(pending[u], sessions[pending[u]].verification)
    BY <1>3 DEF FinishGrace, HasReference
  <2>2. sessions[pending[u]].verification \in Verdicts /\ ModelOf(u) \in Models
    BY <1>1, <2>1, DataOf
  <2>3. UNCHANGED <<pending, held>> /\ \E k \in Models : Sample(k)
    BY <1>3, <2>2 DEF FinishGrace
  <2> QED
    BY <2>1, <2>2, <2>3, ReleaseKeepsReferences
<1>4. ASSUME NEW v \in BOOLEAN, NEW attested \in BOOLEAN, FinishVerdict(u, v, attested)
      PROVE  VerdictNeedsReference'
  <2>1. /\ HasData(u) /\ Release(pending[u], v) /\ v \in Verdicts
        /\ Ready(ModelOf(u)) /\ UNCHANGED <<pending, held>>
    BY <1>4 DEF FinishVerdict, HasReference, Verdicts, Ready
  <2>2. UNCHANGED rows \/ \E k \in Models : Sample(k)
    BY <1>1, <1>4, <2>1, DataOf DEF FinishVerdict
  <2> QED
    BY <2>1, <2>2, ReleaseKeepsReferences
<1>5. CASE FinishRefused(u)
  BY <1>2, <1>5 DEF FinishRefused
<1>6. CASE FinishNoReference(u)
  BY <1>2, <1>6 DEF FinishNoReference
<1>7. CASE FinishNotBuilt(u)
  BY <1>2, <1>7 DEF FinishNotBuilt
<1>8. CASE FinishNotRun(u)
  BY <1>1, <1>2, <1>8, DataOf DEF FinishNotRun, HasReference
<1> QED
  BY <1>3, <1>4, <1>5, <1>6, <1>7, <1>8 DEF Finish

LEMMA NextRefInv == RefInv /\ [Next]_vars => RefInv'
<1> SUFFICES ASSUME RefInv, [Next]_vars PROVE VerdictNeedsReference'
  BY NextIInv DEF RefInv
<1> USE ConstantsAssumption
<1>1. TypeOK /\ References /\ \A c \in Clients : UserOf[c] \in Users
  BY DEF RefInv, IInv, References
<1>2. ASSUME NEW c \in Clients, ClientRequest(c) PROVE VerdictNeedsReference'
  <2> DEFINE u == UserOf[c]
  <2>1. PICK s \in SessionFor(u) :
          /\ pending' = [pending EXCEPT ![u] = s]
          /\ sessions' = [sessions EXCEPT ![s] = Contents(u)]
          /\ held' = [held EXCEPT ![c] = s]
    BY <1>2 DEF ClientRequest, Arrive
  <2>2. \A d \in Clients : Open(d)' => \/ Open(d) /\ held'[d] = held[d]
                                       \/ UserOf[d] = u /\ held'[d] = s
    BY <1>1, <1>2, <2>1 DEF ClientRequest, Arrive, Open, TypeOK
  <2>3. u \in Users /\ UNCHANGED rows
    BY <1>1, <1>2 DEF ClientRequest, Arrive
  <2>4. Contents(u) \in SessionRecords
    <3> HIDE DEF u
    <3> QED BY <1>1, <2>1, <2>3, SessionForUser
  <2> HIDE DEF u
  <2> QED
    BY <2>1, <2>2, <2>3, <2>4, UseKeepsReferences
<1>3. ASSUME NEW c \in Clients, NEW a, Open(c), Return(c, a) PROVE VerdictNeedsReference'
  <2>1. \A w \in Users, t \in Sessions : Owns(w, t)' => Owns(w, t)
    BY <1>1, <1>3 DEF Return, Respond, Owns, Open, OpenStates, TypeOK
  <2>2. \A w \in Users, t \in Sessions : Owns(w, t)' => sessions'[t] = sessions[t]
    BY <1>3 DEF Return, Respond, Collect
  <2> QED
    BY <1>3, <2>1, <2>2, VerdictsSame DEF Return, Respond
<1>4. ASSUME NEW c \in Clients, Resume(c) \/ Expire(c) PROVE VerdictNeedsReference'
  BY <1>3, <1>4 DEF Resume, Expire, Open, OpenStates
<1>5. ASSUME NEW c \in Clients, TimerFires(c) PROVE VerdictNeedsReference'
  <2>1. \A w \in Users, t \in Sessions : Owns(w, t)' => Owns(w, t)
    BY <1>1, <1>5 DEF TimerFires, Cancel, Owns, Open, OpenStates, TypeOK
  <2> QED
    BY <1>5, <2>1, VerdictsSame DEF TimerFires, Cancel
<1>6. ASSUME NEW u \in Users, NEW m \in Models, Metrics(u, m) PROVE VerdictNeedsReference'
  <2> DEFINE sample == [userID |-> u, model |-> m]
             r == WithSample(Contents(u), sample)
  <2>1. PICK s \in SessionFor(u) :
          pending' = [pending EXCEPT ![u] = s] /\ sessions' = [sessions EXCEPT ![s] = r]
    BY <1>6 DEF Metrics, Store
  <2>2. /\ Contents(u) \in SessionRecords
        /\ Contents(u).cache \in Seq(Samples) /\ sample \in Samples
    BY <1>1, SessionForUser DEF SessionRecords, Samples
  <2>3. /\ r \in SessionRecords /\ r.verification = Contents(u).verification
        /\ r.cache = Append(Contents(u).cache, sample)
    BY <2>2 DEF SessionRecords, WithSample
  <2>4. Contents(u).cache # <<>> => Head(r.cache) = Head(Contents(u).cache)
    BY <2>2, <2>3
  <2>5. \A d \in Clients : Open(d)' => Open(d) /\ held'[d] = held[d]
    BY <1>6 DEF Metrics, Store, Open
  <2> HIDE DEF r
  <2> QED
    BY <1>6, <2>1, <2>3, <2>4, <2>5, UseKeepsReferences DEF Metrics, Store
<1>7. ASSUME NEW u \in Users, Finish(u) PROVE VerdictNeedsReference'
  BY <1>7, FinishKeepsReferences
<1>8. ASSUME LoseMemory PROVE VerdictNeedsReference'
  BY <1>8 DEF LoseMemory, VerdictNeedsReference, Owns, Open, OpenStates
<1>9. ASSUME UNCHANGED vars PROVE VerdictNeedsReference'
  <2>1. \A w \in Users, t \in Sessions : Owns(w, t)' => Owns(w, t) /\ sessions'[t] = sessions[t]
    BY <1>9 DEF vars, Owns, Open
  <2> QED
    BY <1>9, <2>1, VerdictsSame DEF vars
<1>10. ASSUME NEW u \in Users, CrashInSave(u) PROVE VerdictNeedsReference'
  BY <1>8, <1>10 DEF CrashInSave
<1>11. ASSUME Crash PROVE VerdictNeedsReference'
  BY <1>8, <1>11 DEF Crash
<1> QED
  BY <1>2, <1>4, <1>5, <1>6, <1>7, <1>9, <1>10, <1>11 DEF Next

LEMMA RefInvariance == Spec => []RefInv
<1>1. Init => RefInv
  BY InitIInv, ConstantsAssumption DEF Init, RefInv, VerdictNeedsReference, NewSession
<1> QED
  BY <1>1, NextRefInv, PTL DEF Spec

(* A verdict that some caller can still be told was computed against a     *)
(* reference past its grace period, and no sampling, of any model by any   *)
(* user, takes that reference back under the bound.                        *)
THEOREM VerdictGrounded == Spec => []VerdictNeedsReference
BY RefInvariance, PTL DEF RefInv

(* References learn row by row, only from sessions released in the grace   *)
(* period or accepted, and never beyond reservoir_size.                    *)
Learning ==
  \A m \in Models : rows'[m] # rows[m] =>
    \/ rows'[m] = NoFile
    \/ /\ rows'[m] = rows[m] + 1
       /\ rows'[m] <= ReservoirSize
       /\ \E u \in Users :
            /\ HasData(u) /\ ModelOf(u) = m
            /\ sessions'[pending[u]].event
            /\ InGrace(m) \/ sessions'[pending[u]].verification = TRUE

LEMMA OneRow ==
  ASSUME TypeOK, NEW u \in Users, HasReference(u), Sample(ModelOf(u)),
         sessions'[pending[u]].event,
         InGrace(ModelOf(u)) \/ sessions'[pending[u]].verification = TRUE
  PROVE  Learning
<1> USE ConstantsAssumption
<1>1. HasData(u) /\ ModelOf(u) \in Models /\ rows[ModelOf(u)] \in Nat
  BY DataOf DEF HasReference, TypeOK
<1>2. ASSUME NEW m \in Models, rows'[m] # rows[m]
      PROVE  m = ModelOf(u) /\ rows'[m] = rows[m] + 1 /\ rows'[m] <= ReservoirSize
  BY <1>1, <1>2 DEF Sample, RowsAfterSampling, TypeOK
<1> QED
  BY <1>1, <1>2 DEF Learning

(* No interleaving of finishing users, repeated /finished calls or failed  *)
(* stats_verify runs writes a rejected or unverified sample into a         *)
(* reference that is past its grace period.                                *)
THEOREM LearningIsEarned == Spec => LearnsOnlyAccepted
<1>1. RefInv /\ [Next]_vars => [Learning]_vars
  <2> SUFFICES ASSUME RefInv, Next PROVE Learning
    BY DEF vars
  <2> USE ConstantsAssumption
  <2>1. TypeOK
    BY DEF RefInv, IInv
  <2>2. ASSUME UNCHANGED rows PROVE Learning
    BY <2>2 DEF Learning
  <2>3. ASSUME NEW u \in Users, NEW v \in Verdicts, HasReference(u), Release(pending[u], v)
        PROVE  sessions'[pending[u]].event = TRUE /\ sessions'[pending[u]].verification = v
    <3>1. pending[u] \in Sessions
      BY <2>1, <2>3, DataOf DEF HasReference
    <3>2. sessions'[pending[u]] = [event |-> TRUE, cache |-> sessions[pending[u]].cache, verification |-> v]
      BY <2>1, <2>3, <3>1 DEF Release, TypeOK
    <3> QED
      BY <3>2
  <2>4. ASSUME NEW u \in Users, FinishGrace(u) PROVE Learning
    <3>1. HasReference(u) /\ HasData(u) /\ InGrace(ModelOf(u)) /\ Sample(ModelOf(u))
          /\ Release(pending[u], sessions[pending[u]].verification)
      BY <2>4 DEF FinishGrace, HasReference
    <3>2. sessions[pending[u]].verification \in Verdicts
      BY <2>1, <3>1, DataOf
    <3>3. sessions'[pending[u]].event
      BY <2>3, <3>1, <3>2
    <3> QED
      BY <2>1, <3>1, <3>3, OneRow
  <2>5. ASSUME NEW u \in Users, FinishNotRun(u) PROVE Learning
    <3>1. CASE UNCHANGED rows
      BY <2>2, <3>1
    <3>2. CASE ~UNCHANGED rows
      <4>1. /\ HasReference(u) /\ HasData(u) /\ Sample(ModelOf(u)) /\ UNCHANGED sessions
            /\ sessions[pending[u]].verification = TRUE
        BY <2>5, <3>2 DEF FinishNotRun, HasReference
      <4>2. sessions[pending[u]].event
        BY <2>1, <4>1, DataOf DEF RefInv, IInv, VerdictHasEvidence, Owns
      <4> QED
        BY <2>1, <4>1, <4>2, OneRow
    <3> QED
      BY <3>1, <3>2
  <2>6. ASSUME NEW u \in Users, NEW v \in BOOLEAN, NEW attested \in BOOLEAN, FinishVerdict(u, v, attested)
        PROVE  Learning
    <3>1. HasReference(u) /\ Release(pending[u], v) /\ v \in Verdicts
      BY <2>6 DEF FinishVerdict, Verdicts
    <3>2. sessions'[pending[u]].event /\ sessions'[pending[u]].verification = v
      BY <2>3, <3>1
    <3>3. CASE v
      BY <2>1, <2>6, <3>1, <3>2, <3>3, OneRow DEF FinishVerdict
    <3>4. CASE ~v
      BY <2>2, <2>6, <3>4 DEF FinishVerdict
    <3> QED
      BY <3>3, <3>4
  <2>7. ASSUME NEW u \in Users, Finish(u) PROVE Learning
    BY <2>2, <2>4, <2>5, <2>6, <2>7 DEF Finish, FinishRefused, FinishNoReference, FinishNotBuilt
  <2>8. ASSUME NEW u \in Users, CrashInSave(u) PROVE Learning
    BY <2>1, <2>8 DEF CrashInSave, Learning, TypeOK
  <2>9. ASSUME NEW c \in Clients, ClientRequest(c) \/ Resume(c) \/ TimerFires(c) \/ Expire(c)
        PROVE  Learning
    BY <2>2, <2>9 DEF ClientRequest, Arrive, Resume, TimerFires, Cancel, Expire, Return, Respond
  <2>10. ASSUME NEW u \in Users, NEW m \in Models, Metrics(u, m) PROVE Learning
    BY <2>2, <2>10 DEF Metrics, Store
  <2>11. ASSUME Crash PROVE Learning
    BY <2>2, <2>11 DEF Crash
  <2> QED
    BY <2>7, <2>8, <2>9, <2>10, <2>11 DEF Next
<1> QED
  BY <1>1, RefInvariance, PTL DEF Spec, LearnsOnlyAccepted, Learning

==============================================================================
