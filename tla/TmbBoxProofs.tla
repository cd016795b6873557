----------------------------- MODULE TmbBoxProofs -----------------------------
(***************************************************************************)
(* When every request has a userID of its own, TmbServer implements        *)
(* VerdictService, for any number of callers, userIDs and samples.         *)
(***************************************************************************)
EXTENDS TmbServerProofs

(* The way tui.py calls the service: a new uuid4 for each request.         *)
OwnUserIDs == \A c, d \in Clients : UserOf[c] = UserOf[d] => c = d

(* Then the dictionary still lists the session each open handler holds.    *)
Listed == \A c \in Clients : Open(c) => pending[UserOf[c]] = held[c]

BoxInv == IInv /\ Listed

------------------------------------------------------------------------------
(* Listed is inductive together with IInv. *)

LEMMA InitBoxInv == Init => BoxInv
BY InitIInv DEF Init, BoxInv, Listed, Open, OpenStates

LEMMA NextBoxInv ==
  ASSUME OwnUserIDs, BoxInv, [Next]_vars
  PROVE  BoxInv'
<1> USE ConstantsAssumption
<1>1. IInv' /\ TypeOK /\ HandlersHold
  BY NextIInv DEF BoxInv, IInv
<1>2. \A c \in Clients : UserOf[c] \in Users
  OBVIOUS
<1>3. ASSUME NEW c \in Clients, ClientRequest(c) PROVE Listed'
  BY <1>1, <1>2, <1>3 DEF ClientRequest, Arrive, BoxInv, Listed, Open, OwnUserIDs, TypeOK
<1>4. ASSUME NEW c \in Clients, NEW a, Return(c, a) PROVE Listed'
  BY <1>1, <1>2, <1>4 DEF Return, Respond, BoxInv, Listed, Open, OpenStates, OwnUserIDs, TypeOK
<1>5. ASSUME NEW c \in Clients, TimerFires(c) PROVE Listed'
  BY <1>1, <1>5 DEF TimerFires, Cancel, BoxInv, Listed, Open, OpenStates, TypeOK
<1>6. ASSUME NEW u \in Users, NEW m \in Models, Metrics(u, m) PROVE Listed'
  <2> SUFFICES ASSUME NEW c \in Clients, Open(c)' PROVE pending'[UserOf[c]] = held'[c]
    BY DEF Listed
  <2>1. Open(c) /\ held'[c] = held[c]
    BY <1>6 DEF Metrics, Store, Open
  <2>2. pending[UserOf[c]] = held[c] /\ held[c] \in Sessions
    BY <1>1, <2>1 DEF BoxInv, Listed, HandlersHold
  <2>3. pending'[UserOf[c]] = pending[UserOf[c]]
    BY <1>1, <1>2, <1>6, <2>2 DEF Metrics, Store, SessionFor, TypeOK
  <2> QED
    BY <2>1, <2>2, <2>3
<1>7. ASSUME UNCHANGED <<pending, held>>, \A c \in Clients : Open(c)' => Open(c) PROVE Listed'
  BY <1>7 DEF BoxInv, Listed
<1>8. ASSUME NEW u \in Users, Finish(u) PROVE Listed'
  <2>1. \A c \in Clients : Open(c)' => Open(c)
    BY <1>8 DEF Finish, FinishRefused, FinishNoReference, FinishGrace, FinishNotBuilt,
         FinishNotRun, FinishVerdict, Release, Open, OpenStates
  <2>2. UNCHANGED <<pending, held>>
    BY <1>8 DEF Finish, FinishRefused, FinishNoReference, FinishGrace, FinishNotBuilt,
         FinishNotRun, FinishVerdict
  <2> QED
    BY <1>7, <2>1, <2>2
<1>9. ASSUME LoseMemory PROVE Listed'
  BY <1>9 DEF LoseMemory, Listed, Open, OpenStates
<1>10. ASSUME UNCHANGED vars PROVE Listed'
  BY <1>10 DEF vars, BoxInv, Listed, Open
<1>11. ASSUME NEW c \in Clients, Resume(c) \/ Expire(c) PROVE Listed'
  BY <1>4, <1>11 DEF Resume, Expire
<1>12. ASSUME NEW u \in Users, CrashInSave(u) PROVE Listed'
  BY <1>9, <1>12 DEF Crash, CrashInSave
<1>13. ASSUME Crash PROVE Listed'
  BY <1>9, <1>13 DEF Crash
<1>14. Listed'
  BY <1>3, <1>5, <1>6, <1>8, <1>10, <1>11, <1>12, <1>13 DEF Next
<1> QED
  BY <1>1, <1>14 DEF BoxInv

LEMMA BoxInvariance ==
  ASSUME OwnUserIDs PROVE Spec => []BoxInv
<1>1. BoxInv /\ [Next]_vars => BoxInv'
  BY NextBoxInv
<1> QED
  BY <1>1, InitBoxInv, PTL DEF Spec

(* /finished wakes the caller that waits for it, whatever happened to the  *)
(* dictionary between the caller's request and the verdict.                *)
THEOREM WaiterReleased ==
  ASSUME OwnUserIDs PROVE Spec => []ReleasedMeansAwake
<1>1. BoxInv => ReleasedMeansAwake
  BY DEF BoxInv, IInv, Listed, NoMissedSignal, ReleasedMeansAwake, Open, OpenStates
<1> QED
  BY <1>1, BoxInvariance, PTL

------------------------------------------------------------------------------
(* Refinement.  First, how each kind of step moves the boxes.              *)

LEMMA BoxShape ==
  ASSUME BoxInv, NEW u \in Users
  PROVE  /\ Contents(u) \in SessionRecords
         /\ ~BoxOf(u).evidence => BoxOf(u) = Abstract!Empty
<1> USE ConstantsAssumption
<1>1. /\ Contents(u) \in SessionRecords
      /\ Contents(u).cache = <<>> =>
           ~Contents(u).event /\ Contents(u).verification = None
  <2>1. CASE pending[u] = NoSession
    BY <2>1 DEF Contents, NewSession, SessionRecords, Verdicts
  <2>2. CASE pending[u] # NoSession
    <3>1. pending[u] \in Sessions /\ Owns(u, pending[u]) /\ Contents(u) = sessions[pending[u]]
      BY <2>2 DEF BoxInv, IInv, TypeOK, Owns, Contents
    <3> QED
      BY <3>1 DEF BoxInv, IInv, TypeOK, VerdictHasEvidence
  <2> QED
    BY <2>1, <2>2
<1>2. ASSUME ~BoxOf(u).evidence PROVE BoxOf(u) = Abstract!Empty
  <2>1. Contents(u).cache = <<>>
    BY <1>2 DEF BoxOf
  <2>2. (Contents(u).cache # <<>>) = FALSE /\ Contents(u).event = FALSE
        /\ Contents(u).verification = None
    BY <1>1, <2>1 DEF SessionRecords
  <2> QED
    BY <2>2, Zenon DEF BoxOf, Abstract!Empty
<1> QED
  BY <1>1, <1>2

(* Two users never see one session through the dictionary.                 *)
LEMMA PendingDistinct ==
  ASSUME BoxInv, NEW u \in Users, NEW w \in Users, w # u, pending[w] # NoSession
  PROVE  /\ pending[w] \in Sessions
         /\ pending[w] \notin SessionFor(u)
<1> USE ConstantsAssumption
<1>1. pending[w] \in Sessions /\ Owns(w, pending[w])
  BY DEF BoxInv, IInv, TypeOK, Owns
<1>2. CASE pending[u] = NoSession
  BY <1>1, <1>2 DEF SessionFor, Unowned
<1>3. CASE pending[u] # NoSession
  <2>1. Owns(u, pending[u])
    BY DEF Owns
  <2>2. pending[u] # pending[w]
    BY <1>1, <2>1 DEF BoxInv, IInv, Isolation
  <2> QED
    BY <1>1, <1>3, <2>2 DEF SessionFor
<1> QED
  BY <1>2, <1>3

(* A session put in the place of u's changes the contents of u only.       *)
LEMMA ContentsAfterUse ==
  ASSUME BoxInv, NEW u \in Users, NEW s \in SessionFor(u), NEW r,
         pending' = [pending EXCEPT ![u] = s],
         sessions' = [sessions EXCEPT ![s] = r]
  PROVE  /\ Contents(u)' = r
         /\ \A w \in Users : w # u => Contents(w)' = Contents(w)
<1> USE ConstantsAssumption
<1>1. TypeOK /\ s \in Sessions
  BY SessionForUser DEF BoxInv, IInv, References
<1>2. Contents(u)' = r
  BY <1>1 DEF Contents, TypeOK
<1>3. ASSUME NEW w \in Users, w # u PROVE Contents(w)' = Contents(w)
  <2>1. pending'[w] = pending[w]
    BY <1>1, <1>3 DEF TypeOK
  <2>2. CASE pending[w] = NoSession
    BY <2>1, <2>2 DEF Contents
  <2>3. CASE pending[w] # NoSession
    <3>1. pending[w] \in Sessions /\ pending[w] # s
      BY <1>3, <2>3, PendingDistinct
    <3> QED
      BY <1>1, <2>1, <2>3, <3>1 DEF Contents, TypeOK
  <2> QED
    BY <2>2, <2>3
<1> QED
  BY <1>2, <1>3

(* Dropping the entry of u empties its box and no other.                   *)
LEMMA ContentsAfterReturn ==
  ASSUME BoxInv, NEW c \in Clients, NEW a, Return(c, a)
  PROVE  /\ Contents(UserOf[c])' = NewSession
         /\ \A w \in Users : w # UserOf[c] => Contents(w)' = Contents(w)
<1> USE ConstantsAssumption
<1>1. TypeOK /\ UserOf[c] \in Users
  BY DEF BoxInv, IInv
<1>2. Contents(UserOf[c])' = NewSession
  BY <1>1 DEF Return, Respond, Contents, TypeOK
<1>3. ASSUME NEW w \in Users, w # UserOf[c] PROVE Contents(w)' = Contents(w)
  <2>1. pending'[w] = pending[w]
    BY <1>1, <1>3 DEF Return, Respond, TypeOK
  <2>2. CASE pending[w] = NoSession
    BY <2>1, <2>2 DEF Contents
  <2>3. CASE pending[w] # NoSession
    <3>1. pending[w] \in Sessions
      BY <1>1, <2>3 DEF TypeOK
    <3> DEFINE s == pending[w]
    <3>2. \E x \in Users : (pending'[x] = s \/ \E d \in Clients : Open(d)' /\ UserOf[d] = x /\ held'[d] = s)
      BY <2>1
    <3>3. sessions'[s] = sessions[s]
      <4> HIDE DEF s
      <4> QED BY <3>1, <3>2 DEF Return, Respond, Collect, Owns, s
    <3> QED
      BY <2>1, <2>3, <3>3 DEF Contents
  <2> QED
    BY <2>2, <2>3
<1> QED
  BY <1>2, <1>3

(* Releasing u's session changes the contents of u only.                   *)
LEMMA ContentsAfterRelease ==
  ASSUME BoxInv, NEW u \in Users, NEW v \in Verdicts, HasData(u), Release(pending[u], v),
         UNCHANGED pending
  PROVE  /\ pending[u] \in Sessions /\ Contents(u) = sessions[pending[u]]
         /\ sessions[pending[u]] \in SessionRecords /\ sessions[pending[u]].cache # <<>>
         /\ Contents(u)' = [event |-> TRUE, cache |-> sessions[pending[u]].cache, verification |-> v]
         /\ \A w \in Users : w # u => Contents(w)' = Contents(w)
<1> USE ConstantsAssumption
<1> DEFINE s == pending[u]
<1>1. /\ s \in Sessions /\ Contents(u) = sessions[s] /\ sessions[s] \in SessionRecords
      /\ sessions[s].cache # <<>>
  BY DEF HasData, BoxInv, IInv, TypeOK, Contents
<1>2. sessions'[s] = [event |-> TRUE, cache |-> sessions[s].cache, verification |-> v]
      /\ \A t \in Sessions : t # s => sessions'[t] = sessions[t]
  BY <1>1 DEF Release, BoxInv, IInv, TypeOK
<1>3. Contents(u)' = [event |-> TRUE, cache |-> sessions[s].cache, verification |-> v]
  BY <1>1, <1>2 DEF Contents
<1>4. \A w \in Users : w # u => Contents(w)' = Contents(w)
  <2> SUFFICES ASSUME NEW w \in Users, w # u, pending[w] # NoSession
               PROVE  sessions'[pending[w]] = sessions[pending[w]]
    BY DEF Contents
  <2>1. pending[w] \in Sessions /\ pending[w] # s
    BY <1>1, PendingDistinct DEF SessionFor
  <2> QED
    BY <1>2, <2>1
<1> QED
  BY <1>1, <1>3, <1>4

------------------------------------------------------------------------------
(* Then each action as a step of VerdictService. *)

Boxes == [u \in Users |-> BoxOf(u)]

Asking == {c \in Clients : Open(c)}

LEMMA BoxesAfter ==
  ASSUME NEW u \in Users, \A w \in Users : w # u => Contents(w)' = Contents(w)
  PROVE  Boxes' = [Boxes EXCEPT ![u] = BoxOf(u)']
<1>1. \A w \in Users : w # u => BoxOf(w)' = BoxOf(w)
  BY DEF BoxOf
<1> QED
  BY <1>1 DEF Boxes

LEMMA BoxesSame ==
  ASSUME \A w \in Users : Contents(w)' = Contents(w)
  PROVE  Boxes' = Boxes
BY DEF Boxes, BoxOf

LEMMA AskStep ==
  ASSUME BoxInv, NEW c \in Clients, ClientRequest(c)
  PROVE  Abstract!Ask(c)
<1> USE ConstantsAssumption
<1> DEFINE u == UserOf[c]
<1>1. PICK s \in SessionFor(u) :
        pending' = [pending EXCEPT ![u] = s] /\ sessions' = [sessions EXCEPT ![s] = Contents(u)]
  BY DEF ClientRequest, Arrive
<1>2. u \in Users
  OBVIOUS
<1>3. Contents(u)' = Contents(u) /\ \A w \in Users : w # u => Contents(w)' = Contents(w)
  <2> HIDE DEF u
  <2> QED BY <1>1, <1>2, ContentsAfterUse
<1>4. Boxes' = Boxes
  BY <1>3, BoxesSame
<1>5. Asking' = Asking \cup {c} /\ c \notin Asking
  BY DEF ClientRequest, Arrive, Asking, Open, OpenStates, BoxInv, IInv, TypeOK
<1>6. reply' = [reply EXCEPT ![c] = Abstract!Unanswered]
  BY DEF ClientRequest, Arrive, Answer, Abstract!Unanswered
<1> QED
  BY <1>4, <1>5, <1>6 DEF Abstract!Ask, Boxes, Asking

LEMMA ReplyStep ==
  ASSUME BoxInv, NEW c \in Clients, Open(c), NEW a, Return(c, a)
  PROVE  Abstract!Reply(c, a)
<1> USE ConstantsAssumption
<1> DEFINE u == UserOf[c]
<1>1. u \in Users /\ Contents(u)' = NewSession /\ \A w \in Users : w # u => Contents(w)' = Contents(w)
  BY ContentsAfterReturn
<1>2. BoxOf(u)' = Abstract!Empty
  <2>1. (NewSession.cache # <<>>) = FALSE /\ NewSession.event = FALSE /\ NewSession.verification = None
    BY DEF NewSession
  <2> QED
    BY <1>1, <2>1, Zenon DEF BoxOf, Abstract!Empty
<1>3. Boxes' = [Boxes EXCEPT ![u] = Abstract!Empty]
  <2> HIDE DEF u
  <2> QED BY <1>1, <1>2, BoxesAfter
<1>4. Asking' = Asking \ {c} /\ c \in Asking
  BY DEF Return, Respond, Asking, Open, OpenStates, BoxInv, IInv, TypeOK
<1>5. reply' = [reply EXCEPT ![c] = a]
  BY DEF Return, Respond
<1> QED
  BY <1>3, <1>4, <1>5 DEF Abstract!Reply, Boxes, Asking

LEMMA TellStep ==
  ASSUME BoxInv, NEW c \in Clients, Resume(c)
  PROVE  Abstract!Tell(c)
<1> USE ConstantsAssumption
<1> DEFINE u == UserOf[c]
           v == sessions[held[c]].verification
<1>1. Open(c) /\ held[c] \in Sessions /\ pending[u] = held[c] /\ sessions[held[c]].event
  BY DEF Resume, Open, OpenStates, BoxInv, IInv, HandlersHold, Listed
<1>2. u \in Users /\ Owns(u, held[c]) /\ Contents(u) = sessions[held[c]]
  BY <1>1 DEF Owns, Contents
<1>3. sessions[held[c]].cache # <<>> /\ sessions[held[c]] \in SessionRecords
  BY <1>1, <1>2 DEF BoxInv, IInv, VerdictHasEvidence, TypeOK
<1>4. v \in Abstract!Verdict
  BY <1>3 DEF SessionRecords, Verdicts, Abstract!Verdict
<1>5. BoxOf(u) = Abstract!Released(v)
  <2>1. (Contents(u).cache # <<>>) = TRUE /\ Contents(u).event = TRUE /\ Contents(u).verification = v
    BY <1>1, <1>2, <1>3 DEF SessionRecords
  <2> QED
    BY <2>1, Zenon DEF BoxOf, Abstract!Released
<1>6. Abstract!Reply(c, Abstract!Told(v))
  BY <1>1, ReplyStep DEF Resume, Answer, Abstract!Told
<1> QED
  BY <1>2, <1>4, <1>5, <1>6 DEF Abstract!Tell

LEMMA TimeOutStep ==
  ASSUME BoxInv, NEW c \in Clients, Expire(c)
  PROVE  Abstract!TimeOut(c)
BY ReplyStep DEF Expire, Open, OpenStates, Answer, Abstract!TimeOut, Abstract!TimedOut

LEMMA SubmitStep ==
  ASSUME BoxInv, NEW u \in Users, NEW m \in Models, Metrics(u, m)
  PROVE  Abstract!Submit(u) \/ UNCHANGED Abstract!boxVars
<1> USE ConstantsAssumption
<1> DEFINE sample == [userID |-> u, model |-> m]
           r == WithSample(Contents(u), sample)
<1>1. PICK s \in SessionFor(u) :
        pending' = [pending EXCEPT ![u] = s] /\ sessions' = [sessions EXCEPT ![s] = r]
  BY DEF Metrics, Store
<1>2. Contents(u)' = r /\ \A w \in Users : w # u => Contents(w)' = Contents(w)
  <2> HIDE DEF r
  <2> QED BY <1>1, ContentsAfterUse
<1>3. Contents(u) \in SessionRecords /\ Contents(u).cache \in Seq(Samples) /\ sample \in Samples
  BY BoxShape DEF SessionRecords, Samples
<1>4. (r.cache # <<>>) = TRUE /\ r.event = Contents(u).event
      /\ r.verification = Contents(u).verification
  BY <1>3 DEF WithSample
<1>5. BoxOf(u)' = [evidence |-> TRUE, released |-> Contents(u).event,
                   verdict |-> Contents(u).verification]
  <2> HIDE DEF r
  <2> QED BY <1>2, <1>4, Zenon DEF BoxOf
<1>6. Boxes' = [Boxes EXCEPT ![u] = BoxOf(u)']
  BY <1>2, BoxesAfter
<1>7. Asking' = Asking /\ reply' = reply
  BY DEF Metrics, Store, Asking, Open
<1>8. CASE Contents(u).cache = <<>>
  <2>1. (Contents(u).cache # <<>>) = FALSE
    BY <1>8
  <2>2. BoxOf(u) = Abstract!Empty
    BY <2>1, BoxShape DEF BoxOf
  <2>3. Contents(u).event = FALSE /\ Contents(u).verification = None
    BY <2>2 DEF BoxOf, Abstract!Empty
  <2>4. BoxOf(u)' = Abstract!Evidence
    BY <1>5, <2>3, Zenon DEF Abstract!Evidence
  <2> QED
    BY <1>6, <1>7, <2>2, <2>4 DEF Abstract!Submit, Boxes, Asking
<1>9. CASE Contents(u).cache # <<>>
  <2>1. (Contents(u).cache # <<>>) = TRUE
    BY <1>9
  <2>2. BoxOf(u)' = BoxOf(u)
    BY <1>5, <2>1, Zenon DEF BoxOf
  <2>3. Boxes' = Boxes
    BY <1>6, <2>2 DEF Boxes
  <2> QED
    BY <1>7, <2>3 DEF Abstract!boxVars, Boxes, Asking
<1> QED
  BY <1>8, <1>9

(* Releasing u's session with v is Decide(u, v), if v may replace what the *)
(* session has.                                                            *)
LEMMA DecideStep ==
  ASSUME BoxInv, NEW u \in Users, NEW v \in Verdicts, HasData(u), Release(pending[u], v),
         UNCHANGED <<pending, held, reply>>,
         v = None => sessions[pending[u]].verification = None
  PROVE  Abstract!Decide(u, v)
<1> USE ConstantsAssumption
<1> DEFINE s == pending[u]
<1>1. /\ s \in Sessions /\ Contents(u) = sessions[s] /\ sessions[s] \in SessionRecords
      /\ sessions[s].cache # <<>>
      /\ Contents(u)' = [event |-> TRUE, cache |-> sessions[s].cache, verification |-> v]
      /\ \A w \in Users : w # u => Contents(w)' = Contents(w)
  BY ContentsAfterRelease
<1>2. BoxOf(u)' = Abstract!Released(v)
  <2>1. (sessions[s].cache # <<>>) = TRUE
    BY <1>1
  <2>2. /\ Contents(u)'.cache = sessions[s].cache /\ Contents(u)'.event = TRUE
        /\ Contents(u)'.verification = v
    BY <1>1
  <2> HIDE DEF s
  <2> QED
    BY <2>1, <2>2, Zenon DEF BoxOf, Abstract!Released
<1>3. Boxes' = [Boxes EXCEPT ![u] = Abstract!Released(v)]
  BY <1>1, <1>2, BoxesAfter
<1>4. BoxOf(u) # Abstract!Empty
  <2>1. (Contents(u).cache # <<>>) = TRUE
    BY <1>1
  <2>2. BoxOf(u).evidence = TRUE
    BY <2>1 DEF BoxOf
  <2> QED
    BY <2>2 DEF Abstract!Empty
<1>5. ASSUME v = None PROVE BoxOf(u) \in {Abstract!Evidence, Abstract!Released(None)}
  <2>1. (Contents(u).cache # <<>>) = TRUE /\ Contents(u).verification = None
        /\ (Contents(u).event = TRUE \/ Contents(u).event = FALSE)
    BY <1>1, <1>5 DEF SessionRecords
  <2>2. CASE Contents(u).event = TRUE
    BY <2>1, <2>2, Zenon DEF BoxOf, Abstract!Released
  <2>3. CASE Contents(u).event = FALSE
    BY <2>1, <2>3, Zenon DEF BoxOf, Abstract!Evidence
  <2> QED
    BY <2>1, <2>2, <2>3
<1>6. Asking' = Asking
  BY DEF Release, Asking, Open, OpenStates
<1> QED
  BY <1>3, <1>4, <1>5, <1>6 DEF Abstract!Decide, Boxes, Asking

LEMMA FinishBoxStep ==
  ASSUME BoxInv, NEW u \in Users, Finish(u)
  PROVE  (\E v \in Abstract!Verdict : Abstract!Decide(u, v)) \/ UNCHANGED Abstract!boxVars
<1> USE ConstantsAssumption
<1>1. ASSUME UNCHANGED <<pending, sessions, state, held, reply>> PROVE UNCHANGED Abstract!boxVars
  BY <1>1 DEF Abstract!boxVars, BoxOf, Contents, Open
<1>2. CASE FinishGrace(u)
  <2> DEFINE v == sessions[pending[u]].verification
  <2>1. HasData(u) /\ Release(pending[u], v) /\ UNCHANGED <<pending, held, reply>>
    BY <1>2 DEF FinishGrace, HasReference
  <2>2. v \in Verdicts
    BY <2>1 DEF HasData, BoxInv, IInv, TypeOK, SessionRecords
  <2>3. Abstract!Decide(u, v)
    BY <2>1, <2>2, DecideStep
  <2> QED
    BY <2>2, <2>3 DEF Verdicts, Abstract!Verdict
<1>3. ASSUME NEW v \in BOOLEAN, NEW attested \in BOOLEAN, FinishVerdict(u, v, attested)
      PROVE  \E x \in Abstract!Verdict : Abstract!Decide(u, x)
  <2>1. HasData(u) /\ Release(pending[u], v) /\ UNCHANGED <<pending, held, reply>> /\ v \in Verdicts
    BY <1>3 DEF FinishVerdict, HasReference, Verdicts
  <2>2. v # None
    OBVIOUS
  <2>3. Abstract!Decide(u, v)
    BY <2>1, <2>2, DecideStep
  <2> QED
    BY <2>1, <2>3 DEF Verdicts, Abstract!Verdict
<1>4. CASE FinishRefused(u)
  BY <1>1, <1>4 DEF FinishRefused
<1>5. CASE FinishNoReference(u)
  BY <1>1, <1>5 DEF FinishNoReference
<1>6. CASE FinishNotBuilt(u)
  BY <1>1, <1>6 DEF FinishNotBuilt
<1>7. CASE FinishNotRun(u)
  BY <1>1, <1>7 DEF FinishNotRun
<1> QED
  BY <1>2, <1>3, <1>4, <1>5, <1>6, <1>7 DEF Finish

LEMMA ForgetStep ==
  ASSUME BoxInv, LoseMemory
  PROVE  Abstract!Forget
<1>1. Boxes' = [u \in Users |-> Abstract!Empty]
  <2>1. \A u \in Users : Contents(u)' = NewSession
    BY DEF LoseMemory, Contents
  <2>2. (NewSession.cache # <<>>) = FALSE /\ NewSession.event = FALSE /\ NewSession.verification = None
    BY DEF NewSession
  <2>3. \A u \in Users : BoxOf(u)' = Abstract!Empty
    BY <2>1, <2>2, Zenon DEF BoxOf, Abstract!Empty
  <2> QED
    BY <2>3 DEF Boxes
<1>2. Asking' = {} /\ reply' = reply
  BY DEF LoseMemory, Asking, Open, OpenStates
<1> QED
  BY <1>1, <1>2 DEF Abstract!Forget, Boxes, Asking

(* Each answer takes the latest verdict that was released for its own      *)
(* userID after evidence came, and takes it once; the service may only be  *)
(* late or lose its memory.                                                *)
THEOREM Refinement ==
  ASSUME OwnUserIDs PROVE Spec => ImplementsBox
<1> USE ConstantsAssumption
<1>1. Init => Abstract!BoxInit
  <2> SUFFICES ASSUME Init PROVE Abstract!BoxInit
    OBVIOUS
  <2>1. (NewSession.cache # <<>>) = FALSE /\ NewSession.event = FALSE /\ NewSession.verification = None
    BY DEF NewSession
  <2>2. \A u \in Users : Contents(u) = NewSession
    BY DEF Init, Contents
  <2>3. \A u \in Users : BoxOf(u) = Abstract!Empty
    BY <2>1, <2>2, Zenon DEF BoxOf, Abstract!Empty
  <2>4. Asking = {} /\ reply = [c \in Clients |-> Abstract!Unanswered]
    BY DEF Init, Asking, Open, OpenStates, Answer, Abstract!Unanswered
  <2> QED
    BY <2>3, <2>4 DEF Abstract!BoxInit, Asking
<1>2. BoxInv /\ [Next]_vars => [Abstract!BoxNext]_(Abstract!boxVars)
  <2> SUFFICES ASSUME BoxInv, [Next]_vars PROVE [Abstract!BoxNext]_(Abstract!boxVars)
    OBVIOUS
  <2>1. ASSUME NEW c \in Clients, ClientRequest(c) \/ Resume(c) \/ Expire(c) PROVE Abstract!BoxNext
    BY <2>1, AskStep, TellStep, TimeOutStep DEF Abstract!BoxNext
  <2>2. ASSUME NEW c \in Clients, TimerFires(c) PROVE UNCHANGED Abstract!boxVars
    <3>1. Asking' = Asking
      BY <2>2 DEF TimerFires, Cancel, Asking, Open, OpenStates, BoxInv, IInv, TypeOK
    <3> QED
      BY <2>2, <3>1 DEF TimerFires, Cancel, Abstract!boxVars, BoxOf, Contents, Asking
  <2>3. ASSUME NEW u \in Users, NEW m \in Models, Metrics(u, m)
        PROVE  Abstract!BoxNext \/ UNCHANGED Abstract!boxVars
    BY <2>3, SubmitStep DEF Abstract!BoxNext
  <2>4. ASSUME NEW u \in Users, Finish(u) PROVE Abstract!BoxNext \/ UNCHANGED Abstract!boxVars
    BY <2>4, FinishBoxStep DEF Abstract!BoxNext
  <2>5. ASSUME NEW u \in Users, CrashInSave(u) PROVE Abstract!BoxNext
    BY <2>5, ForgetStep DEF CrashInSave, Abstract!BoxNext
  <2>6. ASSUME Crash PROVE Abstract!BoxNext
    BY <2>6, ForgetStep DEF Crash, Abstract!BoxNext
  <2>7. ASSUME UNCHANGED vars PROVE UNCHANGED Abstract!boxVars
    BY <2>7 DEF vars, Abstract!boxVars, BoxOf, Contents, Open
  <2> QED
    BY <2>1, <2>2, <2>3, <2>4, <2>5, <2>6, <2>7 DEF Next
<1> QED
  BY <1>1, <1>2, BoxInvariance, PTL DEF Spec, ImplementsBox, Abstract!BoxSpec

------------------------------------------------------------------------------
(* Liveness, with guards for ENABLED as in TmbServerProofs: whoever is     *)
(* answered asks, which is the guard of Reply in VerdictService.           *)

OnlyAskers(c) ==
  ENABLED <<Abstract!Tell(c) \/ Abstract!TimeOut(c)>>_(Abstract!boxVars) => c \in Asking

GuardIsNeeded == \A c \in Clients : OnlyAskers(c)

(* The service answers whoever asks of its boxes, or restarts: the answer  *)
(* of an open request comes whatever its session goes through meanwhile.   *)
THEOREM FairRefinement ==
  ASSUME OwnUserIDs
  PROVE  FairSpec /\ []GuardsAreEnough /\ []GuardIsNeeded => ImplementsFairBox
<1>1. ASSUME NEW c \in Clients
      PROVE  FairSpec /\ []GuardsAreEnough /\ []GuardIsNeeded => Abstract!AnswerFair(c)
  <2>1. Settled(c) => ~Open(c)
    BY DEF Settled
  <2>2. GuardIsNeeded => OnlyAskers(c)
    BY DEF GuardIsNeeded
  <2>3. c \in Asking => Open(c)
    BY DEF Asking
  <2> QED
    BY <2>1, <2>2, <2>3, RequestSettles, FairnessServes, PTL
    DEF FairSpec, OnlyAskers, Abstract!AnswerFair
<1>2. FairSpec /\ []GuardsAreEnough /\ []GuardIsNeeded => Abstract!BoxFairness
  BY <1>1 DEF Abstract!BoxFairness
<1> QED
  BY <1>2, Refinement DEF FairSpec, ImplementsBox, ImplementsFairBox, Abstract!BoxFairSpec

==============================================================================
