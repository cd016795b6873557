---------------------------- MODULE ArchiveProofs ----------------------------
(***************************************************************************)
(* The archive verifier is right about any honest machine, however long    *)
(* its logs and whatever happens to them during the export.                *)
(***************************************************************************)
EXTENDS Archive, TLAPS

Min2(i, j) == IF i <= j THEN i ELSE j

Clean(n) == \A i \in 1 .. n : ~IsEdit(log[i])

(* The PCRs after an entry come from those before it, so they only grow. *)
History ==
  /\ Len(log) >= 1 /\ Len(pcr) = Len(log)
  /\ log[1] = Boot /\ pcr[1] = KernelExtended(NoValues, Boot)
  /\ \A i \in 1 .. Len(log) - 1 : pcr[i + 1] = KernelExtended(pcr[i], log[i + 1])
  /\ \A i, j \in 1 .. Len(log) : i <= j =>
       \A p \in Pcrs :
         /\ Len(pcr[i][p]) <= Len(pcr[j][p])
         /\ \A k \in 1 .. Len(pcr[i][p]) : pcr[i][p][k] = pcr[j][p][k]

(* The entries of a protected file that a clean log has. *)
RulesAre(n, v) == \A i \in 1 .. n : log[i].file = "rules" => log[i].content = v
AuditUpTo(n, k) == \A i \in 1 .. n : log[i].file = "audit" => log[i].content <= k
Has(f, n) == \E i \in 1 .. n : log[i].file = f /\ log[i].content # Zeros

(* From the copy of audit.log to the quote. *)
Copied == {"audit_copied", "rules_open", "rules_copied"}
Undisturbed == Manual \cap Copied = {}

Quoted == {"quoted", "exported", "replaying", "accepted", "rejected"}
Verifying == {"replaying", "accepted", "rejected"}

(* What has been taken so far is what the log says. *)
Taken ==
  /\ version >= 1
  /\ Clean(Len(log)) => RulesAre(Len(log), version) /\ AuditUpTo(Len(log), lines)
  /\ stage \in Copied /\ Undisturbed /\ Clean(Len(log)) => AuditUpTo(Len(log), archive.audit)
  /\ stage = "rules_copied" /\ Clean(Len(log)) => archive.rules = version
  /\ stage \in Copied \cup {"audit_measured"} => Has("audit", Len(log))
  /\ stage \in {"rules_open", "rules_copied"} => Has("rules", Len(log))

(* What the quote covers. *)
Covered ==
  /\ archive.quotedAt \in 0 .. Len(log)
  /\ stage \in Quoted =>
       /\ archive.quotedAt >= 1 /\ archive.quote = pcr[archive.quotedAt]
       /\ Has("audit", archive.quotedAt) /\ Has("rules", archive.quotedAt)
       /\ Clean(archive.quotedAt) => RulesAre(archive.quotedAt, archive.rules)
       /\ Undisturbed /\ Clean(archive.quotedAt) => AuditUpTo(archive.quotedAt, archive.audit)
  /\ stage \in Verifying \cup {"exported"} =>
       /\ archive.quotedAt <= Len(archive.log) /\ Len(archive.log) <= Len(log)
       /\ \A i \in 1 .. Len(archive.log) : archive.log[i] = log[i]

(* The latest hashes are those of the entries replayed. *)
LatestOf(n) ==
  \A f \in Files :
    /\ latest[f] # Zeros => \E i \in 1 .. n : log[i].file = f /\ log[i].content = latest[f]
    /\ Has(f, n) => latest[f] # Zeros

(* Up to the quote the replay is at the PCRs the machine had, and nothing  *)
(* is skipped; from there on everything is.                                *)
Replaying ==
  /\ stage \notin Verifying \/ pos = 0 =>
       /\ pos = 0 /\ replayed = NoValues /\ matches = {}
       /\ latest = [f \in Files |-> Zeros]
  /\ stage \in Verifying /\ pos > 0 /\ pos <= archive.quotedAt =>
       /\ replayed = pcr[pos]
       /\ matches = {p \in Pcrs : pcr[pos][p] = archive.quote[p]}
  /\ stage \in Verifying /\ pos >= archive.quotedAt =>
       replayed = archive.quote /\ matches = Pcrs
  /\ stage \in Verifying =>
       /\ Clean(Min2(pos, archive.quotedAt))
       /\ LatestOf(Min2(pos, archive.quotedAt))

Verdict ==
  /\ stage = "replaying" => archive.booted
  /\ AcceptedIsUnedited
  /\ Undisturbed => HonestIsAccepted

AInv == TypeOK /\ History /\ Taken /\ Covered /\ Replaying /\ Verdict

------------------------------------------------------------------------------
(* Types *)

LEMMA ExtendedType ==
  ASSUME NEW v \in PcrValues, NEW p \in Pcrs, NEW d \in Digests
  PROVE  /\ Extended(v, p, d) \in PcrValues
         /\ Extended(v, p, d)[p] = Append(v[p], d)
         /\ \A q \in Pcrs \ {p} : Extended(v, p, d)[q] = v[q]
  BY DEF Extended, PcrValues

LEMMA DigestTypes ==
  ASSUME NEW e \in Entries
  PROVE  KernelDigest(e) \in Digests /\ Extension(e) = KernelDigest(e) /\ e.pcr \in Pcrs
  BY DEF Entries, KernelDigest, Extension, Digests, Ones, DigestOf, Zeros

LEMMA StartTypes ==
  /\ NoValues \in PcrValues /\ Boot \in Entries
  /\ KernelExtended(NoValues, Boot) \in PcrValues
  /\ [f \in Files |-> Zeros] \in [Files -> Nat]
<1>1. NoValues \in PcrValues
  BY DEF NoValues, PcrValues
<1>2. Boot \in Entries
  BY DEF Boot, Entries, Entry, Files, Pcrs
<1>3. KernelExtended(NoValues, Boot) \in PcrValues
  BY <1>1, <1>2, ExtendedType, DigestTypes DEF KernelExtended
<1> QED
  BY <1>1, <1>2, <1>3 DEF Zeros

(* One more entry changes nothing that was logged before. *)
LEMMA MeasuredFrame ==
  ASSUME TypeOK, History, NEW e \in Entries, Measured(e)
  PROVE  /\ log' \in Seq(Entries) /\ pcr' \in Seq(PcrValues)
         /\ Len(log') = Len(log) + 1 /\ Len(pcr') = Len(pcr) + 1
         /\ \A i \in 1 .. Len(log) : log'[i] = log[i] /\ pcr'[i] = pcr[i]
         /\ log'[Len(log')] = e
         /\ pcr'[Len(log')] = KernelExtended(pcr[Len(log)], e)
<1>1. pcr[Len(pcr)] \in PcrValues
  BY DEF TypeOK, History
<1>2. KernelExtended(pcr[Len(pcr)], e) \in PcrValues
  BY <1>1, ExtendedType, DigestTypes DEF KernelExtended
<1> QED
  BY <1>2 DEF TypeOK, History, Measured

(* What each of the steps that measure something measures. *)
MeasuringStep ==
  Activity \/ (\E f \in ReadOnly : Edit(f) \/ MeasureByHand(f))
    \/ OpenAudit \/ MeasureAudit \/ OpenRules

LEMMA MeasuringMeasures ==
  ASSUME TypeOK, MeasuringStep
  PROVE  \E e \in Entries : Measured(e)
<1> USE ArchiveAssumption DEF Entries, Entry, Pcrs, Files, ReadOnly, Violation, Zeros, TypeOK
<1>1. CASE Activity
  <2>1. Violation \in Entries /\ \A p \in {10, 11} : Entry(p, "other", 1) \in Entries
    OBVIOUS
  <2> QED
    BY <1>1, <2>1 DEF Activity
<1>2. ASSUME NEW f \in ReadOnly, Edit(f) \/ MeasureByHand(f)
      PROVE  \E e \in Entries : Measured(e)
  <2>1. ContentOf(f) \in Nat
    BY DEF ContentOf
  <2>2. Entry(10, f, ContentOf(f)) \in Entries /\ Entry(11, f, ContentOf(f)) \in Entries
    BY <2>1
  <2> QED
    BY <1>2, <2>2 DEF Edit, MeasureByHand
<1>3. CASE OpenAudit \/ MeasureAudit \/ OpenRules
  <2>1. /\ Violation \in Entries /\ Entry(10, "audit", lines) \in Entries
        /\ Entry(10, "rules", version) \in Entries
    OBVIOUS
  <2> QED
    BY <1>3, <2>1 DEF OpenAudit, MeasureAudit, OpenRules
<1> QED
  BY <1>1, <1>2, <1>3 DEF MeasuringStep

LEMMA NoArchiveType ==
  NoArchive \in Archives /\ \A b \in BOOLEAN : [NoArchive EXCEPT !.booted = b] \in Archives
<1>1. <<>> \in Seq(Entries)
  OBVIOUS
<1>2. NoArchive \in Archives
  BY <1>1, StartTypes DEF NoArchive, Archives
<1>3. ASSUME NEW b \in BOOLEAN PROVE [NoArchive EXCEPT !.booted = b] \in Archives
  BY <1>2 DEF Archives
<1> QED
  BY <1>2, <1>3

LEMMA InitTypes == Init => TypeOK
  BY StartTypes, NoArchiveType, ArchiveAssumption DEF Init, TypeOK, Stages, NoArchive

LEMMA TypesKept == TypeOK /\ History /\ Replaying /\ [Next]_vars => TypeOK'
<1> SUFFICES ASSUME TypeOK, History, Replaying, [Next]_vars PROVE TypeOK'
  OBVIOUS
<1> USE ArchiveAssumption DEF Stages
<1>1. CASE MeasuringStep
  <2>1. log' \in Seq(Entries) /\ pcr' \in Seq(PcrValues)
    BY <1>1, MeasuringMeasures, MeasuredFrame
  <2> QED
    BY <1>1, <2>1
    DEF MeasuringStep, Activity, Edit, MeasureByHand, OpenAudit, MeasureAudit, OpenRules,
        TypeOK, To, replayVars
<1>2. CASE AuditGrows
  BY <1>2 DEF AuditGrows, TypeOK, replayVars
<1>3. CASE Reboot
  BY <1>3, StartTypes, NoArchiveType DEF Reboot, TypeOK, NoArchive
<1>4. CASE StartExport
  <2>1. archive' \in Archives /\ archive'.log = <<>>
    BY <1>4, NoArchiveType DEF StartExport, TypeOK, NoArchive
  <2> QED
    BY <1>4, <2>1, StartTypes DEF StartExport, TypeOK, To, machineVars
<1>5. CASE CopyAudit \/ CopyRules
  <2>1. archive' \in Archives /\ archive'.log = archive.log
    <3>1. lines \in Nat /\ version \in Nat /\ archive \in Archives
      BY DEF TypeOK
    <3>2. CASE CopyAudit
      BY <3>1, <3>2 DEF CopyAudit, Archives
    <3>3. CASE CopyRules
      BY <3>1, <3>3 DEF CopyRules, Archives
    <3> QED
      BY <1>5, <3>2, <3>3
  <2> QED
    BY <1>5, <2>1 DEF CopyAudit, CopyRules, TypeOK, To, machineVars, replayVars
<1>6. CASE Quote
  <2>1. archive' \in Archives /\ archive'.log = archive.log
    <3>1. pcr[Len(pcr)] \in PcrValues /\ Len(log) \in Nat /\ archive \in Archives
      BY DEF TypeOK, History
    <3> QED
      BY <1>6, <3>1 DEF Quote, Archives
  <2> QED
    BY <1>6, <2>1 DEF Quote, TypeOK, To, machineVars, replayVars
<1>11. CASE CopyLog
  <2>1. archive' \in Archives /\ pos' = 0
    BY <1>11 DEF CopyLog, TypeOK, Archives, Replaying, Verifying, To, replayVars
  <2> QED
    BY <1>11, <2>1 DEF CopyLog, TypeOK, Archives, To, machineVars, replayVars
<1>7. CASE CheckBoot \/ IllegalEdit \/ Decide
  BY <1>7 DEF CheckBoot, IllegalEdit, Reading, Decide, Reject, TypeOK, machineVars, replayVars
<1>8. CASE SkipEntry
  BY <1>8 DEF SkipEntry, Reading, Skipped, TypeOK, machineVars
<1>9. CASE Replay
  <2>1. NextEntry \in Entries
    BY <1>9 DEF Replay, Reading, NextEntry, TypeOK, Archives
  <2>2. Extended(replayed, NextEntry.pcr, Extension(NextEntry)) \in PcrValues
    BY <2>1, ExtendedType, DigestTypes DEF TypeOK
  <2>3. Recorded(NextEntry) \in [Files -> Nat]
    BY <2>1 DEF Recorded, Entries, TypeOK
  <2> QED
    BY <1>9, <2>2, <2>3 DEF Replay, Reading, ReplayEntry, TypeOK, machineVars
<1>10. CASE UNCHANGED vars
  BY <1>10 DEF vars, TypeOK, machineVars, replayVars
<1> QED
  BY <1>1, <1>2, <1>3, <1>4, <1>5, <1>6, <1>7, <1>8, <1>9, <1>10, <1>11
  DEF Next, Machine, Export, Verify, MeasuringStep

------------------------------------------------------------------------------
(* The history of the PCRs *)

(* v is what w has become. *)
Grown(v, w) ==
  \A p \in Pcrs :
    /\ Len(v[p]) <= Len(w[p])
    /\ \A k \in 1 .. Len(v[p]) : v[p][k] = w[p][k]

LEMMA ExtendedGrows ==
  ASSUME NEW v \in PcrValues, NEW e \in Entries
  PROVE  /\ Grown(v, KernelExtended(v, e))
         /\ Len(KernelExtended(v, e)[e.pcr]) = Len(v[e.pcr]) + 1
         /\ \A p \in Pcrs \ {e.pcr} : KernelExtended(v, e)[p] = v[p]
<1>1. KernelDigest(e) \in Digests /\ e.pcr \in Pcrs
  BY DigestTypes
<1>2. /\ KernelExtended(v, e)[e.pcr] = Append(v[e.pcr], KernelDigest(e))
      /\ \A p \in Pcrs \ {e.pcr} : KernelExtended(v, e)[p] = v[p]
  BY <1>1, ExtendedType DEF KernelExtended
<1>3. \A p \in Pcrs : v[p] \in Seq(Digests)
  BY DEF PcrValues
<1>4. ASSUME NEW p \in Pcrs
      PROVE  /\ Len(v[p]) <= Len(KernelExtended(v, e)[p])
             /\ \A k \in 1 .. Len(v[p]) : v[p][k] = KernelExtended(v, e)[p][k]
  BY <1>1, <1>2, <1>3
<1> QED
  BY <1>1, <1>2, <1>3, <1>4 DEF Grown

LEMMA GrownTransitive ==
  ASSUME NEW u \in PcrValues, NEW v \in PcrValues, NEW w \in PcrValues,
         Grown(u, v), Grown(v, w)
  PROVE  Grown(u, w)
<1> SUFFICES ASSUME NEW p \in Pcrs
             PROVE  /\ Len(u[p]) <= Len(w[p])
                    /\ \A k \in 1 .. Len(u[p]) : u[p][k] = w[p][k]
  BY DEF Grown
<1>1. u[p] \in Seq(Digests) /\ v[p] \in Seq(Digests) /\ w[p] \in Seq(Digests)
  BY DEF PcrValues
<1> QED
  BY <1>1 DEF Grown

LEMMA GrownReflexive == ASSUME NEW v \in PcrValues PROVE Grown(v, v)
  BY DEF Grown, PcrValues

LEMMA InitHistory == Init => History
  BY StartTypes, GrownReflexive DEF Init, History, Grown

LEMMA HistoryKept == TypeOK /\ History /\ [Next]_vars => History'
<1> SUFFICES ASSUME TypeOK, History, [Next]_vars PROVE History'
  OBVIOUS
<1>1. ASSUME NEW e \in Entries, Measured(e) PROVE History'
  <2> DEFINE n == Len(log)
  <2>1. /\ n \in Nat /\ n >= 1 /\ Len(log') = n + 1 /\ Len(pcr') = n + 1
        /\ \A i \in 1 .. n : log'[i] = log[i] /\ pcr'[i] = pcr[i]
        /\ log'[n + 1] = e /\ pcr'[n + 1] = KernelExtended(pcr[n], e)
        /\ \A i \in 1 .. n : pcr[i] \in PcrValues
    BY <1>1, MeasuredFrame DEF TypeOK, History
  <2>2. log'[1] = Boot /\ pcr'[1] = KernelExtended(NoValues, Boot)
    BY <2>1 DEF History
  <2>3. \A i \in 1 .. n : pcr'[i + 1] = KernelExtended(pcr'[i], log'[i + 1])
    BY <2>1 DEF History
  <2>4. \A i \in 1 .. n, j \in 1 .. n : i <= j => Grown(pcr[i], pcr[j])
    BY DEF History, Grown
  <2>5. pcr'[n + 1] \in PcrValues /\ Grown(pcr[n], pcr'[n + 1])
    BY <2>1, ExtendedGrows, ExtendedType, DigestTypes DEF KernelExtended
  <2>6. \A i \in 1 .. n : Grown(pcr[i], pcr'[n + 1])
    BY <2>1, <2>4, <2>5, GrownTransitive
  <2>7. ASSUME NEW i \in 1 .. n + 1, NEW j \in 1 .. n + 1, i <= j
        PROVE  Grown(pcr'[i], pcr'[j])
    <3>1. CASE j = n + 1 /\ i = n + 1
      BY <2>5, <3>1, GrownReflexive
    <3>2. CASE j = n + 1 /\ i # n + 1
      BY <2>1, <2>6, <3>2
    <3>3. CASE j # n + 1
      BY <2>1, <2>4, <2>7, <3>3
    <3> QED
      BY <3>1, <3>2, <3>3
  <2> HIDE DEF n
  <2> QED
    BY <2>1, <2>2, <2>3, <2>7 DEF History, Grown
<1>2. CASE Reboot
  <2>1. Len(log') = 1 /\ Len(pcr') = 1 /\ log'[1] = Boot
        /\ pcr'[1] = KernelExtended(NoValues, Boot)
    BY <1>2 DEF Reboot
  <2>2. Grown(pcr'[1], pcr'[1])
    BY <2>1, StartTypes, GrownReflexive
  <2> QED
    BY <2>1, <2>2 DEF History, Grown
<1>3. CASE UNCHANGED <<log, pcr>>
  BY <1>3 DEF History
<1> QED
  BY <1>1, <1>2, <1>3, MeasuringMeasures
  DEF Next, Machine, Export, Verify, MeasuringStep, AuditGrows, StartExport, CopyAudit,
      CopyRules, CopyLog, Quote, CheckBoot, IllegalEdit, Decide, Reject, SkipEntry, Skipped,
      Replay, ReplayEntry, machineVars, vars

------------------------------------------------------------------------------
(* What the exporter has taken *)

LEMMA LogGrows ==
  ASSUME TypeOK, History, NEW e \in Entries, Measured(e)
  PROVE  /\ Clean(Len(log))' => Clean(Len(log)) /\ ~IsEdit(e)
         /\ \A f \in Files :
              Has(f, Len(log)) \/ (e.file = f /\ e.content # Zeros) => Has(f, Len(log))'
         /\ \A v \in Nat :
              RulesAre(Len(log), v) /\ (e.file = "rules" => e.content = v) =>
                \A i \in 1 .. Len(log') : log'[i].file = "rules" => log'[i].content = v
         /\ \A k \in Nat :
              AuditUpTo(Len(log), k) /\ (e.file = "audit" => e.content <= k) =>
                \A i \in 1 .. Len(log') : log'[i].file = "audit" => log'[i].content <= k
<1>1. /\ Len(log) \in Nat /\ Len(log') = Len(log) + 1
      /\ \A i \in 1 .. Len(log) : log'[i] = log[i]
      /\ log'[Len(log')] = e
  <2>1. Len(log) \in Nat
    BY DEF TypeOK
  <2> QED
    BY <2>1, MeasuredFrame
<1>2. Clean(Len(log))' => Clean(Len(log)) /\ ~IsEdit(e)
  BY <1>1 DEF Clean
<1>3. ASSUME NEW f \in Files, Has(f, Len(log)) \/ (e.file = f /\ e.content # Zeros)
      PROVE  Has(f, Len(log))'
  BY <1>1, <1>3 DEF Has
<1>4. ASSUME NEW v \in Nat, RulesAre(Len(log), v), e.file = "rules" => e.content = v
      PROVE  \A i \in 1 .. Len(log') : log'[i].file = "rules" => log'[i].content = v
  BY <1>1, <1>4 DEF RulesAre
<1>5. ASSUME NEW k \in Nat, AuditUpTo(Len(log), k), e.file = "audit" => e.content <= k
      PROVE  \A i \in 1 .. Len(log') : log'[i].file = "audit" => log'[i].content <= k
  BY <1>1, <1>5 DEF AuditUpTo
<1> QED
  BY <1>2, <1>3, <1>4, <1>5

LEMMA InitTaken == Init => Taken
  BY DEF Init, Taken, Copied, Clean, RulesAre, AuditUpTo, Boot, Entry

LEMMA TakenKept == TypeOK /\ History /\ Taken /\ [Next]_vars => Taken'
<1> SUFFICES ASSUME TypeOK, History, Taken, [Next]_vars PROVE Taken'
  OBVIOUS
<1> USE DEF Taken
<1>0. version \in Nat /\ version >= 1 /\ lines \in Nat /\ archive.audit \in Nat /\ Len(log) \in Nat
  BY ArchiveAssumption DEF TypeOK, Archives
(* An entry that an honest log may have at any stage, or an illegal one. *)
<1>1. ASSUME NEW e \in Entries, Measured(e),
             IsEdit(e) \/
               /\ version' = version
               /\ e.file = "rules" => e.content = version
               /\ e.file = "audit" => e.content <= lines
               /\ e.file = "audit" /\ stage \in Copied /\ Undisturbed => e.content <= archive.audit,
             version' >= 1, lines' = lines, stage' = stage \/ stage' = "audit_open", archive' = archive
      PROVE  Taken'
  <2>1. Clean(Len(log))' => Clean(Len(log)) /\ ~IsEdit(e)
    BY <1>1, LogGrows
  <2>2. Clean(Len(log))' => RulesAre(Len(log), version)' /\ AuditUpTo(Len(log), lines)'
    <3> SUFFICES ASSUME Clean(Len(log))'
                 PROVE  RulesAre(Len(log), version)' /\ AuditUpTo(Len(log), lines)'
      OBVIOUS
    <3>1. \A i \in 1 .. Len(log') : log'[i].file = "rules" => log'[i].content = version
      BY <1>0, <1>1, <2>1, LogGrows
    <3>2. \A i \in 1 .. Len(log') : log'[i].file = "audit" => log'[i].content <= lines
      BY <1>0, <1>1, <2>1, LogGrows
    <3> QED
      BY <1>1, <2>1, <3>1, <3>2 DEF RulesAre, AuditUpTo
  <2>3. stage \in Copied /\ Undisturbed /\ Clean(Len(log))' => AuditUpTo(Len(log), archive.audit)'
    <3> SUFFICES ASSUME stage \in Copied, Undisturbed, Clean(Len(log))'
                 PROVE  AuditUpTo(Len(log), archive.audit)'
      OBVIOUS
    <3>1. \A i \in 1 .. Len(log') : log'[i].file = "audit" => log'[i].content <= archive.audit
      BY <1>0, <1>1, <2>1, LogGrows
    <3> QED
      BY <1>1, <3>1 DEF AuditUpTo
  <2>4. \A f \in Files : Has(f, Len(log)) => Has(f, Len(log))'
    BY <1>1, LogGrows
  <2> QED
    BY <1>1, <2>1, <2>2, <2>3, <2>4 DEF Copied, Files, ReadOnly
<1>2. CASE Activity
  <2> HIDE DEF Taken
  <2>1. Violation \in Entries /\ \A p \in {10, 11} : Entry(p, "other", 1) \in Entries
    BY DEF Violation, Entry, Entries, Pcrs, Files, ReadOnly, Zeros
  <2>2. /\ UNCHANGED <<version, lines, stage, archive>>
        /\ Measured(Violation) \/ \E p \in {10, 11} : Measured(Entry(p, "other", 1))
    BY <1>2 DEF Activity
  <2>3. /\ Violation.file = "audit" /\ Violation.content = Zeros
        /\ \A p \in {10, 11} : Entry(p, "other", 1).file = "other"
    BY DEF Violation, Entry
  <2> QED
    BY <1>0, <1>1, <2>1, <2>2, <2>3 DEF Zeros
<1>3. ASSUME NEW f \in ReadOnly, Edit(f) \/ MeasureByHand(f) PROVE Taken'
  <2> HIDE DEF Taken
  <2>1. Entry(10, f, ContentOf(f)) \in Entries /\ Entry(11, f, ContentOf(f)) \in Entries
    BY <1>0 DEF Entry, Entries, Pcrs, Files, ReadOnly, ContentOf
  <2>2. IsEdit(Entry(11, f, ContentOf(f)))
    BY DEF IsEdit, Entry
  <2>3. UNCHANGED <<lines, stage, archive>>
    BY <1>3 DEF Edit, MeasureByHand
  <2>4. CASE Edit(f)
    <3>1. version' >= 1
      BY <1>0, <2>4 DEF Edit
    <3>2. Measured(Entry(11, f, ContentOf(f)))
      BY <2>4 DEF Edit
    <3> QED
      BY <1>1, <2>1, <2>2, <2>3, <3>1, <3>2
  <2>5. CASE MeasureByHand(f)
    <3> DEFINE e == Entry(10, f, ContentOf(f))
    <3>1. Measured(e) /\ stage \in Manual /\ version' = version
      BY <2>5 DEF MeasureByHand
    <3>2. (e.file = "rules" => e.content = version) /\ (e.file = "audit" => e.content = lines)
      BY DEF Entry, ContentOf
    <3>3. stage \in Copied => ~Undisturbed
      BY <3>1 DEF Undisturbed
    <3>4. e \in Entries
      BY <2>1
    <3> HIDE DEF e
    <3> QED
      BY <1>0, <1>1, <2>3, <3>1, <3>2, <3>3, <3>4
  <2> QED
    BY <1>3, <2>4, <2>5
<1>4. CASE OpenAudit
  <2> HIDE DEF Taken
  <2>1. Violation \in Entries
    BY DEF Violation, Entry, Entries, Pcrs, Files, ReadOnly, Zeros
  <2> QED
    BY <1>0, <1>1, <1>4, <2>1 DEF OpenAudit, To, Violation, Entry, Zeros
<1>5. CASE MeasureAudit
  <2> DEFINE e == Entry(10, "audit", lines)
  <2>1. e \in Entries /\ e.file = "audit" /\ e.content = lines /\ lines # Zeros
    BY ArchiveAssumption DEF Entry, Entries, Pcrs, Files, ReadOnly, TypeOK, Zeros
  <2>2. Measured(e) /\ UNCHANGED <<lines, version, archive>> /\ stage' = "audit_measured"
    BY <1>5 DEF MeasureAudit, To
  <2> HIDE DEF e
  <2>3. Clean(Len(log))' => RulesAre(Len(log), version)' /\ AuditUpTo(Len(log), lines)'
    <3> SUFFICES ASSUME Clean(Len(log))'
                 PROVE  RulesAre(Len(log), version)' /\ AuditUpTo(Len(log), lines)'
      OBVIOUS
    <3>1. RulesAre(Len(log), version) /\ AuditUpTo(Len(log), lines)
      BY <2>1, <2>2, LogGrows
    <3>2. \A i \in 1 .. Len(log') : log'[i].file = "rules" => log'[i].content = version
      BY <1>0, <2>1, <2>2, <3>1, LogGrows
    <3>3. \A i \in 1 .. Len(log') : log'[i].file = "audit" => log'[i].content <= lines
      BY <1>0, <2>1, <2>2, <3>1, LogGrows
    <3> QED
      BY <2>2, <3>2, <3>3 DEF RulesAre, AuditUpTo
  <2>4. Has("audit", Len(log))'
    BY <2>1, <2>2, LogGrows DEF Files, ReadOnly
  <2> QED
    BY <2>2, <2>3, <2>4 DEF Copied
<1>6. CASE OpenRules
  <2> DEFINE e == Entry(10, "rules", version)
  <2>1. e \in Entries /\ e.file = "rules" /\ e.content = version /\ version # Zeros
    BY <1>0 DEF Entry, Entries, Pcrs, Files, ReadOnly, Zeros
  <2>2. /\ Measured(e) /\ UNCHANGED <<lines, version, archive>>
        /\ stage = "audit_copied" /\ stage' = "rules_open"
    BY <1>6 DEF OpenRules, To
  <2> HIDE DEF e
  <2>3. Clean(Len(log))' =>
          /\ RulesAre(Len(log), version)' /\ AuditUpTo(Len(log), lines)'
          /\ Undisturbed => AuditUpTo(Len(log), archive.audit)'
    BY <1>0, <2>1, <2>2, LogGrows DEF RulesAre, AuditUpTo, Copied
  <2>4. Has("rules", Len(log))' /\ Has("audit", Len(log))'
    BY <2>1, <2>2, LogGrows DEF Files, ReadOnly, Copied
  <2> QED
    BY <2>2, <2>3, <2>4 DEF Copied
<1>7. CASE Reboot
  <2>1. log' = <<Boot>> /\ version' = 1 /\ stage' = "idle"
    BY <1>7 DEF Reboot
  <2> QED
    BY <2>1 DEF Copied, Clean, RulesAre, AuditUpTo, Boot, Entry
<1>8. CASE AuditGrows
  <2>1. UNCHANGED <<log, version, stage, archive>> /\ lines' = lines + 1
    BY <1>8 DEF AuditGrows
  <2>2. \A i \in 1 .. Len(log) : log[i] \in Entries
    BY DEF TypeOK
  <2>3. \A i \in 1 .. Len(log) : log[i].content \in Nat
    BY <2>2 DEF Entries
  <2> QED
    BY <1>0, <2>1, <2>3 DEF Clean, RulesAre, AuditUpTo, Has
<1>9. CASE CopyAudit
  <2>1. UNCHANGED <<log, version, lines>> /\ archive'.audit = lines
        /\ stage = "audit_measured" /\ stage' = "audit_copied"
    BY <1>9 DEF CopyAudit, To, machineVars, TypeOK, Archives
  <2> QED
    BY <2>1 DEF Copied, Clean, RulesAre, AuditUpTo, Has
<1>10. CASE CopyRules
  <2>1. /\ UNCHANGED <<log, version, lines>>
        /\ archive'.audit = archive.audit /\ archive'.rules = version
        /\ stage = "rules_open" /\ stage' = "rules_copied"
    BY <1>10 DEF CopyRules, To, machineVars, TypeOK, Archives
  <2> QED
    BY <2>1 DEF Copied, Clean, RulesAre, AuditUpTo, Has
<1>11. ASSUME UNCHANGED <<log, version, lines>>, stage' \notin Copied, stage' # "audit_measured"
       PROVE  Taken'
  BY <1>11 DEF Copied, Clean, RulesAre, AuditUpTo, Has
<1>12. CASE StartExport \/ Quote \/ CopyLog \/ Verify
  BY <1>11, <1>12
  DEF StartExport, Quote, CopyLog, Verify, To, CheckBoot, IllegalEdit, Decide, Reject, SkipEntry,
      Skipped, Reading, Replay, ReplayEntry, machineVars, Copied
<1>13. CASE UNCHANGED vars
  BY <1>13 DEF vars, machineVars, Clean, RulesAre, AuditUpTo, Has
<1> QED
  BY <1>2, <1>3, <1>4, <1>5, <1>6, <1>7, <1>8, <1>9, <1>10, <1>12, <1>13
  DEF Next, Machine, Export

------------------------------------------------------------------------------
(* What the quote covers *)

LEMMA InitCovered == Init => Covered
  BY DEF Init, Covered, NoArchive, Quoted, Verifying

(* A step that leaves the archive and the logged entries alone. *)
LEMMA CoveredFrame ==
  ASSUME TypeOK, History, Covered, archive' = archive, Len(log) <= Len(log)', Len(log)' \in Nat,
         \A i \in 1 .. Len(log) : log'[i] = log[i] /\ pcr'[i] = pcr[i],
         stage' \in Quoted => stage \in Quoted,
         stage' \in Verifying \cup {"exported"} => stage \in Verifying \cup {"exported"}
  PROVE  Covered'
<1> DEFINE n == archive.quotedAt
<1>1. Len(log) \in Nat /\ Len(archive.log) \in Nat
  BY DEF TypeOK, Archives
<1>2. n \in 0 .. Len(log) /\ archive'.quotedAt = n
  BY DEF Covered
<1>3. \A i \in 1 .. n : log'[i] = log[i] /\ pcr'[i] = pcr[i]
  BY <1>1, <1>2
<1>4. /\ Has("audit", n) => Has("audit", archive.quotedAt)'
      /\ Has("rules", n) => Has("rules", archive.quotedAt)'
  BY <1>2, <1>3 DEF Has
<1>5. /\ Clean(archive.quotedAt)' => Clean(n)
      /\ RulesAre(n, archive.rules) => RulesAre(archive.quotedAt, archive.rules)'
      /\ AuditUpTo(n, archive.audit) => AuditUpTo(archive.quotedAt, archive.audit)'
  BY <1>2, <1>3 DEF Clean, RulesAre, AuditUpTo
<1>6. n >= 1 /\ archive.quote = pcr[n] => archive'.quote = pcr'[n]
  BY <1>2, <1>3
<1>7. stage' \in Verifying \cup {"exported"} =>
        /\ n <= Len(archive.log) /\ Len(archive.log) <= Len(log)'
        /\ \A i \in 1 .. Len(archive.log) : archive.log[i] = log'[i]
  BY <1>1 DEF Covered
<1> HIDE DEF n
<1>8. n \in 0 .. Len(log')
  BY <1>1, <1>2
<1>9. stage \in Quoted =>
       /\ n >= 1 /\ archive.quote = pcr[n]
       /\ Has("audit", n) /\ Has("rules", n)
       /\ Clean(n) => RulesAre(n, archive.rules)
       /\ Undisturbed /\ Clean(n) => AuditUpTo(n, archive.audit)
  BY DEF Covered, n
<1> QED
  BY <1>2, <1>4, <1>5, <1>6, <1>7, <1>8, <1>9 DEF Covered

LEMMA CoveredKept == TypeOK /\ History /\ Taken /\ Covered /\ [Next]_vars => Covered'
<1> SUFFICES ASSUME TypeOK, History, Taken, Covered, [Next]_vars PROVE Covered'
  OBVIOUS
<1>0. Len(log) \in Nat /\ Len(log) >= 1 /\ Len(pcr) = Len(log) /\ archive \in Archives
  BY DEF TypeOK, History
<1>1. CASE MeasuringStep
  <2>1. PICK e \in Entries : Measured(e)
    BY <1>1, MeasuringMeasures
  <2>2. /\ Len(log)' = Len(log) + 1
        /\ \A i \in 1 .. Len(log) : log'[i] = log[i] /\ pcr'[i] = pcr[i]
    BY <2>1, MeasuredFrame
  <2>3. archive' = archive /\ (stage' = stage \/ stage' \in {"audit_open", "audit_measured", "rules_open"})
    BY <1>1 DEF MeasuringStep, Activity, Edit, MeasureByHand, OpenAudit, MeasureAudit, OpenRules, To
  <2>4. /\ stage' \in Quoted => stage \in Quoted
        /\ stage' \in Verifying \cup {"exported"} => stage \in Verifying \cup {"exported"}
    BY <2>3 DEF Quoted, Verifying
  <2> QED
    BY <1>0, <2>2, <2>3, <2>4, CoveredFrame
<1>2. CASE Reboot \/ StartExport
  <2>1. archive'.quotedAt = 0 /\ stage' \in {"idle", "booted"} /\ Len(log') \in Nat
    BY <1>0, <1>2 DEF Reboot, StartExport, NoArchive, To, machineVars
  <2> QED
    BY <2>1 DEF Covered, Quoted, Verifying
<1>3. CASE CopyAudit \/ CopyRules
  <2>1. archive'.quotedAt = archive.quotedAt /\ stage' \in Copied /\ log' = log
    BY <1>0, <1>3 DEF CopyAudit, CopyRules, To, machineVars, Archives, Copied
  <2> QED
    BY <2>1 DEF Covered, Quoted, Verifying, Copied
<1>4. CASE Quote
  <2>1. /\ UNCHANGED <<log, pcr, version>> /\ stage = "rules_copied" /\ stage' = "quoted"
        /\ archive'.quotedAt = Len(log) /\ archive'.quote = pcr[Len(log)]
        /\ archive'.rules = archive.rules /\ archive'.audit = archive.audit
    BY <1>0, <1>4 DEF Quote, To, machineVars, Archives
  <2>2. /\ Has("audit", Len(log)) /\ Has("rules", Len(log))
        /\ Clean(Len(log)) => RulesAre(Len(log), archive.rules)
        /\ Undisturbed /\ Clean(Len(log)) => AuditUpTo(Len(log), archive.audit)
    BY <2>1 DEF Taken, Copied
  <2> QED
    BY <1>0, <2>1, <2>2 DEF Covered, Quoted, Verifying, Has, Clean, RulesAre, AuditUpTo
<1>5. CASE CopyLog
  <2>1. /\ UNCHANGED <<log, pcr>> /\ stage = "quoted" /\ stage' = "exported"
        /\ archive'.quotedAt = archive.quotedAt /\ archive'.quote = archive.quote
        /\ archive'.rules = archive.rules /\ archive'.audit = archive.audit /\ archive'.log = log
    BY <1>0, <1>5 DEF CopyLog, To, machineVars, Archives
  <2> QED
    BY <1>0, <2>1 DEF Covered, Quoted, Verifying, Has, Clean, RulesAre, AuditUpTo
<1>6. CASE AuditGrows
  <2>1. UNCHANGED <<log, pcr, stage, archive>>
    BY <1>6 DEF AuditGrows
  <2> QED
    BY <1>0, <2>1, CoveredFrame
<1>7. CASE Verify
  <2>1. /\ UNCHANGED <<log, pcr, archive>> /\ stage \in {"exported", "replaying"}
        /\ stage' \in Verifying
    BY <1>7
    DEF Verify, CheckBoot, IllegalEdit, Decide, Reject, SkipEntry, Skipped, Reading, Replay,
        ReplayEntry, machineVars, Verifying
  <2>2. stage \in Quoted /\ stage \in Verifying \cup {"exported"}
    BY <2>1 DEF Quoted, Verifying
  <2> QED
    BY <1>0, <2>1, <2>2, CoveredFrame
<1>8. CASE UNCHANGED vars
  <2>1. UNCHANGED <<log, pcr, stage, archive>>
    BY <1>8 DEF vars, machineVars
  <2> QED
    BY <1>0, <2>1, CoveredFrame
<1> QED
  BY <1>1, <1>2, <1>3, <1>4, <1>5, <1>6, <1>7, <1>8 DEF Next, Machine, Export, MeasuringStep

------------------------------------------------------------------------------
(* The replay *)

LEMMA InitReplaying == Init => Replaying
  BY DEF Init, Replaying, Verifying

(* Before the quote no PCR of a next entry has matched: it grows by that   *)
(* entry, and what is quoted is not shorter.  After it all have.           *)
LEMMA SkippedAfterQuote ==
  ASSUME TypeOK, History, Covered, Replaying, Reading
  PROVE  /\ NextEntry \in Entries /\ NextEntry = log[pos + 1] /\ pos + 1 \in 1 .. Len(log)
         /\ pos >= archive.quotedAt <=> NextEntry.pcr \in matches
         /\ pos < archive.quotedAt =>
              /\ KernelExtended(replayed, NextEntry) = pcr[pos + 1]
              /\ \A p \in matches : pcr[pos + 1][p] = archive.quote[p]
<1> DEFINE e == NextEntry
           q == archive.quotedAt
<1>1. /\ stage \in Verifying /\ stage \in Quoted /\ pos \in Nat
      /\ q \in 1 .. Len(log) /\ q <= Len(archive.log) /\ Len(archive.log) <= Len(log)
      /\ Len(log) \in Nat /\ Len(archive.log) \in Nat /\ pos < Len(archive.log)
      /\ archive.quote = pcr[q]
  BY DEF Reading, TypeOK, Archives, Covered, Verifying, Quoted
<1>2. e = log[pos + 1] /\ pos + 1 \in 1 .. Len(log)
  BY <1>1 DEF Covered, NextEntry, Reading
<1>3. e \in Entries /\ e.pcr \in Pcrs
  BY <1>2, DigestTypes DEF TypeOK
<1>4. \A i \in 1 .. Len(log) : pcr[i] \in PcrValues
  BY DEF TypeOK, History
<1>5. pos < q => pcr[pos + 1] = KernelExtended(replayed, e)
  <2>1. CASE pos = 0
    BY <1>2, <2>1 DEF History, Replaying
  <2>2. CASE pos > 0
    <3>1. pos < q => replayed = pcr[pos]
      BY <1>1, <2>2 DEF Replaying
    <3>2. pcr[pos + 1] = KernelExtended(pcr[pos], log[pos + 1])
      BY <1>1, <1>2, <2>2 DEF History
    <3> QED
      BY <1>2, <3>1, <3>2
  <2> QED
    BY <1>1, <2>1, <2>2
<1>6. pos >= q => e.pcr \in matches
  BY <1>1, <1>3 DEF Replaying
<1>7. ASSUME pos < q
      PROVE  e.pcr \notin matches /\ \A p \in matches : pcr[pos + 1][p] = archive.quote[p]
  <2>1. CASE pos = 0
    BY <2>1 DEF Replaying
  <2>2. CASE pos > 0
    <3>1. /\ matches = {p \in Pcrs : pcr[pos][p] = pcr[q][p]}
          /\ pcr[pos + 1] = KernelExtended(pcr[pos], e)
      BY <1>1, <1>5, <1>7, <2>2 DEF Replaying
    <3>2. /\ Len(pcr[pos + 1][e.pcr]) = Len(pcr[pos][e.pcr]) + 1
          /\ \A p \in Pcrs \ {e.pcr} : pcr[pos + 1][p] = pcr[pos][p]
      BY <1>1, <1>3, <1>4, <2>2, <3>1, ExtendedGrows
    <3>3. Len(pcr[pos + 1][e.pcr]) <= Len(pcr[q][e.pcr])
      BY <1>1, <1>3, <1>7 DEF History
    <3>4. pcr[pos][e.pcr] \in Seq(Digests) /\ pcr[q][e.pcr] \in Seq(Digests)
      BY <1>1, <1>3, <1>4, <2>2 DEF PcrValues
    <3>5. e.pcr \notin matches
      <4>1. Len(pcr[pos][e.pcr]) \in Nat /\ Len(pcr[q][e.pcr]) \in Nat
        BY <3>4
      <4>2. Len(pcr[pos][e.pcr]) # Len(pcr[q][e.pcr])
        BY <3>2, <3>3, <4>1
      <4> QED
        BY <3>1, <4>2
    <3> QED
      BY <1>1, <3>1, <3>2, <3>5
  <2> QED
    BY <1>1, <2>1, <2>2
<1> QED
  BY <1>1, <1>2, <1>3, <1>5, <1>6, <1>7

(* A step that leaves the replay and the logged entries alone. *)
LEMMA ReplayingFrame ==
  ASSUME TypeOK, History, Covered, Replaying,
         archive'.quotedAt = archive.quotedAt, archive'.quote = archive.quote,
         UNCHANGED replayVars,
         \A i \in 1 .. Len(log) : log'[i] = log[i] /\ pcr'[i] = pcr[i],
         stage' \in Verifying => stage \in Verifying \cup {"exported"},
         stage \in Verifying => stage' \in Verifying
  PROVE  Replaying'
<1> DEFINE q == archive.quotedAt
<1>1. /\ q \in 0 .. Len(log) /\ Len(log) \in Nat /\ pos \in Nat /\ archive'.quotedAt = q
      /\ UNCHANGED <<pos, replayed, matches, latest>>
  BY DEF Covered, TypeOK, Archives, replayVars
<1>2. /\ Clean(Min2(pos, q)) => Clean(Min2(pos, archive.quotedAt))'
      /\ LatestOf(Min2(pos, q)) => LatestOf(Min2(pos, archive.quotedAt))'
  <2>1. Min2(pos, q) \in 0 .. Len(log) /\ Min2(pos, archive.quotedAt)' = Min2(pos, q)
    BY <1>1 DEF Min2
  <2> DEFINE m == Min2(pos, q)
  <2>2. \A i \in 1 .. m : log'[i] = log[i]
    BY <1>1, <2>1
  <2> HIDE DEF m
  <2>3. Clean(m) => \A i \in 1 .. m : ~IsEdit(log'[i])
    BY <2>2 DEF Clean
  <2>4. ASSUME LatestOf(m), NEW f \in Files
        PROVE  /\ latest'[f] # Zeros => \E i \in 1 .. m : log'[i].file = f /\ log'[i].content = latest'[f]
               /\ (\E i \in 1 .. m : log'[i].file = f /\ log'[i].content # Zeros) => latest'[f] # Zeros
    BY <1>1, <2>2, <2>4 DEF LatestOf, Has
  <2> QED
    BY <2>1, <2>3, <2>4 DEF Clean, LatestOf, Has, m
<1>3. stage \notin Verifying \/ pos = 0 =>
        /\ pos = 0 /\ replayed = NoValues /\ matches = {}
        /\ latest = [f \in Files |-> Zeros]
  BY DEF Replaying
<1>4. CASE stage \in Verifying
  <2>1. pos > 0 /\ pos <= q => pcr'[pos] = pcr[pos]
    BY <1>1
  <2> QED
    BY <1>1, <1>2, <1>3, <1>4, <2>1 DEF Replaying
<1>5. CASE stage \notin Verifying
  <2>1. stage' \in Verifying => q >= 1
    BY <1>5 DEF Covered, Quoted, Verifying
  <2>2. Min2(pos, q) = 0 /\ Min2(pos, archive.quotedAt)' = 0
    BY <1>1, <1>3, <1>5 DEF Min2
  <2>3. latest = [f \in Files |-> Zeros] => Clean(0) /\ LatestOf(0)
    BY DEF Clean, LatestOf, Has
  <2> QED
    BY <1>1, <1>2, <1>3, <1>5, <2>1, <2>2, <2>3 DEF Replaying
<1> QED
  BY <1>4, <1>5

LEMMA ReplayKeeps ==
  ASSUME TypeOK, History, Covered, Replaying, Replay
  PROVE  Replaying'
<1> DEFINE e == NextEntry
           q == archive.quotedAt
<1>1. /\ stage = "replaying" /\ stage' = stage /\ UNCHANGED <<log, pcr, archive>>
      /\ Reading /\ e.pcr \notin matches /\ ~IsEdit(e)
      /\ replayed' = Extended(replayed, e.pcr, Extension(e)) /\ latest' = Recorded(e)
      /\ matches' = matches \cup {p \in Pcrs : replayed'[p] = archive.quote[p]}
      /\ pos' = pos + 1
  BY DEF Replay, ReplayEntry, Reading, machineVars
<1>2. /\ e \in Entries /\ e = log[pos + 1] /\ pos + 1 \in 1 .. Len(log) /\ pos \in Nat
      /\ pos < q /\ q \in Nat
      /\ KernelExtended(replayed, e) = pcr[pos + 1]
      /\ \A p \in matches : pcr[pos + 1][p] = archive.quote[p]
  <2>1. q \in Nat /\ pos \in Nat
    BY DEF TypeOK, Archives
  <2> QED
    BY <1>1, <2>1, SkippedAfterQuote
<1>3. replayed' = pcr[pos + 1]
  BY <1>1, <1>2, DigestTypes DEF KernelExtended
<1>4. matches' = {p \in Pcrs : pcr[pos + 1][p] = archive.quote[p]}
  <2>1. matches \subseteq Pcrs
    BY DEF TypeOK
  <2> QED
    BY <1>1, <1>2, <1>3, <2>1
<1>5. pos + 1 >= q => pcr[pos + 1] = archive.quote
  BY <1>1, <1>2 DEF Covered, Quoted
<1>6. /\ Min2(pos, q) = pos /\ Min2(pos, archive.quotedAt)' = pos + 1
      /\ Clean(pos) /\ LatestOf(pos)
  <2>1. Min2(pos, q) = pos /\ Min2(pos, archive.quotedAt)' = pos + 1
    BY <1>1, <1>2 DEF Min2
  <2> QED
    BY <1>1, <2>1 DEF Replaying, Verifying
<1>7. Clean(pos + 1)
  BY <1>1, <1>2, <1>6 DEF Clean
<1>8. ASSUME NEW f \in Files
      PROVE  /\ latest'[f] # Zeros => \E i \in 1 .. pos + 1 : log[i].file = f /\ log[i].content = latest'[f]
             /\ Has(f, pos + 1) => latest'[f] # Zeros
  <2>1. /\ latest[f] # Zeros => \E i \in 1 .. pos : log[i].file = f /\ log[i].content = latest[f]
        /\ (\E i \in 1 .. pos : log[i].file = f /\ log[i].content # Zeros) => latest[f] # Zeros
    BY <1>6 DEF LatestOf, Has
  <2>2. latest \in [Files -> Nat] /\ e.file \in Files
    BY <1>2 DEF TypeOK, Entries
  <2>3. CASE e.file = f /\ e.content # Zeros
    <3>1. latest'[f] = e.content
      BY <1>1, <2>2, <2>3 DEF Recorded
    <3> QED
      BY <1>2, <2>3, <3>1
  <2>4. CASE ~(e.file = f /\ e.content # Zeros)
    <3>1. latest'[f] = latest[f]
      BY <1>1, <2>2, <2>4 DEF Recorded
    <3> QED
      BY <1>2, <2>1, <2>4, <3>1 DEF Has
  <2> QED
    BY <2>3, <2>4
<1>9. LatestOf(Min2(pos, archive.quotedAt))' /\ Clean(Min2(pos, archive.quotedAt))'
  BY <1>1, <1>6, <1>7, <1>8 DEF LatestOf, Has, Clean
<1> HIDE DEF e
<1>10. \A p \in Pcrs : pcr[pos + 1] = archive.quote => pcr[pos + 1][p] = archive.quote[p]
  OBVIOUS
<1> QED
  BY <1>1, <1>2, <1>3, <1>4, <1>5, <1>9, <1>10 DEF Replaying, Verifying

LEMMA SkipKeeps ==
  ASSUME TypeOK, History, Covered, Replaying, SkipEntry
  PROVE  Replaying'
<1>1. /\ stage = "replaying" /\ stage' = stage /\ UNCHANGED <<log, pcr, archive, replayed, matches, latest>>
      /\ Reading /\ NextEntry.pcr \in matches /\ pos' = pos + 1
  BY DEF SkipEntry, Skipped, Reading, machineVars
<1>2. pos >= archive.quotedAt /\ pos \in Nat /\ archive.quotedAt \in Nat
  BY <1>1, SkippedAfterQuote DEF TypeOK, Archives
<1>3. archive.quotedAt >= 1
  BY <1>1 DEF Covered, Quoted
<1>4. Min2(pos, archive.quotedAt) = archive.quotedAt /\ Min2(pos, archive.quotedAt)' = archive.quotedAt
  BY <1>1, <1>2 DEF Min2
<1>5. Clean(archive.quotedAt) /\ LatestOf(archive.quotedAt)
  BY <1>1, <1>4 DEF Replaying, Verifying
<1>6. Clean(Min2(pos, archive.quotedAt))' /\ LatestOf(Min2(pos, archive.quotedAt))'
  BY <1>1, <1>4, <1>5 DEF Clean, LatestOf, Has
<1>7. replayed = archive.quote /\ matches = Pcrs
  BY <1>1, <1>2 DEF Replaying, Verifying
<1> QED
  BY <1>1, <1>2, <1>3, <1>6, <1>7 DEF Replaying, Verifying

LEMMA ReplayingKept ==
  TypeOK /\ History /\ Covered /\ Replaying /\ [Next]_vars => Replaying'
<1> SUFFICES ASSUME TypeOK, History, Covered, Replaying, [Next]_vars PROVE Replaying'
  OBVIOUS
<1>0. archive \in Archives
  BY DEF TypeOK
<1>1. CASE MeasuringStep
  <2>1. \A i \in 1 .. Len(log) : log'[i] = log[i] /\ pcr'[i] = pcr[i]
    BY <1>1, MeasuringMeasures, MeasuredFrame
  <2>2. archive' = archive /\ UNCHANGED replayVars
    BY <1>1 DEF MeasuringStep, Activity, Edit, MeasureByHand, OpenAudit, MeasureAudit, OpenRules
  <2>3. stage' = stage \/ (stage \in {"booted", "audit_open", "audit_copied"}
                            /\ stage' \in {"audit_open", "audit_measured", "rules_open"})
    BY <1>1 DEF MeasuringStep, Activity, Edit, MeasureByHand, OpenAudit, MeasureAudit, OpenRules, To
  <2>4. (stage' \in Verifying => stage \in Verifying) /\ (stage \in Verifying => stage' \in Verifying)
    BY <2>3 DEF Verifying
  <2> QED
    BY <2>1, <2>2, <2>4, ReplayingFrame
<1>2. CASE Reboot \/ StartExport
  <2>1. /\ stage' \in {"idle", "booted"} /\ pos' = 0 /\ replayed' = NoValues /\ matches' = {}
        /\ latest' = [f \in Files |-> Zeros]
    BY <1>2 DEF Reboot, StartExport, To
  <2> QED
    BY <2>1 DEF Replaying, Verifying
<1>3. CASE CopyAudit \/ CopyRules \/ Quote \/ CopyLog
  <2>1. UNCHANGED replayVars /\ stage' \notin Verifying /\ stage \notin Verifying
    BY <1>3 DEF CopyAudit, CopyRules, Quote, CopyLog, To, Verifying
  <2> QED
    BY <2>1 DEF Replaying, replayVars
<1>4. CASE AuditGrows \/ UNCHANGED vars
  <2>1. UNCHANGED <<log, pcr, stage, archive, replayVars>>
    BY <1>4 DEF AuditGrows, vars, machineVars
  <2> QED
    BY <2>1, ReplayingFrame
<1>5. CASE CheckBoot \/ IllegalEdit \/ Decide
  <2>1. UNCHANGED <<log, pcr, archive, replayVars>> /\ stage \in {"exported", "replaying"} /\ stage' \in Verifying
    BY <1>5 DEF CheckBoot, IllegalEdit, Decide, Reading, Reject, machineVars, Verifying
  <2> QED
    BY <2>1, ReplayingFrame DEF Verifying
<1> QED
  BY <1>1, <1>2, <1>3, <1>4, <1>5, ReplayKeeps, SkipKeeps
  DEF Next, Machine, Export, Verify, MeasuringStep

------------------------------------------------------------------------------
(* The verdict *)

LEMMA InitVerdict == Init => Verdict
  BY DEF Init, Verdict, AcceptedIsUnedited, HonestIsAccepted

(* With the whole archived log replayed, the log matches, and an archive   *)
(* without an edit passes the comparison of rules and audit log.           *)
LEMMA CleanPasses ==
  ASSUME TypeOK, Covered, Replaying, stage = "replaying", pos = Len(archive.log)
  PROVE  /\ Clean(archive.quotedAt) /\ LogMatches
         /\ RulesAttested
         /\ Undisturbed => AuditAttested
<1> DEFINE q == archive.quotedAt
<1>1. /\ q \in Nat /\ q >= 1 /\ pos \in Nat /\ pos >= q /\ Min2(pos, q) = q
      /\ archive.rules \in Nat /\ archive.audit \in Nat /\ latest \in [Files -> Nat]
  BY DEF TypeOK, Archives, Covered, Quoted, Verifying, Min2
<1>2. Clean(q) /\ LatestOf(q) /\ matches = Pcrs
  BY <1>1 DEF Replaying, Verifying
<1>3. Has("audit", q) /\ Has("rules", q)
  BY DEF Covered, Quoted
<1>4. ASSUME NEW f \in ReadOnly
      PROVE  latest[f] \in Nat /\ latest[f] # Zeros
             /\ \E i \in 1 .. q : log[i].file = f /\ log[i].content = latest[f]
  BY <1>1, <1>2, <1>3, <1>4 DEF LatestOf, Files, ReadOnly
<1>5. RulesAre(q, archive.rules) /\ (Undisturbed => AuditUpTo(q, archive.audit))
  BY <1>2 DEF Covered, Quoted
<1>6. latest["rules"] = archive.rules
  BY <1>4, <1>5 DEF RulesAre, ReadOnly
<1>7. ASSUME Undisturbed PROVE latest["audit"] <= archive.audit
  BY <1>4, <1>5, <1>7 DEF AuditUpTo, ReadOnly
<1> QED
  BY <1>1, <1>2, <1>4, <1>6, <1>7 DEF LogMatches, RulesAttested, AuditAttested, ReadOnly, Zeros

(* A step that leaves verdict, archive and logged entries alone. *)
LEMMA VerdictFrame ==
  ASSUME TypeOK, Covered, Verdict, archive' = archive,
         \A i \in 1 .. Len(log) : log'[i] = log[i],
         stage' \in {"replaying", "accepted", "rejected"} => stage' = stage
  PROVE  Verdict'
<1>1. archive.quotedAt \in 0 .. Len(log) /\ Len(log) \in Nat
  BY DEF Covered, TypeOK
<1>2. EditedBeforeQuote' <=> EditedBeforeQuote
  BY <1>1 DEF EditedBeforeQuote
<1> QED
  BY <1>2 DEF Verdict, AcceptedIsUnedited, HonestIsAccepted

LEMMA VerdictKept ==
  TypeOK /\ History /\ Covered /\ Replaying /\ Verdict /\ [Next]_vars => Verdict'
<1> SUFFICES ASSUME TypeOK, History, Covered, Replaying, Verdict, [Next]_vars PROVE Verdict'
  OBVIOUS
<1>1. CASE MeasuringStep
  <2>1. \A i \in 1 .. Len(log) : log'[i] = log[i]
    BY <1>1, MeasuringMeasures, MeasuredFrame
  <2>2. archive' = archive /\ (stage' = stage \/ stage' \in {"audit_open", "audit_measured", "rules_open"})
    BY <1>1 DEF MeasuringStep, Activity, Edit, MeasureByHand, OpenAudit, MeasureAudit, OpenRules, To
  <2> QED
    BY <2>1, <2>2, VerdictFrame
<1>2. CASE Reboot \/ Export
  <2>1. stage' \notin {"replaying", "accepted", "rejected"}
    BY <1>2
    DEF Reboot, Export, StartExport, OpenAudit, MeasureAudit, CopyAudit, OpenRules, CopyRules, Quote,
        CopyLog, To
  <2> QED
    BY <2>1 DEF Verdict, AcceptedIsUnedited, HonestIsAccepted
<1>3. CASE AuditGrows \/ UNCHANGED vars
  BY <1>3, VerdictFrame DEF AuditGrows, vars, machineVars
<1>4. CASE SkipEntry \/ Replay
  BY <1>4, VerdictFrame DEF SkipEntry, Skipped, Replay, ReplayEntry, machineVars
<1>5. CASE CheckBoot
  <2>1. /\ (stage' = "replaying" /\ archive.booted) \/ (stage' = "rejected" /\ ~archive.booted)
        /\ archive' = archive
    BY <1>5 DEF CheckBoot, Reject
  <2> QED
    BY <2>1 DEF Verdict, AcceptedIsUnedited, HonestIsAccepted
<1>6. CASE IllegalEdit
  <2>1. /\ stage' = "rejected" /\ UNCHANGED <<log, archive>>
        /\ Reading /\ NextEntry.pcr \notin matches /\ IsEdit(NextEntry)
    BY <1>6 DEF IllegalEdit, Reject, machineVars
  <2>2. pos < archive.quotedAt /\ NextEntry = log[pos + 1] /\ pos \in Nat /\ archive.quotedAt \in Nat
    <3>1. pos \in Nat /\ archive.quotedAt \in Nat
      BY DEF TypeOK, Archives
    <3> QED
      BY <2>1, <3>1, SkippedAfterQuote
  <2>3. EditedBeforeQuote'
    BY <2>1, <2>2 DEF EditedBeforeQuote
  <2> QED
    BY <2>1, <2>3 DEF Verdict, AcceptedIsUnedited, HonestIsAccepted
<1>7. CASE Decide
  <2>1. /\ stage = "replaying" /\ pos = Len(archive.log) /\ UNCHANGED <<log, archive>>
        /\ stage' = IF LogMatches /\ RulesAttested /\ AuditAttested THEN "accepted" ELSE "rejected"
    BY <1>7 DEF Decide, machineVars
  <2>2. archive.booted /\ ~EditedBeforeQuote'
    BY <2>1, CleanPasses DEF Verdict, Clean, EditedBeforeQuote
  <2>3. Undisturbed => stage' = "accepted"
    BY <2>1, CleanPasses
  <2> QED
    BY <2>1, <2>2, <2>3 DEF Verdict, AcceptedIsUnedited, HonestIsAccepted
<1> QED
  BY <1>1, <1>2, <1>3, <1>4, <1>5, <1>6, <1>7 DEF Next, Machine, Verify, MeasuringStep

------------------------------------------------------------------------------
(* The theorems *)

LEMMA Inductive == Spec => []AInv
<1>1. Init => AInv
  BY InitTypes, InitHistory, InitTaken, InitCovered, InitReplaying, InitVerdict DEF AInv
<1>2. AInv /\ [Next]_vars => AInv'
  BY TypesKept, HistoryKept, TakenKept, CoveredKept, ReplayingKept, VerdictKept DEF AInv
<1> QED
  BY <1>1, <1>2, PTL DEF Spec

(* The verifier's variables, and the archive, have their types. *)
THEOREM ArchiveTypes == Spec => []TypeOK
<1>1. AInv => TypeOK
  BY DEF AInv
<1> QED
  BY <1>1, Inductive, PTL

(* An accepted archive is that of a machine booted with the policy on      *)
(* which no protected file was opened for writing up to the quote.         *)
THEOREM NoUnnoticedEdit == Spec => []AcceptedIsUnedited
<1>1. AInv => AcceptedIsUnedited
  BY DEF AInv, Verdict
<1> QED
  BY <1>1, Inductive, PTL

(* If nobody measures by hand between the copy of audit.log and the quote, *)
(* only an edit or a boot without the policy makes the verifier reject,    *)
(* whatever is logged during the export.                                   *)
THEOREM NoFalseAlarm == Undisturbed => (Spec => []HonestIsAccepted)
<1> SUFFICES ASSUME Undisturbed PROVE Spec => []HonestIsAccepted
  OBVIOUS
<1>1. AInv => HonestIsAccepted
  BY DEF AInv, Verdict
<1> QED
  BY <1>1, Inductive, PTL

(* The replay stays within the quote (line 196). *)
THEOREM ReplayStaysInQuote == Spec => []ReplayIsQuoted
<1>1. ASSUME AInv PROVE ReplayIsQuoted
  <2> USE <1>1 DEF AInv
  <2>1. replayed \in PcrValues /\ archive.quote \in PcrValues /\ pos \in Nat /\ archive.quotedAt \in Nat
    BY DEF TypeOK, Archives
  <2>2. CASE stage \notin Verifying \/ pos = 0
    <3>1. replayed = NoValues
      BY <2>2 DEF Replaying
    <3>2. \A p \in Pcrs : archive.quote[p] \in Seq(Digests) /\ replayed[p] = <<>>
      BY <2>1, <3>1 DEF PcrValues, NoValues
    <3> QED
      BY <3>2 DEF ReplayIsQuoted
  <2>3. CASE stage \in Verifying /\ pos > 0
    <3>1. /\ replayed = pcr[pos] \/ replayed = archive.quote
          /\ pos >= archive.quotedAt => replayed = archive.quote
      BY <2>1, <2>3 DEF Replaying
    <3>2. CASE replayed = archive.quote
      BY <2>1, <3>2, GrownReflexive DEF ReplayIsQuoted, Grown
    <3>3. CASE replayed = pcr[pos] /\ pos < archive.quotedAt
      <4>1. archive.quote = pcr[archive.quotedAt] /\ archive.quotedAt \in 1 .. Len(log)
        BY <2>1, <2>3 DEF Covered, Quoted, Verifying
      <4> QED
        BY <2>1, <2>3, <3>3, <4>1 DEF History, ReplayIsQuoted, TypeOK
    <3> QED
      BY <2>1, <3>1, <3>2, <3>3
  <2> QED
    BY <2>1, <2>2, <2>3
<1> QED
  BY <1>1, Inductive, PTL

(* The hashes the archived files are compared with come from the quoted    *)
(* part of the log (line 204).                                             *)
THEOREM LatestInQuote == Spec => []LatestIsQuoted
<1>1. ASSUME AInv PROVE LatestIsQuoted
  <2> USE <1>1 DEF AInv
  <2>1. pos \in Nat /\ archive.quotedAt \in Nat
    BY DEF TypeOK, Archives
  <2>2. CASE stage \notin Verifying
    BY <2>2 DEF Replaying, LatestIsQuoted
  <2>3. CASE stage \in Verifying
    <3>1. LatestOf(Min2(pos, archive.quotedAt)) /\ Min2(pos, archive.quotedAt) \in 0 .. archive.quotedAt
      BY <2>1, <2>3 DEF Replaying, Min2
    <3> QED
      BY <2>1, <3>1 DEF LatestOf, LatestIsQuoted
  <2> QED
    BY <2>2, <2>3
<1> QED
  BY <1>1, Inductive, PTL

------------------------------------------------------------------------------
(* The earlier script *)

Bank10 == pcr[Len(pcr)][10]

OnlyPcr10 == \A i \in 1 .. Len(log) : log[i].pcr = 10

(* PCR 10 misses the entries of the other PCRs, and only them. *)
Pcr10OfLog ==
  /\ Len(Bank10) <= Len(log)
  /\ Len(Bank10) = Len(log) <=> OnlyPcr10
  /\ OnlyPcr10 => \A i \in 1 .. Len(log) : Bank10[i] = KernelDigest(log[i])

LEMMA InitPcr10 ==
  ASSUME log = <<Boot>>, pcr = <<KernelExtended(NoValues, Boot)>> PROVE Pcr10OfLog
<1>1. Bank10 = <<KernelDigest(Boot)>>
  BY DEF Bank10, KernelExtended, Extended, NoValues, Boot, Entry, Pcrs
<1> QED
  BY <1>1 DEF Pcr10OfLog, OnlyPcr10, Boot, Entry

LEMMA Pcr10Kept == TypeOK /\ History /\ Pcr10OfLog /\ [Next]_vars => Pcr10OfLog'
<1> SUFFICES ASSUME TypeOK, History, Pcr10OfLog, [Next]_vars PROVE Pcr10OfLog'
  OBVIOUS
<1>1. ASSUME NEW e \in Entries, Measured(e) PROVE Pcr10OfLog'
  <2> DEFINE n == Len(log)
             d == KernelDigest(e)
  <2>1. /\ n \in Nat /\ Len(log') = n + 1
        /\ \A i \in 1 .. n : log'[i] = log[i]
        /\ log'[n + 1] = e
    BY <1>1, MeasuredFrame DEF TypeOK, History
  <2>2. pcr[Len(pcr)] \in PcrValues /\ d \in Digests /\ e.pcr \in Pcrs
    BY DigestTypes DEF TypeOK, History
  <2>3. Bank10 \in Seq(Digests)
    BY <2>2 DEF Bank10, PcrValues, Pcrs
  <2>4. Bank10' = IF e.pcr = 10 THEN Append(Bank10, d) ELSE Bank10
    <3>1. pcr'[Len(pcr')] = Extended(pcr[Len(pcr)], e.pcr, d)
      BY <1>1, MeasuredFrame DEF History, KernelExtended
    <3>2. 10 \in Pcrs
      BY DEF Pcrs
    <3>3. CASE e.pcr = 10
      BY <2>2, <3>1, <3>3, ExtendedType DEF Bank10
    <3>4. CASE e.pcr # 10
      BY <2>2, <3>1, <3>2, <3>4, ExtendedType DEF Bank10
    <3> QED
      BY <3>3, <3>4
  <2>5. OnlyPcr10' <=> OnlyPcr10 /\ e.pcr = 10
    BY <2>1 DEF OnlyPcr10
  <2> HIDE DEF n, d
  <2>6. CASE e.pcr = 10
    <3>1. /\ Len(Bank10') = Len(Bank10) + 1 /\ Bank10'[Len(Bank10) + 1] = d
          /\ \A i \in 1 .. Len(Bank10) : Bank10'[i] = Bank10[i]
      BY <2>3, <2>4, <2>6
    <3>2. Len(Bank10) \in Nat /\ Len(log) = n
      BY <2>3 DEF n
    <3>3. OnlyPcr10' => \A i \in 1 .. n + 1 : Bank10'[i] = KernelDigest(log'[i])
      BY <2>1, <2>5, <3>1, <3>2 DEF Pcr10OfLog, d
    <3> QED
      BY <2>1, <2>5, <2>6, <3>1, <3>2, <3>3 DEF Pcr10OfLog
  <2>7. CASE e.pcr # 10
    <3>1. Len(Bank10') <= n
      BY <2>4, <2>7 DEF Pcr10OfLog, n
    <3>2. Len(Bank10') \in Nat
      BY <2>3, <2>4, <2>7
    <3> QED
      BY <2>1, <2>5, <2>7, <3>1, <3>2 DEF Pcr10OfLog
  <2> QED
    BY <2>6, <2>7
<1>2. CASE Reboot
  <2>1. log' = <<Boot>> /\ pcr' = <<KernelExtended(NoValues, Boot)>>
    BY <1>2 DEF Reboot
  <2>2. Bank10' = <<KernelDigest(Boot)>>
    BY <2>1 DEF Bank10, KernelExtended, Extended, NoValues, Boot, Entry, Pcrs
  <2> QED
    BY <2>1, <2>2 DEF Pcr10OfLog, OnlyPcr10, Boot, Entry
<1>3. CASE UNCHANGED <<log, pcr>>
  BY <1>3 DEF Pcr10OfLog, OnlyPcr10, Bank10
<1> QED
  BY <1>1, <1>2, <1>3, MeasuringMeasures
  DEF Next, Machine, Export, Verify, MeasuringStep, AuditGrows, StartExport, CopyAudit,
      CopyRules, CopyLog, Quote, CheckBoot, IllegalEdit, Decide, Reject, SkipEntry, Skipped,
      Replay, ReplayEntry, machineVars, vars

(* ima_verification.py prints PCR 10 of machines that measure into no      *)
(* other PCR and have had no violation, and of no others.                  *)
THEOREM PrintsPcr10 == Spec => []PrintedIsPcr10
<1>1. Init => Pcr10OfLog
  BY InitPcr10 DEF Init
<1>2. AInv => TypeOK /\ History
  BY DEF AInv
<1>3. ASSUME TypeOK, History, Pcr10OfLog PROVE PrintedIsPcr10
  <2>1. /\ Bank10 \in Seq(Digests) /\ Len(log) \in Nat
        /\ \A i \in 1 .. Len(log) : log[i] \in Entries
    BY <1>3 DEF Bank10, TypeOK, History, PcrValues, Pcrs
  <2>2. \A i \in 1 .. Len(log) : LoggedDigest(log[i]) = KernelDigest(log[i]) <=> log[i].content # Zeros
    BY <2>1 DEF LoggedDigest, KernelDigest, DigestOf, Ones, Zeros
  <2>3. Len(Printed) = Len(log) /\ \A i \in 1 .. Len(log) : Printed[i] = LoggedDigest(log[i])
    BY <2>1 DEF Printed
  <2>4. ASSUME Printed = Bank10
        PROVE  \A i \in 1 .. Len(log) : log[i].pcr = 10 /\ log[i].content # Zeros
    <3>1. OnlyPcr10 /\ \A i \in 1 .. Len(log) : LoggedDigest(log[i]) = KernelDigest(log[i])
      BY <1>3, <2>3, <2>4 DEF Pcr10OfLog
    <3> QED
      BY <2>2, <3>1 DEF OnlyPcr10
  <2>5. ASSUME \A i \in 1 .. Len(log) : log[i].pcr = 10 /\ log[i].content # Zeros
        PROVE  Printed = Bank10
    <3>1. OnlyPcr10
      BY <2>5 DEF OnlyPcr10
    <3>2. Len(Bank10) = Len(log) /\ \A i \in 1 .. Len(log) : Bank10[i] = KernelDigest(log[i])
      BY <1>3, <3>1 DEF Pcr10OfLog
    <3>3. \A i \in 1 .. Len(log) : Printed[i] = Bank10[i]
      BY <2>2, <2>3, <2>5, <3>2
    <3>4. Bank10 = [i \in 1 .. Len(log) |-> Bank10[i]]
      BY <2>1, <3>2
    <3> QED
      BY <2>3, <3>3, <3>4 DEF Printed
  <2> QED
    BY <2>4, <2>5 DEF PrintedIsPcr10, Bank10
<1> QED
  BY <1>1, <1>2, <1>3, Pcr10Kept, Inductive, PTL DEF Spec

==============================================================================
