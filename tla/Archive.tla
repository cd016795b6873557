------------------------------- MODULE Archive -------------------------------
(***************************************************************************)
(* The hardware archive: verifier/scripts/export_signature.sh, which takes *)
(* it on a machine whose measurement log grows meanwhile, and              *)
(* verifier/full_verify.py, which replays it against the quote.            *)
(*                                                                         *)
(* A digest is what was measured, and a PCR the sequence of digests it was *)
(* extended with: the hashes are taken to be injective.  The contents of   *)
(* the audit log are the number of its lines, those of audit.rules a       *)
(* version.  The machine is honest: the archive holds what the exporter    *)
(* took, and boot logs and quote are consistent.                           *)
(***************************************************************************)
EXTENDS Naturals, Sequences

CONSTANTS
  Manual,    \* the stages of an export at which root measures files by hand
  MaxLog,    \* bound of the model: entries of the measurement log
  MaxLines   \* bound of the model: lines of the audit log

(* Where exporter and verifier stand. *)
Stages ==
  {"idle", "booted", "audit_open", "audit_measured", "audit_copied", "rules_open", "rules_copied", "quoted",
   "exported", "replaying", "accepted", "rejected"}

ASSUME ArchiveAssumption ==
  /\ Manual \subseteq Stages
  /\ MaxLog \in Nat
  /\ MaxLines \in Nat \ {0}

VARIABLES
  log,       \* the kernel's measurement log
  pcr,       \* PCRs 10 to 12 after each entry of the log
  lines,     \* of audit.log
  version,   \* of audit.rules
  booted,    \* booted with lsm=integrity ima_policy=tcb
  stage,     \* where exporter and verifier stand
  archive,   \* the files exported so far
  pos,       \* entries of the archived log the verifier has read
  replayed,  \* its PCRs
  matches,   \* the PCRs that had their quoted value
  latest     \* latest_file_hashes

machineVars == <<log, pcr, lines, version, booted>>
replayVars == <<pos, replayed, matches, latest>>
vars == <<machineVars, stage, archive, replayVars>>

------------------------------------------------------------------------------

Pcrs == 10 .. 12

(* The files that may not be written: full_verify.py, rofiles. *)
ReadOnly == {"rules", "audit"}

Files == ReadOnly \cup {"other"}

(* What the hash of a violation's data is: zeros. *)
Zeros == 0

Entries == [pcr : Pcrs, file : Files, content : Nat]

Entry(p, f, content) == [pcr |-> p, file |-> f, content |-> content]

(* What extends a PCR: file and content, or ones for a violation. *)
Digests == [file : Files \cup {"none"}, content : Nat]
Ones == [file |-> "none", content |-> 1]

DigestOf(e) == [file |-> e.file, content |-> e.content]

(* TPM extend: the new value stands for the old one and the digest. *)
Extended(values, p, digest) == [values EXCEPT ![p] = Append(@, digest)]

NoValues == [p \in Pcrs |-> <<>>]

Boot == Entry(10, "other", 1)

ContentOf(f) == CASE f = "audit" -> lines [] f = "rules" -> version [] f = "other" -> 1

(* quotedAt, the length of the log at the quote, is read by properties only. *)
NoArchive ==
  [audit |-> 0, rules |-> 0, quote |-> NoValues, quotedAt |-> 0, log |-> <<>>,
   booted |-> FALSE]

------------------------------------------------------------------------------
(* The kernel *)

(* A violation is logged with a digest of zeros and extended with ones. *)
KernelDigest(e) == IF e.content = Zeros THEN Ones ELSE DigestOf(e)

KernelExtended(values, e) == Extended(values, e.pcr, KernelDigest(e))

Measured(e) ==
  /\ Len(log) < MaxLog
  /\ log' = Append(log, e)
  /\ pcr' = Append(pcr, KernelExtended(pcr[Len(pcr)], e))

(* Reading audit.log, which auditd has open for writing, is a violation. *)
Violation == Entry(10, "audit", Zeros)

(* Programs run, unprotected files are written, the audit log is read. *)
Activity ==
  /\ \/ \E p \in {10, 11} : Measured(Entry(p, "other", 1))
     \/ Measured(Violation)
  /\ UNCHANGED <<lines, version, booted, stage, archive, replayVars>>

(* auditd has the log open for writing since before the policy was loaded. *)
AuditGrows ==
  /\ lines < MaxLines
  /\ lines' = lines + 1
  /\ UNCHANGED <<log, pcr, version, booted, stage, archive, replayVars>>

(* Somebody opens a protected file for writing: measured into PCR 11. *)
Edit(f) ==
  /\ Measured(Entry(11, f, ContentOf(f)))
  /\ version' = IF f = "rules" THEN version + 1 ELSE version
  /\ UNCHANGED <<lines, booted, stage, archive, replayVars>>

(* "the template for triggering a read", export_signature.sh:3-4. *)
MeasureByHand(f) ==
  /\ stage \in Manual
  /\ Measured(Entry(10, f, ContentOf(f)))
  /\ UNCHANGED <<lines, version, booted, stage, archive, replayVars>>

(* Log and PCRs start again, with the protected files as they are. *)
Reboot ==
  /\ Len(log) > 1
  /\ log' = <<Boot>>
  /\ pcr' = <<KernelExtended(NoValues, Boot)>>
  /\ \E b \in BOOLEAN : booted' = b
  /\ version' = 1
  /\ stage' = "idle"
  /\ archive' = NoArchive
  /\ pos' = 0
  /\ replayed' = NoValues
  /\ matches' = {}
  /\ latest' = [f \in Files |-> Zeros]
  /\ UNCHANGED lines

------------------------------------------------------------------------------
(* export_signature.sh *)

To(from, to) == stage \in from /\ stage' = to

(* The boot logs are copied; the boot is what it was. *)
StartExport ==
  /\ To({"idle", "accepted", "rejected"}, "booted")
  /\ archive' = [NoArchive EXCEPT !.booted = booted]
  /\ pos' = 0
  /\ replayed' = NoValues
  /\ matches' = {}
  /\ latest' = [f \in Files |-> Zeros]
  /\ UNCHANGED machineVars

(* cp opens audit.log as group evtlogger: a violation, and a measurement. *)
OpenAudit ==
  /\ To({"booted"}, "audit_open")
  /\ Measured(Violation)
  /\ UNCHANGED <<lines, version, booted, archive, replayVars>>

MeasureAudit ==
  /\ To({"audit_open"}, "audit_measured")
  /\ Measured(Entry(10, "audit", lines))
  /\ UNCHANGED <<lines, version, booted, archive, replayVars>>

(* cp reads it, with the lines that have come since. *)
CopyAudit ==
  /\ To({"audit_measured"}, "audit_copied")
  /\ archive' = [archive EXCEPT !.audit = lines]
  /\ UNCHANGED <<machineVars, replayVars>>

OpenRules ==
  /\ To({"audit_copied"}, "rules_open")
  /\ Measured(Entry(10, "rules", version))
  /\ UNCHANGED <<lines, version, booted, archive, replayVars>>

CopyRules ==
  /\ To({"rules_open"}, "rules_copied")
  /\ archive' = [archive EXCEPT !.rules = version]
  /\ UNCHANGED <<machineVars, replayVars>>

(* tpm2_quote *)
Quote ==
  /\ To({"rules_copied"}, "quoted")
  /\ archive' = [archive EXCEPT !.quote = pcr[Len(pcr)], !.quotedAt = Len(log)]
  /\ UNCHANGED <<machineVars, replayVars>>

(* The measurement log is copied as it is by now. *)
CopyLog ==
  /\ To({"quoted"}, "exported")
  /\ archive' = [archive EXCEPT !.log = log]
  /\ UNCHANGED <<machineVars, replayVars>>

------------------------------------------------------------------------------
(* full_verify.py *)

Reject == stage' = "rejected" /\ UNCHANGED <<machineVars, archive, replayVars>>

(* The command line that the boot log shows. *)
CheckBoot ==
  /\ stage = "exported"
  /\ IF archive.booted
     THEN stage' = "replaying" /\ UNCHANGED <<machineVars, archive, replayVars>>
     ELSE Reject

Reading == stage = "replaying" /\ pos < Len(archive.log)

NextEntry == archive.log[pos + 1]

Skipped == UNCHANGED <<machineVars, stage, archive, replayed, matches>>

(* A violation has zeros for the hash of the file: the last one is kept. *)
Recorded(e) == IF e.content = Zeros THEN latest ELSE [latest EXCEPT ![e.file] = e.content]

(* Fault: the file's hash is recorded before the PCR is looked up.         *)
SkipRecording ==
  /\ Reading
  /\ NextEntry.pcr \in matches
  /\ pos' = pos + 1
  /\ latest' = Recorded(NextEntry)
  /\ Skipped

(* Fault: an entry is passed over together with the one before it.         *)
SkipTwo ==
  /\ Reading
  /\ NextEntry.pcr \in matches
  /\ pos' = pos + 2
  /\ UNCHANGED latest
  /\ Skipped

(* A PCR that has had its quoted value is complete: the entry came after   *)
(* the quote.                                                              *)
SkipEntry ==
  /\ Reading
  /\ NextEntry.pcr \in matches
  /\ pos' = pos + 1
  /\ UNCHANGED latest
  /\ Skipped

IsEdit(e) == e.pcr = 11 /\ e.file \in ReadOnly

(* Fault: later edits are illegal as well.                                 *)
LateEditIsIllegal == Reading /\ IsEdit(NextEntry) /\ Reject

IllegalEdit == Reading /\ NextEntry.pcr \notin matches /\ IsEdit(NextEntry) /\ Reject

(* "undocumented quirk": full_verify.py:217. *)
Extension(e) == IF e.content = Zeros THEN Ones ELSE DigestOf(e)

ReplayEntry(e) ==
  /\ replayed' = Extended(replayed, e.pcr, Extension(e))
  /\ latest' = Recorded(e)
  /\ matches' = matches \cup {p \in Pcrs : replayed'[p] = archive.quote[p]}
  /\ pos' = pos + 1
  /\ UNCHANGED <<machineVars, stage, archive>>

(* Faults: a PCR that has matched is replayed on; edits are replayed.      *)
ReplayOn == Reading /\ ~IsEdit(NextEntry) /\ ReplayEntry(NextEntry)
ReplayEdits == Reading /\ NextEntry.pcr \notin matches /\ ReplayEntry(NextEntry)

Replay ==
  /\ Reading
  /\ NextEntry.pcr \notin matches
  /\ ~IsEdit(NextEntry)
  /\ ReplayEntry(NextEntry)

(* Some non-empty prefix of the archived audit log, line by line, has the  *)
(* latest hash.                                                            *)
AuditAttested == latest["audit"] \in 1 .. archive.audit

LogMatches == matches = Pcrs

RulesAttested == latest["rules"] # Zeros /\ archive.rules = latest["rules"]

Decide ==
  /\ stage = "replaying"
  /\ pos = Len(archive.log)
  /\ stage' = IF LogMatches /\ RulesAttested /\ AuditAttested THEN "accepted" ELSE "rejected"
  /\ UNCHANGED <<machineVars, archive, replayVars>>

------------------------------------------------------------------------------
(* ima_verification.py, the earlier script: it extends PCR 10 with every   *)
(* digest of a log, as logged, and prints it.                              *)

LoggedDigest(e) == [file |-> IF e.content = Zeros THEN "none" ELSE e.file, content |-> e.content]

(* Fault: a line is read before the loop.                                  *)
PrintedWithoutFirst == [i \in 1 .. Len(log) - 1 |-> LoggedDigest(log[i + 1])]

Printed == [i \in 1 .. Len(log) |-> LoggedDigest(log[i])]

------------------------------------------------------------------------------

Init ==
  /\ log = <<Boot>>
  /\ pcr = <<KernelExtended(NoValues, Boot)>>
  /\ lines = 1
  /\ version = 1
  /\ booted \in BOOLEAN
  /\ stage = "idle"
  /\ archive = NoArchive
  /\ pos = 0
  /\ replayed = NoValues
  /\ matches = {}
  /\ latest = [f \in Files |-> Zeros]

Machine == Activity \/ AuditGrows \/ (\E f \in ReadOnly : Edit(f) \/ MeasureByHand(f)) \/ Reboot

Export == StartExport \/ OpenAudit \/ MeasureAudit \/ CopyAudit \/ OpenRules \/ CopyRules \/ Quote \/ CopyLog

Verify == CheckBoot \/ SkipEntry \/ IllegalEdit \/ Replay \/ Decide

Next == Machine \/ Export \/ Verify

Spec == Init /\ [][Next]_vars

------------------------------------------------------------------------------
(* Properties *)

PcrValues == [Pcrs -> Seq(Digests)]

Archives ==
  [audit : Nat, rules : Nat, quote : PcrValues, quotedAt : Nat, log : Seq(Entries),
   booted : BOOLEAN]

TypeOK ==
  /\ log \in Seq(Entries)
  /\ pcr \in Seq(PcrValues)
  /\ lines \in 1 .. MaxLines
  /\ version \in Nat
  /\ booted \in BOOLEAN
  /\ stage \in Stages
  /\ archive \in Archives
  /\ pos \in 0 .. Len(archive.log)
  /\ replayed \in PcrValues
  /\ matches \in SUBSET Pcrs
  /\ latest \in [Files -> Nat]

EditedBeforeQuote == \E i \in 1 .. archive.quotedAt : IsEdit(log[i])

(* An archive is accepted only if the machine booted with the policy and   *)
(* no protected file was opened for writing from then to the quote.        *)
AcceptedIsUnedited == stage = "accepted" => archive.booted /\ ~EditedBeforeQuote

(* No false alarm: although log and audit log grow during the export, the  *)
(* archive of a machine that did nothing wrong before the quote verifies,  *)
(* whatever it did between the quote and the copy of the log.  Files may   *)
(* be measured by hand, but not between the copy of audit.log and the      *)
(* quote.                                                                  *)
HonestIsAccepted == stage = "rejected" => ~archive.booted \/ EditedBeforeQuote

(* The replay never leaves the quote: a PCR is extended with what it had   *)
(* been extended with when it was quoted, and no further (line 196).       *)
ReplayIsQuoted ==
  \A p \in Pcrs :
    /\ Len(replayed[p]) <= Len(archive.quote[p])
    /\ \A i \in 1 .. Len(replayed[p]) : replayed[p][i] = archive.quote[p][i]

(* The hashes that the archived files are compared with are in the quote,  *)
(* not in the part of the log that came after it (line 204).               *)
LatestIsQuoted ==
  \A f \in Files : latest[f] # Zeros =>
    \E i \in 1 .. archive.quotedAt : log[i].file = f /\ log[i].content = latest[f]

(* What ima_verification.py prints is the PCR 10 of the machine as long as *)
(* no other PCR is measured into and no violation happens, and never after *)
(* that: it takes no PCR numbers and extends with the logged zeros.        *)
PrintedIsPcr10 ==
  Printed = pcr[Len(pcr)][10] <=>
    \A i \in 1 .. Len(log) : log[i].pcr = 10 /\ log[i].content # Zeros

(* full_verify.py:248, "audit log is not attested to!": then no prefix of  *)
(* the archived audit log is in the quote.  False if audit.log is measured *)
(* by hand between copy and quote.                                         *)
UnattestedIsUnattested ==
  stage = "rejected" /\ LogMatches /\ RulesAttested /\ ~AuditAttested =>
    \A i \in 1 .. archive.quotedAt :
      log[i].file = "audit" => log[i].content \notin 1 .. archive.audit

==============================================================================
