----------------------------- MODULE StatsVerify -----------------------------
(***************************************************************************)
(* stats_verify, the program that tmb.py runs on a model's reference:      *)
(* reads the CSV file into a buffer of fixed capacity, fits the three      *)
(* columns, makes an inference of the prompt's averages from each fit, and *)
(* prints the verdict.                                                     *)
(*                                                                         *)
(* Readings are integers in some unit, so that medians are exact when      *)
(* doubled.  What the beta fits and densities evaluate to is not computed: *)
(* an inference is any Boolean where the fit is defined, and FALSE, which  *)
(* is what comparing NaN gives, where it is not.                           *)
(***************************************************************************)
EXTENDS Integers, Sequences, FiniteSets

CONSTANTS
  Capacity,  \* of the buffer: DataBufferInit(&buffer, 200)
  Readings,  \* the power readings of a reference
  Default,   \* what stands for a missing field: 0.3
  MaxLines   \* bound of the model: lines after the header

ASSUME StatsAssumption ==
  /\ Capacity \in Nat \ {0}
  /\ Readings \subseteq Int
  /\ Default \in Int
  /\ MaxLines \in Nat

VARIABLES
  file,      \* its lines, the header first
  pos,       \* lines read
  buffer,    \* the rows stored, by their powerDraw
  stage,     \* what main does next
  data,      \* the readings, sorted
  i,         \* readings the loop over data has seen
  count1,    \* those in phase 1, up to the median
  count2,    \* those in phase 2
  inferred,  \* the three inferences
  printed    \* the verdict

readVars == <<pos, buffer>>
splitVars == <<i, count1, count2>>
vars == <<file, readVars, stage, data, splitVars, inferred, printed>>

------------------------------------------------------------------------------

(* A line is blank or its powerDraw, the third field, which may be missing. *)
Blank == <<>>
Missing == <<"missing">>
Header == <<"header">>
Lines == {Blank, Missing} \cup {<<"power", x>> : x \in Readings}

Values == Readings \cup {Default}

PowerDraw(line) == IF Len(line) = 2 THEN line[2] ELSE Default

(* Fault: the middle of an odd number of readings is taken one too low.    *)
Median2TooLow ==
  LET n == Len(data)
  IN  IF n % 2 = 0 THEN data[n \div 2] + data[n \div 2 + 1] ELSE 2 * data[n \div 2]

(* Phases 1 and 2 are below and above this, the doubled median. *)
Median2 ==
  LET n == Len(data)
  IN  IF n % 2 = 0 THEN data[n \div 2] + data[n \div 2 + 1] ELSE 2 * data[n \div 2 + 1]

(* What qsort makes of the readings. *)
IsSorted(s) == \A j, k \in 1 .. Len(s) : j <= k => s[j] <= s[k]

Times(x, s) == Cardinality({j \in 1 .. Len(s) : s[j] = x})

IsPermutation(s, t) == Len(s) = Len(t) /\ \A x \in Values : Times(x, s) = Times(x, t)

------------------------------------------------------------------------------
(* DataBufferRead *)

(* A further line is there, and room for its row is looked for first. *)
LineRead == stage = "reading" /\ pos < Len(file) /\ pos' = pos + 1

(* Fault: room for one row more than there is.                             *)
RoomForOneMore == Len(buffer) <= Capacity

Room == Len(buffer) < Capacity

Reading == UNCHANGED <<file, stage, data, splitVars, inferred, printed>>

SkipHeader == LineRead /\ Room /\ pos = 0 /\ Reading /\ UNCHANGED buffer

SkipBlank ==
  /\ LineRead
  /\ Room
  /\ pos > 0
  /\ file[pos + 1] = Blank
  /\ Reading
  /\ UNCHANGED buffer

StoreRow ==
  /\ LineRead
  /\ Room
  /\ pos > 0
  /\ file[pos + 1] # Blank
  /\ buffer' = Append(buffer, PowerDraw(file[pos + 1]))
  /\ Reading

EndOfReading ==
  /\ stage' = "fitting"
  /\ UNCHANGED <<file, buffer, data, splitVars, inferred, printed>>

(* "Buffer Overflow!": the line is dropped and reading ends. *)
Overflow == LineRead /\ ~Room /\ EndOfReading

(* Fault: a blank line ends the file.                                      *)
EndAtBlank ==
  /\ stage = "reading"
  /\ pos < Len(file) => pos > 0 /\ file[pos + 1] = Blank
  /\ EndOfReading
  /\ UNCHANGED pos

EndOfFile == stage = "reading" /\ pos = Len(file) /\ EndOfReading /\ UNCHANGED pos

------------------------------------------------------------------------------
(* bimodalFitPower *)

(* The betaDistro functions return the same of fewer than two rows: NaN.    *)
TooFew ==
  /\ stage = "fitting"
  /\ Len(buffer) < 2
  /\ stage' = "inferring"
  /\ UNCHANGED <<file, readVars, data, splitVars, inferred, printed>>

(* Fault: the readings are not sorted.                                     *)
Unsorted ==
  /\ stage = "fitting"
  /\ Len(buffer) >= 2
  /\ data' = buffer
  /\ stage' = "splitting"
  /\ UNCHANGED <<file, readVars, splitVars, inferred, printed>>

Sort ==
  /\ stage = "fitting"
  /\ Len(buffer) >= 2
  /\ \E sorted \in [1 .. Len(buffer) -> Values] :
       /\ IsSorted(sorted)
       /\ IsPermutation(sorted, buffer)
       /\ data' = sorted
  /\ stage' = "splitting"
  /\ UNCHANGED <<file, readVars, splitVars, inferred, printed>>

Splitting ==
  /\ stage = "splitting"
  /\ i < Len(data)
  /\ i' = i + 1
  /\ UNCHANGED <<file, readVars, stage, data, inferred, printed>>

(* Fault: readings equal to the median are put into phase 2.               *)
BelowMedian == 2 * data[i + 1] < Median2

InPhase1 == 2 * data[i + 1] <= Median2

SplitLow == Splitting /\ InPhase1 /\ count1' = count1 + 1 /\ UNCHANGED count2

SplitHigh == Splitting /\ ~InPhase1 /\ count2' = count2 + 1 /\ UNCHANGED count1

Fitted ==
  /\ stage = "splitting"
  /\ i = Len(data)
  /\ stage' = "inferring"
  /\ UNCHANGED <<file, readVars, data, splitVars, inferred, printed>>

------------------------------------------------------------------------------
(* main: the three fits read the buffer only, so their order is left out. *)

(* Of a phase of one reading the deviation is 0/0, of an empty one all is;  *)
(* and if the readings of a phase are equal, its deviation is 0 and its    *)
(* density infinity times 0 or 0/0.                                        *)
Spread(first, last) == first < last /\ data[first] # data[last]

PowerFitDefined == Spread(1, count1) /\ Spread(count1 + 1, Len(data))

AnyIf(defined) == IF defined THEN BOOLEAN ELSE {FALSE}

Infer ==
  /\ stage = "inferring"
  /\ \E gpu, vram \in AnyIf(Len(buffer) >= 2), power \in AnyIf(PowerFitDefined) :
       inferred' = [gpu |-> gpu, vram |-> vram, power |-> power]
  /\ stage' = "printing"
  /\ UNCHANGED <<file, readVars, data, splitVars, printed>>

(* printf("\n%d", vramInference) *)
PrintVerdict ==
  /\ stage = "printing"
  /\ printed' = IF inferred.vram THEN 1 ELSE 0
  /\ stage' = "done"
  /\ UNCHANGED <<file, readVars, data, splitVars, inferred>>

NoInference == [gpu |-> FALSE, vram |-> FALSE, power |-> FALSE]

Init ==
  /\ \/ file = <<>>
     \/ \E n \in 0 .. MaxLines : \E lines \in [1 .. n -> Lines] : file = <<Header>> \o lines
  /\ pos = 0
  /\ buffer = <<>>
  /\ stage = "reading"
  /\ data = <<>>
  /\ i = 0
  /\ count1 = 0
  /\ count2 = 0
  /\ inferred = NoInference
  /\ printed = 0

Next ==
  \/ SkipHeader \/ SkipBlank \/ StoreRow \/ Overflow \/ EndOfFile
  \/ TooFew \/ Sort \/ SplitLow \/ SplitHigh \/ Fitted
  \/ Infer \/ PrintVerdict

Spec == Init /\ [][Next]_vars

------------------------------------------------------------------------------
(* Properties *)

Stages == {"reading", "fitting", "splitting", "inferring", "printing", "done"}

(* The buffer is never written beyond its end (stats_verify.c:124).        *)
TypeOK ==
  /\ file \in Seq(Lines \cup {Header})
  /\ pos \in 0 .. Len(file)
  /\ buffer \in Seq(Values)
  /\ Len(buffer) <= Capacity
  /\ stage \in Stages
  /\ data \in Seq(Values)
  /\ i \in 0 .. Len(data)
  /\ count1 \in Nat
  /\ count2 \in Nat
  /\ inferred \in [gpu : BOOLEAN, vram : BOOLEAN, power : BOOLEAN]
  /\ printed \in {0, 1}

(* The rows of a file: the lines after the header that have a field.  The  *)
(* row of line k is the number of such lines up to it.                     *)
RowLines(last) == {k \in 2 .. last : file[k] # Blank}

Row(k) == Cardinality(RowLines(k))

(* What is fitted is the reference: its first Capacity rows, in their      *)
(* order, blank lines between them or not, none lost to the header or to   *)
(* the capacity check that comes before it (stats_verify.c:124-137).       *)
WholeReference ==
  stage # "reading" =>
    /\ Len(buffer) = IF Row(Len(file)) <= Capacity THEN Row(Len(file)) ELSE Capacity
    /\ \A k \in RowLines(Len(file)) :
         Row(k) <= Capacity => buffer[Row(k)] = PowerDraw(file[k])

Split == stage \in {"inferring", "printing", "done"} /\ Len(buffer) >= 2

(* The median splits the readings: every one is in a phase, phase 1 is no  *)
(* smaller than phase 2, and no reading of phase 1 is above one of         *)
(* phase 2.  So mean1 and weight1 are never 0/0 (powerdraw/utils.c:54).    *)
ModesHalve ==
  Split =>
    /\ count1 + count2 = Len(buffer)
    /\ count1 >= count2
    /\ \A j \in 1 .. count1, k \in count1 + 1 .. Len(data) : data[j] < data[k]

(* Phase 2 is empty, and its mean 0/0, just if the upper half of the       *)
(* readings, the middle one included, are all equal: a reference of equal  *)
(* readings is the common case (powerdraw/utils.c:55).                     *)
UpperModeEmpty ==
  Split => (count2 = 0 <=> data[(Len(data) + 1) \div 2] = data[Len(data)])

(* Four readings suffice, if they are different: then both densities are   *)
(* defined (powerdraw/utils.c:16-20).  tmb.py asks for verdicts from four  *)
(* rows on.                                                                *)
DistinctIsFitted ==
  Split /\ Len(data) >= 4 /\ (\A j, k \in 1 .. Len(data) : data[j] = data[k] => j = k) =>
    PowerFitDefined

==============================================================================
