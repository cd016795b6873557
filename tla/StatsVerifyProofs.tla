-------------------------- MODULE StatsVerifyProofs --------------------------
(***************************************************************************)
(* The buffer of stats_verify is never overrun and holds the reference as  *)
(* far as it goes, and the median splits any readings as it should,        *)
(* however many there are.                                                 *)
(***************************************************************************)
EXTENDS StatsVerify, FiniteSetTheorems, TLAPS

(* Phase 1 is a prefix of the sorted readings seen so far. *)
Prefix ==
  /\ count1 + count2 = i
  /\ \A k \in 1 .. count1 : 2 * data[k] <= Median2
  /\ \A k \in count1 + 1 .. i : 2 * data[k] > Median2

SInv ==
  /\ TypeOK
  /\ stage \in {"reading", "fitting"} => i = 0 /\ data = <<>>
  /\ stage = "splitting" => Len(buffer) >= 2
  /\ Len(buffer) >= 2 /\ stage \notin {"reading", "fitting"} =>
       Len(data) = Len(buffer) /\ IsSorted(data)
  /\ Split => i = Len(data)
  /\ Prefix

LEMMA ValuesAreIntegers == Values \subseteq Int
  BY StatsAssumption DEF Values

LEMMA PowerDrawType == \A line \in Lines \cup {Header} : PowerDraw(line) \in Values
<1> TAKE line \in Lines \cup {Header}
<1>1. CASE line \in {Blank, Missing, Header}
  <2>1. Len(line) # 2
    BY <1>1 DEF Blank, Missing, Header
  <2> QED
    BY <2>1 DEF PowerDraw, Values
<1>2. ASSUME NEW x \in Readings, line = <<"power", x>>
      PROVE  PowerDraw(line) \in Values
  <2>1. Len(line) = 2 /\ line[2] = x
    BY <1>2
  <2> QED
    BY <2>1 DEF PowerDraw, Values
<1> QED
  BY <1>1, <1>2 DEF Lines

Middle == (Len(data) + 1) \div 2

(* The median is at least the reading in the middle, and lies below the    *)
(* next reading that is greater.                                           *)
LEMMA MedianBounds ==
  ASSUME TypeOK, StatsAssumption, Len(data) >= 2, IsSorted(data)
  PROVE  /\ Middle \in 1 .. Len(data) /\ 2 * Middle >= Len(data)
         /\ 2 * data[Middle] <= Median2
         /\ \A k \in 1 .. Len(data) : Middle < k =>
              /\ Median2 <= data[Middle] + data[k]
              /\ data[Middle] <= data[k]
<1> DEFINE n == Len(data)
<1>1. n \in Nat /\ n >= 2 /\ \A k \in 1 .. n : data[k] \in Int
  <2>1. n \in Nat /\ \A k \in 1 .. n : data[k] \in Values
    BY DEF TypeOK
  <2> QED
    BY <2>1, ValuesAreIntegers
<1>2. \A j, k \in 1 .. n : j <= k => data[j] <= data[k]
  BY DEF IsSorted
<1>3. CASE n % 2 = 0
  <2> DEFINE h == n \div 2
  <2>1. h \in 1 .. n /\ h + 1 \in 1 .. n /\ 2 * h = n /\ Middle = h
    BY <1>1, <1>3 DEF Middle
  <2>2. Median2 = data[h] + data[h + 1]
    BY <1>3 DEF Median2
  <2> HIDE DEF h, n
  <2>3. data[h] <= data[h + 1] /\ data[h] \in Int /\ data[h + 1] \in Int
    BY <1>1, <1>2, <2>1
  <2>4. ASSUME NEW k \in 1 .. n, h < k
        PROVE  Median2 <= data[h] + data[k] /\ data[h] <= data[k]
    <3>1. data[h + 1] <= data[k] /\ data[k] \in Int /\ data[h] <= data[k]
      BY <1>1, <1>2, <2>1, <2>4
    <3> QED
      BY <2>2, <2>3, <3>1
  <2> QED
    BY <1>1, <2>1, <2>2, <2>3, <2>4 DEF n
<1>4. CASE n % 2 # 0
  <2> DEFINE h == n \div 2 + 1
  <2>1. h \in 1 .. n /\ 2 * h = n + 1 /\ Middle = h
    BY <1>1, <1>4 DEF Middle
  <2>2. Median2 = 2 * data[h]
    BY <1>4 DEF Median2
  <2> HIDE DEF h, n
  <2>3. data[h] \in Int
    BY <1>1, <2>1
  <2>4. ASSUME NEW k \in 1 .. n, h < k
        PROVE  Median2 <= data[h] + data[k] /\ data[h] <= data[k]
    BY <1>1, <1>2, <2>1, <2>2, <2>3, <2>4
  <2> QED
    BY <1>1, <2>1, <2>2, <2>3, <2>4 DEF n
<1> QED
  BY <1>3, <1>4

LEMMA MedianType ==
  ASSUME TypeOK, StatsAssumption, Len(data) >= 2
  PROVE  Median2 \in Int /\ \A k \in 1 .. Len(data) : data[k] \in Int
<1> DEFINE n == Len(data)
<1>1. n \in Nat /\ n >= 2 /\ \A k \in 1 .. n : data[k] \in Int
  <2>1. n \in Nat /\ \A k \in 1 .. n : data[k] \in Values
    BY DEF TypeOK
  <2> QED
    BY <2>1, ValuesAreIntegers
<1>2. n \div 2 \in 1 .. n /\ n \div 2 + 1 \in 1 .. n
  BY <1>1
<1> QED
  BY <1>1, <1>2 DEF Median2

LEMMA InitSInv == Init => SInv
<1> SUFFICES ASSUME Init PROVE SInv
  OBVIOUS
<1>1. file \in Seq(Lines \cup {Header})
  <2>1. CASE file = <<>>
    BY <2>1
  <2>2. ASSUME NEW n \in 0 .. MaxLines, NEW lines \in [1 .. n -> Lines], file = <<Header>> \o lines
        PROVE  file \in Seq(Lines \cup {Header})
    <3>1. n \in Nat
      BY StatsAssumption
    <3>2. lines \in Seq(Lines \cup {Header})
      BY <3>1
    <3>3. <<Header>> \in Seq(Lines \cup {Header})
      OBVIOUS
    <3> QED
      BY <2>2, <3>2, <3>3
  <2> QED
    BY <2>1, <2>2 DEF Init
<1>2. Len(file) \in Nat
  BY <1>1
<1>3. TypeOK
  BY <1>1, <1>2, StatsAssumption DEF Init, TypeOK, Stages, NoInference
<1> QED
  BY <1>3 DEF Init, SInv, Prefix, Split

LEMMA StepSInv == SInv /\ [Next]_vars => SInv'
<1> SUFFICES ASSUME SInv, [Next]_vars PROVE SInv'
  OBVIOUS
<1> USE StatsAssumption DEF Stages
<1>0. /\ Len(file) \in Nat /\ Len(buffer) \in Nat /\ Len(data) \in Nat
      /\ count1 \in Nat /\ count2 \in Nat /\ i \in Nat
  BY DEF SInv, TypeOK
<1>1. CASE SkipHeader \/ SkipBlank \/ StoreRow
  <2>1. buffer' \in Seq(Values) /\ Len(buffer') <= Capacity
    <3>1. CASE SkipHeader \/ SkipBlank
      BY <3>1 DEF SkipHeader, SkipBlank, SInv, TypeOK
    <3>2. CASE StoreRow
      <4>1. file[pos + 1] \in Lines \cup {Header} /\ pos + 1 \in 1 .. Len(file)
        BY <1>0, <3>2 DEF StoreRow, LineRead, SInv, TypeOK
      <4>2. PowerDraw(file[pos + 1]) \in Values
        BY <4>1, PowerDrawType
      <4> QED
        BY <1>0, <3>2, <4>2 DEF StoreRow, Room, SInv, TypeOK
    <3> QED
      BY <1>1, <3>1, <3>2
  <2>2. /\ stage = "reading" /\ stage' = stage /\ pos' \in 0 .. Len(file')
        /\ UNCHANGED <<file, data, i, count1, count2, inferred, printed>>
    BY <1>0, <1>1 DEF SkipHeader, SkipBlank, StoreRow, LineRead, Reading, SInv, TypeOK, splitVars
  <2> QED
    BY <2>1, <2>2 DEF SInv, TypeOK, Prefix, Split, Median2
<1>2. CASE Overflow \/ EndOfFile
  BY <1>0, <1>2
  DEF Overflow, EndOfFile, LineRead, EndOfReading, SInv, TypeOK, Prefix, Split, Median2, splitVars
<1>3. CASE TooFew
  BY <1>0, <1>3 DEF TooFew, SInv, TypeOK, Prefix, Split, Median2, splitVars, readVars
<1>4. CASE Sort
  <2>1. /\ data' \in [1 .. Len(buffer) -> Values] /\ Len(buffer) >= 2 /\ IsSorted(data')
        /\ stage = "fitting" /\ stage' = "splitting"
        /\ UNCHANGED <<file, pos, buffer, i, count1, count2, inferred, printed>>
    BY <1>4 DEF Sort, splitVars, readVars
  <2>2. data' \in Seq(Values) /\ Len(data') = Len(buffer)
    BY <1>0, <2>1
  <2>3. i = 0 /\ count1 = 0 /\ count2 = 0
    BY <1>0, <2>1 DEF SInv, Prefix
  <2>4. TypeOK'
    BY <1>0, <2>1, <2>2, <2>3 DEF SInv, TypeOK
  <2>5. Prefix' /\ ~Split'
    BY <2>1, <2>3 DEF Prefix, Split
  <2> QED
    BY <2>1, <2>2, <2>4, <2>5 DEF SInv, IsSorted
<1>5. CASE SplitLow \/ SplitHigh
  <2>1. /\ stage = "splitting" /\ stage' = stage /\ i < Len(data) /\ i' = i + 1
        /\ UNCHANGED <<file, pos, buffer, data, inferred, printed>>
        /\ \/ 2 * data[i + 1] <= Median2 /\ count1' = count1 + 1 /\ count2' = count2
           \/ ~(2 * data[i + 1] <= Median2) /\ count2' = count2 + 1 /\ count1' = count1
    BY <1>5 DEF SplitLow, SplitHigh, Splitting, InPhase1, readVars
  <2>2. Len(data) >= 2 /\ IsSorted(data)
    BY <2>1 DEF SInv
  <2>3. Median2 \in Int /\ \A k \in 1 .. Len(data) : data[k] \in Int
    BY <2>2, MedianType DEF SInv
  <2>4. TypeOK'
    BY <1>0, <2>1 DEF SInv, TypeOK
  <2>5. Median2' = Median2
    BY <2>1 DEF Median2
  <2>6. CASE 2 * data[i + 1] <= Median2 /\ count1' = count1 + 1 /\ count2' = count2
    <3>1. count1 = i
      <4> SUFFICES ASSUME count1 # i PROVE FALSE
        OBVIOUS
      <4>1. i \in count1 + 1 .. i /\ i \in 1 .. Len(data) /\ i + 1 \in 1 .. Len(data)
        BY <1>0, <2>1 DEF SInv, Prefix
      <4>2. 2 * data[i] > Median2 /\ data[i] <= data[i + 1]
        BY <1>0, <2>2, <4>1 DEF SInv, Prefix, IsSorted
      <4> QED
        BY <2>3, <2>6, <4>1, <4>2
    <3> QED
      BY <1>0, <2>1, <2>4, <2>5, <2>6, <3>1 DEF SInv, Prefix, Split, IsSorted
  <2>7. CASE ~(2 * data[i + 1] <= Median2) /\ count2' = count2 + 1 /\ count1' = count1
    <3>1. 2 * data[i + 1] > Median2
      BY <1>0, <2>1, <2>3, <2>7
    <3>2. \A k \in count1 + 1 .. i + 1 : 2 * data[k] > Median2
      BY <1>0, <3>1 DEF SInv, Prefix
    <3> QED
      BY <1>0, <2>1, <2>4, <2>5, <2>7, <3>2 DEF SInv, Prefix, Split, IsSorted
  <2> QED
    BY <2>1, <2>6, <2>7
<1>6. CASE Fitted \/ Infer \/ PrintVerdict
  <2>1. /\ UNCHANGED <<file, pos, buffer, data, i, count1, count2>>
        /\ stage \in {"splitting", "inferring", "printing"}
        /\ stage = "splitting" => i = Len(data)
        /\ stage' \in {"inferring", "printing", "done"}
    BY <1>6 DEF Fitted, Infer, PrintVerdict, readVars, splitVars
  <2>2. inferred' \in [gpu : BOOLEAN, vram : BOOLEAN, power : BOOLEAN] /\ printed' \in {0, 1}
    <3>1. CASE Fitted \/ PrintVerdict
      BY <3>1 DEF Fitted, PrintVerdict, SInv, TypeOK
    <3>2. CASE Infer
      <4>1. PICK gpu, vram \in AnyIf(Len(buffer) >= 2), power \in AnyIf(PowerFitDefined) :
                   inferred' = [gpu |-> gpu, vram |-> vram, power |-> power]
        BY <3>2 DEF Infer
      <4>2. gpu \in BOOLEAN /\ vram \in BOOLEAN /\ power \in BOOLEAN
        BY DEF AnyIf
      <4>3. UNCHANGED printed
        BY <3>2 DEF Infer
      <4> QED
        BY <4>1, <4>2, <4>3 DEF SInv, TypeOK
    <3> QED
      BY <1>6, <3>1, <3>2
  <2>3. TypeOK'
    BY <2>1, <2>2 DEF SInv, TypeOK
  <2>4. Prefix'
    BY <2>1 DEF SInv, Prefix, Median2
  <2>5. Len(buffer) >= 2 => Len(data) = Len(buffer) /\ IsSorted(data) /\ i = Len(data)
    BY <2>1 DEF SInv, Split
  <2> QED
    BY <2>1, <2>3, <2>4, <2>5 DEF SInv, Split, IsSorted
<1>7. CASE UNCHANGED vars
  BY <1>7 DEF vars, readVars, splitVars, SInv, TypeOK, Prefix, Split, Median2, IsSorted
<1> QED
  BY <1>1, <1>2, <1>3, <1>4, <1>5, <1>6, <1>7 DEF Next

LEMMA StatsInductive == Spec => []SInv
  BY InitSInv, StepSInv, PTL DEF Spec

------------------------------------------------------------------------------

(* The type invariant; with it, that no row is stored beyond the buffer,   *)
(* for files of any length and a buffer of any capacity.                   *)
THEOREM BufferInBounds == Spec => []TypeOK
<1>1. SInv => TypeOK
  BY DEF SInv
<1> QED
  BY <1>1, StatsInductive, PTL

(* Rows are numbered from 1 on, in the order of their lines. *)
LEMMA RowType ==
  ASSUME NEW n \in Nat
  PROVE  IsFiniteSet(RowLines(n)) /\ Row(n) \in Nat
<1>1. IsFiniteSet(2 .. n) /\ RowLines(n) \in SUBSET (2 .. n)
  BY FS_Interval DEF RowLines
<1>2. IsFiniteSet(RowLines(n))
  BY <1>1, FS_Subset
<1> QED
  BY <1>2, FS_CardinalityType DEF Row

LEMMA RowStep ==
  ASSUME NEW n \in Nat
  PROVE  Row(n + 1) = IF n > 0 /\ file[n + 1] # Blank THEN Row(n) + 1 ELSE Row(n)
<1>1. CASE n > 0 /\ file[n + 1] # Blank
  <2>1. RowLines(n + 1) = RowLines(n) \cup {n + 1} /\ n + 1 \notin RowLines(n)
    BY <1>1 DEF RowLines
  <2> QED
    BY <1>1, <2>1, RowType, FS_AddElement DEF Row
<1>2. CASE ~(n > 0 /\ file[n + 1] # Blank)
  <2>1. RowLines(n + 1) = RowLines(n)
    BY <1>2 DEF RowLines
  <2> QED
    BY <1>2, <2>1 DEF Row
<1> QED
  BY <1>1, <1>2

LEMMA RowOrder ==
  ASSUME NEW m \in Nat, NEW n \in Nat, m <= n
  PROVE  Row(m) <= Row(n) /\ (m < n /\ n \in RowLines(n) => Row(m) < Row(n))
<1>1. RowLines(m) \in SUBSET RowLines(n) /\ IsFiniteSet(RowLines(n))
  BY RowType DEF RowLines
<1>2. Row(m) <= Row(n) /\ (Row(m) = Row(n) => RowLines(m) = RowLines(n))
  BY <1>1, FS_Subset DEF Row
<1>3. m < n => n \notin RowLines(m)
  BY DEF RowLines
<1>4. Row(m) \in Nat /\ Row(n) \in Nat
  BY RowType
<1> QED
  BY <1>2, <1>3, <1>4

(* The buffer holds, at its place, every row of the lines read, unless it  *)
(* is full.                                                                *)
RowsStored ==
  /\ stage = "reading" => Len(buffer) = Row(pos)
  /\ stage # "reading" =>
       Len(buffer) = IF Row(Len(file)) <= Capacity THEN Row(Len(file)) ELSE Capacity
  /\ \A k \in RowLines(Len(file)) :
       Row(k) <= Len(buffer) => buffer[Row(k)] = PowerDraw(file[k])

LEMMA InitRows == Init => RowsStored
<1> SUFFICES ASSUME Init PROVE RowsStored
  OBVIOUS
<1>1. pos = 0 /\ stage = "reading" /\ Len(buffer) = 0 /\ Len(file) \in Nat
  BY InitSInv DEF Init, SInv, TypeOK
<1>2. Row(0) = 0
  <2>1. RowLines(0) = {}
    BY DEF RowLines
  <2> QED
    BY <2>1, FS_EmptySet DEF Row
<1>3. ASSUME NEW k \in RowLines(Len(file)) PROVE Row(k) > 0
  <2>1. k \in Nat /\ 0 < k /\ k \in RowLines(k)
    BY <1>1, <1>3 DEF RowLines
  <2>2. Row(0) < Row(k)
    BY <2>1, RowOrder
  <2> QED
    BY <1>2, <2>2
<1>4. \A k \in RowLines(Len(file)) : ~(Row(k) <= 0)
  <2> TAKE k \in RowLines(Len(file))
  <2>1. k \in Nat
    BY <1>1 DEF RowLines
  <2> QED
    BY <1>3, <2>1, RowType
<1> QED
  BY <1>1, <1>2, <1>4 DEF RowsStored

LEMMA StepRows == SInv /\ RowsStored /\ [Next]_vars => RowsStored'
<1> SUFFICES ASSUME SInv, RowsStored, [Next]_vars PROVE RowsStored'
  OBVIOUS
<1>0. /\ Len(file) \in Nat /\ Len(buffer) \in Nat /\ Capacity \in Nat
      /\ pos \in Nat /\ pos <= Len(file) /\ Len(buffer) <= Capacity /\ buffer \in Seq(Values)
  BY StatsAssumption DEF SInv, TypeOK
<1>1. /\ Row(pos) \in Nat /\ Row(Len(file)) \in Nat /\ Row(pos) <= Row(Len(file))
  BY <1>0, RowType, RowOrder
<1>2. file' = file
  BY DEF Next, vars, SkipHeader, SkipBlank, StoreRow, Overflow, EndOfFile, TooFew, Sort, SplitLow,
         SplitHigh, Fitted, Infer, PrintVerdict, LineRead, Reading, EndOfReading, Splitting
<1>3. /\ RowLines(Len(file))' = RowLines(Len(file))
      /\ Row(Len(file))' = Row(Len(file))
      /\ \A k \in RowLines(Len(file)) : Row(k)' = Row(k) /\ PowerDraw(file[k])' = PowerDraw(file[k])
  BY <1>2 DEF Row, RowLines, PowerDraw
<1>4. CASE SkipHeader \/ SkipBlank
  <2>1. /\ pos' = pos + 1 /\ buffer' = buffer /\ stage = "reading" /\ stage' = stage
        /\ ~(pos > 0 /\ file[pos + 1] # Blank)
    BY <1>0, <1>4 DEF SkipHeader, SkipBlank, LineRead, Reading
  <2>2. Row(pos)' = Row(pos)
    <3>1. Row(pos)' = Row(pos + 1)
      BY <1>2, <2>1 DEF Row, RowLines
    <3>2. Row(pos + 1) = Row(pos)
      BY <1>0, <2>1, RowStep
    <3> QED
      BY <3>1, <3>2
  <2> QED
    BY <1>3, <2>1, <2>2 DEF RowsStored
<1>5. CASE StoreRow
  <2>1. /\ pos' = pos + 1 /\ buffer' = Append(buffer, PowerDraw(file[pos + 1]))
        /\ pos > 0 /\ pos < Len(file) /\ file[pos + 1] # Blank
        /\ stage = "reading" /\ stage' = stage
    BY <1>5 DEF StoreRow, LineRead, Reading
  <2>2. Row(pos + 1) = Row(pos) + 1 /\ Len(buffer) = Row(pos)
    BY <1>0, <2>1, RowStep DEF RowsStored
  <2>3. Row(pos)' = Row(pos + 1)
    BY <1>2, <2>1 DEF Row, RowLines
  <2>4. /\ Len(buffer') = Len(buffer) + 1
        /\ buffer'[Len(buffer) + 1] = PowerDraw(file[pos + 1])
        /\ \A j \in 1 .. Len(buffer) : buffer'[j] = buffer[j]
    <3>1. PowerDraw(file[pos + 1]) \in Values
      <4>1. file[pos + 1] \in Lines \cup {Header}
        BY <1>0, <2>1 DEF SInv, TypeOK
      <4> QED
        BY <4>1, PowerDrawType
    <3> QED
      BY <1>0, <2>1, <3>1
  <2>5. ASSUME NEW k \in RowLines(Len(file)), Row(k) <= Len(buffer')
        PROVE  buffer'[Row(k)] = PowerDraw(file[k])
    <3>1. k \in Nat /\ k \in RowLines(k) /\ k >= 1 /\ Row(k) \in Nat /\ pos + 1 \in RowLines(pos + 1)
      <4>1. k \in Nat /\ k \in RowLines(k) /\ k >= 1 /\ pos + 1 \in RowLines(pos + 1)
        BY <1>0, <2>1 DEF RowLines
      <4> QED
        BY <4>1, RowType
    <3>2. CASE k <= pos
      <4>1. Row(k) <= Row(pos) /\ Row(k) >= 1
        <5>1. Row(k) <= Row(pos)
          BY <1>0, <3>1, <3>2, RowOrder
        <5>2. Row(0) < Row(k) /\ Row(0) \in Nat
          BY <3>1, RowOrder, RowType
        <5> QED
          BY <3>1, <5>1, <5>2
      <4> QED
        BY <1>0, <2>2, <2>4, <2>5, <3>1, <4>1 DEF RowsStored
    <3>3. CASE k = pos + 1
      BY <2>2, <2>4, <3>3
    <3>4. CASE k > pos + 1
      <4>1. Row(pos + 1) < Row(k)
        BY <1>0, <3>1, <3>4, RowOrder
      <4> QED
        BY <1>0, <1>1, <2>2, <2>4, <2>5, <3>1, <4>1
    <3> QED
      BY <1>0, <3>1, <3>2, <3>3, <3>4
  <2> QED
    BY <1>0, <1>3, <2>1, <2>2, <2>3, <2>4, <2>5 DEF RowsStored
<1>6. CASE Overflow \/ EndOfFile
  <2>1. /\ buffer' = buffer /\ stage = "reading" /\ stage' = "fitting"
        /\ Len(buffer) >= Capacity \/ pos = Len(file)
    BY <1>0, <1>6 DEF Overflow, EndOfFile, EndOfReading, Room, LineRead
  <2>2. Len(buffer) = Row(pos)
    BY <2>1 DEF RowsStored
  <2>3. Len(buffer) = IF Row(Len(file)) <= Capacity THEN Row(Len(file)) ELSE Capacity
    BY <1>0, <1>1, <2>1, <2>2
  <2> QED
    BY <1>3, <2>1, <2>3 DEF RowsStored
<1>7. CASE \/ TooFew \/ Sort \/ SplitLow \/ SplitHigh \/ Fitted \/ Infer \/ PrintVerdict
           \/ UNCHANGED vars
  <2>1. buffer' = buffer /\ pos' = pos /\ (stage = "reading" <=> stage' = "reading")
    BY <1>7 DEF TooFew, Sort, SplitLow, SplitHigh, Splitting, Fitted, Infer, PrintVerdict, vars, readVars
  <2>2. Row(pos)' = Row(pos)
    BY <1>2, <2>1 DEF Row, RowLines
  <2> QED
    BY <1>3, <2>1, <2>2 DEF RowsStored
<1> QED
  BY <1>4, <1>5, <1>6, <1>7 DEF Next

(* What is fitted is the reference as far as the buffer goes: its first    *)
(* rows in their order, none skipped, none stored twice.                   *)
THEOREM ReferenceIsWhole == Spec => []WholeReference
<1>1. ASSUME SInv, RowsStored PROVE WholeReference
  <2> SUFFICES ASSUME stage # "reading", NEW k \in RowLines(Len(file)), Row(k) <= Capacity
               PROVE  buffer[Row(k)] = PowerDraw(file[k])
    BY <1>1 DEF WholeReference, RowsStored
  <2>1. k \in Nat /\ k <= Len(file) /\ Len(file) \in Nat
    BY <1>1 DEF SInv, TypeOK, RowLines
  <2>2. Row(k) <= Row(Len(file))
    BY <2>1, RowOrder
  <2> QED
    BY <1>1, <2>2 DEF RowsStored
<1> QED
  BY <1>1, InitRows, StepRows, StatsInductive, PTL DEF Spec

(* What is known of a split that is complete. *)
LEMMA SplitFacts ==
  ASSUME SInv, Split, StatsAssumption
  PROVE  /\ Len(data) \in Nat /\ Len(data) >= 2 /\ IsSorted(data)
         /\ count1 \in Nat /\ count2 \in Nat /\ count1 + count2 = Len(data)
         /\ Len(data) = Len(buffer) /\ Median2 \in Int
         /\ \A k \in 1 .. Len(data) : data[k] \in Int
         /\ \A k \in 1 .. count1 : 2 * data[k] <= Median2
         /\ \A k \in count1 + 1 .. Len(data) : 2 * data[k] > Median2
         /\ count1 >= Middle /\ Middle \in 1 .. Len(data) /\ 2 * Middle >= Len(data)
<1>1. /\ Len(data) \in Nat /\ Len(data) >= 2 /\ IsSorted(data) /\ Len(data) = Len(buffer)
      /\ count1 \in Nat /\ count2 \in Nat /\ count1 + count2 = Len(data) /\ TypeOK
      /\ \A k \in 1 .. count1 : 2 * data[k] <= Median2
      /\ \A k \in count1 + 1 .. Len(data) : 2 * data[k] > Median2
  BY DEF SInv, Split, Prefix, TypeOK
<1>2. Median2 \in Int /\ \A k \in 1 .. Len(data) : data[k] \in Int
  BY <1>1, MedianType
<1>3. Middle \in 1 .. Len(data) /\ 2 * Middle >= Len(data) /\ 2 * data[Middle] <= Median2
  BY <1>1, MedianBounds
<1>4. count1 >= Middle
  <2> SUFFICES ASSUME count1 < Middle PROVE FALSE
    BY <1>1, <1>3
  <2>1. Middle \in count1 + 1 .. Len(data)
    BY <1>1, <1>3
  <2> QED
    BY <1>1, <1>2, <1>3, <2>1
<1> QED
  BY <1>1, <1>2, <1>3, <1>4

(* The median splits the readings in two halves, the lower one not smaller.*)
THEOREM MedianSplits == Spec => []ModesHalve
<1>1. ASSUME SInv PROVE ModesHalve
  <2> SUFFICES ASSUME Split
               PROVE  /\ count1 + count2 = Len(buffer)
                      /\ count1 >= count2
                      /\ \A j \in 1 .. count1, k \in count1 + 1 .. Len(data) : data[j] < data[k]
    BY DEF ModesHalve
  <2>1. count1 + count2 = Len(buffer) /\ count1 >= count2
    BY <1>1, SplitFacts, StatsAssumption
  <2>2. ASSUME NEW j \in 1 .. count1, NEW k \in count1 + 1 .. Len(data)
        PROVE  data[j] < data[k]
    BY <1>1, <2>2, SplitFacts, StatsAssumption
  <2> QED
    BY <2>1, <2>2
<1> QED
  BY <1>1, StatsInductive, PTL

(* Phase 2 is empty just if the upper half of the readings is all equal.   *)
THEOREM UpperModeTied == Spec => []UpperModeEmpty
<1>1. ASSUME SInv PROVE UpperModeEmpty
  <2> SUFFICES ASSUME Split
               PROVE  count2 = 0 <=> data[Middle] = data[Len(data)]
    BY DEF UpperModeEmpty, Middle
  <2> DEFINE n == Len(data)
  <2>0. TypeOK
    BY <1>1 DEF SInv
  <2>1. ASSUME count2 = 0 PROVE data[Middle] = data[n]
    <3>1. count1 = n /\ n \in 1 .. n /\ 2 * data[n] <= Median2 /\ data[n] \in Int /\ data[Middle] \in Int
      BY <1>1, <2>1, SplitFacts, StatsAssumption
    <3>2. CASE Middle = n
      BY <3>2
    <3>3. CASE Middle < n
      <4>1. Median2 <= data[Middle] + data[n] /\ data[Middle] <= data[n]
        BY <1>1, <2>0, <3>1, <3>3, SplitFacts, MedianBounds, StatsAssumption
      <4>2. Median2 \in Int
        BY <1>1, SplitFacts, StatsAssumption
      <4> QED
        BY <3>1, <4>1, <4>2
    <3> QED
      BY <1>1, <3>2, <3>3, SplitFacts, StatsAssumption
  <2>2. ASSUME count2 # 0 PROVE data[Middle] # data[n]
    <3>1. Middle \in 1 .. count1 /\ n \in count1 + 1 .. n
      BY <1>1, <2>2, SplitFacts, StatsAssumption
    <3> QED
      BY <1>1, <3>1, SplitFacts, StatsAssumption
  <2> QED
    BY <2>1, <2>2
<1> QED
  BY <1>1, StatsInductive, PTL

(* Four or more different readings make both phases big enough to fit.     *)
THEOREM DistinctReadingsFit == Spec => []DistinctIsFitted
<1>1. ASSUME SInv PROVE DistinctIsFitted
  <2> SUFFICES ASSUME Split, Len(data) >= 4,
                      \A j, k \in 1 .. Len(data) : data[j] = data[k] => j = k
               PROVE  PowerFitDefined
    BY DEF DistinctIsFitted
  <2> DEFINE n == Len(data)
             k == n - 1
  <2>0. TypeOK
    BY <1>1 DEF SInv
  <2>1. /\ n \in Nat /\ k \in 1 .. n /\ Middle \in 1 .. n /\ Median2 \in Int
        /\ count1 \in Nat /\ count2 \in Nat /\ count1 + count2 = n /\ count1 >= 2
        /\ data[k] \in Int /\ data[Middle] \in Int /\ IsSorted(data)
    BY <1>1, SplitFacts, StatsAssumption
  <2>2. Middle < k
    <3>1. Middle = (n + 1) \div 2
      BY DEF Middle
    <3> QED
      BY <2>1, <3>1
  <2>3. Median2 <= data[Middle] + data[k] /\ data[Middle] <= data[k] /\ data[Middle] # data[k]
    BY <2>0, <2>1, <2>2, MedianBounds, StatsAssumption
  <2>4. 2 * data[k] > Median2
    BY <2>1, <2>3
  <2>5. count1 < k
    BY <1>1, <2>1, <2>4, SplitFacts, StatsAssumption
  <2>6. Spread(1, count1)
    BY <2>1, <2>5 DEF Spread
  <2>7. Spread(count1 + 1, n)
    BY <2>1, <2>5 DEF Spread
  <2> QED
    BY <2>6, <2>7 DEF PowerFitDefined
<1> QED
  BY <1>1, StatsInductive, PTL

==============================================================================
