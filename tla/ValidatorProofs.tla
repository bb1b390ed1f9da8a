-------------------------- MODULE ValidatorProofs --------------------------
(***************************************************************************)
(* What the validator says of a recording, for every recording and every   *)
(* limit on the errors.                                                    *)
(***************************************************************************)
EXTENDS Validator, SequenceTheorems, WellFoundedInduction, TLAPS

(* The lines that have been dealt with; the line at hand is not one of them. *)
Checked == IF validating = "compare" THEN lineNum - 1 ELSE lineNum

(* While no error has been found the codec's reader stands at the lines dealt
   with, but for blank ones; after an error it may be behind, never ahead. *)
ReadersInv ==
    /\ codecLine <= Checked
    /\ validating = "compare" => lineNum >= 1 /\ recording.lines[lineNum].form = "document"
    /\ errorCount = 0 /\ recording.zip =>
          \A i \in codecLine + 1 .. Checked : recording.lines[i].form = "blank"

(* Errors are what tells the lines: none were found as long as all are equal. *)
ErrorsInv ==
    /\ errorCount = 0 <=> \A i \in 1 .. Checked : Equal(recording.lines[i])
    /\ validating \in {"scan", "compare"} => errorCount < MaxErrors

VerdictInv ==
    /\ validating = "off" =>
          recording = NoRecording /\ lineNum = 0 /\ codecLine = 0 /\ errorCount = 0
    /\ validating \in {"off", "scan", "compare"} <=> validResult = "none"
    /\ validResult = "ok" =>
          errorCount = 0 /\ lineNum = Len(recording.lines) /\ recording.end = "eof"
    /\ validResult = "error" /\ recording # NoRecording => errorCount > 0 \/ recording.end = "tooLong"

ValidatorIInv == ValidatorTypeOK /\ ReadersInv /\ ErrorsInv /\ VerdictInv

----------------------------------------------------------------------------
(* A set of natural numbers has a least element. *)
LEMMA LeastExists ==
    ASSUME NEW S \in SUBSET Nat, S # {}
    PROVE  \E n \in S : \A m \in S : n <= m
<1> DEFINE R == OpToRel(<, Nat)
<1>1. IsWellFoundedOn(R, Nat)
  BY NatLessThanWellFounded
<1>2. \A m, n \in Nat : m < n => <<m, n>> \in R
  BY DEF OpToRel
<1> HIDE DEF R
<1>3. PICK n \in S : \A m \in S : <<m, n>> \notin R
  BY <1>1, WFMin, Zenon
<1>4. \A m \in S : ~(m < n)
  BY <1>2, <1>3
<1> QED
  BY <1>4

LEMMA LineTypes ==
    ASSUME ValidatorTypeOK
    PROVE  /\ recording.lines \in Seq(Line) /\ Len(recording.lines) \in Nat
           /\ DOMAIN recording.lines = 1 .. Len(recording.lines)
           /\ \A i \in 1 .. Len(recording.lines) : recording.lines[i] \in Line
           /\ recording.zip \in BOOLEAN /\ recording.end \in {"eof", "tooLong"}
           /\ lineNum \in Nat /\ codecLine \in Nat /\ errorCount \in Nat
<1>1. recording \in Recording
  BY DEF ValidatorTypeOK
<1>2. recording.lines \in Seq(Line) /\ recording.zip \in BOOLEAN /\ recording.end \in {"eof", "tooLong"}
  BY <1>1 DEF Recording
<1>3. /\ Len(recording.lines) \in Nat /\ DOMAIN recording.lines = 1 .. Len(recording.lines)
      /\ \A i \in 1 .. Len(recording.lines) : recording.lines[i] \in Line
  BY <1>2, LenProperties, ElementOfSeq, Zenon
<1> QED
  BY <1>2, <1>3, ValidatorAssumption DEF ValidatorTypeOK, ValidatorAssumption

(* The codec's reader has a line to read, not beyond the line at hand; and it
   is the line at hand as long as no error has been found. *)
LEMMA NextCodecLineFacts ==
    ASSUME ValidatorTypeOK, ReadersInv, validating = "compare"
    PROVE  /\ NextCodecLine \in 1 .. lineNum
           /\ errorCount = 0 => NextCodecLine = lineNum
<1>1. /\ lineNum \in 1 .. Len(recording.lines) /\ Len(recording.lines) \in Nat
      /\ codecLine \in Nat /\ codecLine <= lineNum - 1
      /\ recording.lines[lineNum].form = "document"
  BY LineTypes DEF ReadersInv, ValidatorTypeOK, Checked
<1>2. CASE ~recording.zip
  BY <1>1, <1>2 DEF NextCodecLine
<1>3. CASE recording.zip
  <2> DEFINE N == Len(recording.lines)
             Read(i) == /\ recording.lines[i].form # "blank"
                        /\ \A j \in codecLine + 1 .. i - 1 : recording.lines[j].form = "blank"
             S == {i \in codecLine + 1 .. N : recording.lines[i].form # "blank"}
  <2>1. lineNum \in S /\ S \in SUBSET Nat
    BY <1>1
  <2> HIDE DEF S
  <2>2. PICK n \in S : \A m \in S : n <= m
    BY <2>1, LeastExists
  <2> USE DEF S
  <2>3. n \in codecLine + 1 .. N /\ Read(n)
    BY <1>1, <2>2
  <2>4. NextCodecLine \in codecLine + 1 .. N /\ Read(NextCodecLine)
    <3>1. NextCodecLine = CHOOSE i \in codecLine + 1 .. N : Read(i)
      BY <1>3, Zenon DEF NextCodecLine
    <3> HIDE DEF Read
    <3> QED
      BY <2>3, <3>1, Zenon
  <2> DEFINE k == NextCodecLine
  <2>5. k \in 1 .. N /\ k >= codecLine + 1
    BY <1>1, <2>4
  <2>6. k <= lineNum
    <3> SUFFICES ASSUME k > lineNum PROVE FALSE
      BY <1>1, <2>5
    <3>1. lineNum \in codecLine + 1 .. k - 1
      BY <1>1, <2>5
    <3> QED
      BY <1>1, <2>4, <3>1
  <2>7. errorCount = 0 => k = lineNum
    <3> SUFFICES ASSUME errorCount = 0, k # lineNum PROVE FALSE
      OBVIOUS
    <3>1. k \in codecLine + 1 .. Checked
      BY <1>1, <2>5, <2>6 DEF Checked
    <3> QED
      BY <1>3, <2>4, <3>1 DEF ReadersInv
  <2> HIDE DEF k
  <2> QED
    BY <1>1, <2>5, <2>6, <2>7 DEF k
<1> QED
  BY <1>2, <1>3, LineTypes

(* Asking cmp.Diff as well takes away all that the tolerance gives. *)
LEMMA SameMeansEqual ==
    ASSUME NEW a \in Int, NEW b \in Int
    PROVE  SameDocument(a, b) <=> a = b
  BY DEF SameDocument, compareWithTolerance, floatEquals, isZeroValue, Missing

LEMMA ValidatorInitIInv == ValidatorInit => ValidatorIInv
<1> SUFFICES ASSUME ValidatorInit PROVE ValidatorIInv
  OBVIOUS
<1>1. Len(recording.lines) = 0 /\ recording \in Recording
  BY EmptySeq DEF ValidatorInit, NoRecording, Recording
<1> QED
  BY <1>1, ValidatorAssumption
     DEF ValidatorInit, ValidatorIInv, ValidatorTypeOK, ReadersInv, ErrorsInv, VerdictInv, Checked,
         ValidatorAssumption

LEMMA OpenStep ==
    ASSUME ValidatorIInv, NEW file \in Recordings, NEW opens \in BOOLEAN,
           OpenRecording(file, opens)
    PROVE  ValidatorIInv'
<1>1. file \in Recording /\ MaxErrors \in Nat \ {0}
  BY ValidatorAssumption DEF ValidatorAssumption
<1>2. file.lines \in Seq(Line) /\ Len(file.lines) \in Nat
  BY <1>1, LenProperties DEF Recording
<1>3. /\ validating = "off" /\ lineNum = 0 /\ codecLine = 0 /\ errorCount = 0 /\ validResult = "none"
      /\ UNCHANGED <<lineNum, codecLine, errorCount>>
      /\ \/ validating' = "scan" /\ recording' = file /\ validResult' = "none"
         \/ validating' = "exited" /\ recording' = recording /\ validResult' = "error"
  BY DEF OpenRecording, ValidatorIInv, VerdictInv
<1>4. recording' \in Recording /\ Len(recording'.lines) \in Nat
  BY <1>1, <1>2, <1>3, LineTypes DEF ValidatorIInv, ValidatorTypeOK
<1>5. recording' = recording => recording = NoRecording
  BY <1>3 DEF ValidatorIInv, VerdictInv
<1> QED
  BY <1>1, <1>3, <1>4, <1>5
     DEF ValidatorIInv, ValidatorTypeOK, ReadersInv, ErrorsInv, VerdictInv, Checked

(* A line that is at fault is counted, whichever reader finds it so. *)
LEMMA CountErrorStep ==
    ASSUME ValidatorTypeOK, errorCount < MaxErrors, CountError
    PROVE  /\ errorCount' = errorCount + 1 /\ errorCount' \in 1 .. MaxErrors
           /\ \/ validating' = "exited" /\ validResult' = "error"
              \/ validating' = "scan" /\ validResult' = validResult /\ errorCount' < MaxErrors
  BY LineTypes, ValidatorAssumption DEF CountError, ValidatorTypeOK, ValidatorAssumption

LEMMA ParseStep ==
    ASSUME ValidatorIInv, ManuallyParseLine
    PROVE  ValidatorIInv'
<1> DEFINE line == recording.lines[lineNum + 1]
<1>1. /\ validating = "scan" /\ lineNum < Len(recording.lines) /\ lineNum' = lineNum + 1
      /\ UNCHANGED <<recording, codecLine>>
  BY DEF ManuallyParseLine
<1>2. /\ ValidatorTypeOK /\ lineNum \in Nat /\ codecLine \in Nat /\ errorCount \in Nat
      /\ Len(recording.lines) \in Nat /\ codecLine <= lineNum /\ errorCount < MaxErrors
      /\ validResult = "none" /\ MaxErrors \in Nat
  BY <1>1, LineTypes, ValidatorAssumption
     DEF ValidatorIInv, ReadersInv, ErrorsInv, VerdictInv, Checked, ValidatorAssumption
<1>3. line \in Line /\ line.form \in {"blank", "invalid", "document"}
  BY <1>1, <1>2, LineTypes DEF Line
<1>4. recording \in Recording /\ recording' = recording
  BY <1>1, <1>2 DEF ValidatorTypeOK
<1>5. errorCount = 0 <=> \A i \in 1 .. lineNum : Equal(recording.lines[i])
  BY <1>1 DEF ValidatorIInv, ErrorsInv, Checked
<1>6. errorCount = 0 /\ recording.zip =>
         \A i \in codecLine + 1 .. lineNum : recording.lines[i].form = "blank"
  BY <1>1 DEF ValidatorIInv, ReadersInv, Checked
<1>7. CASE line.form = "blank"
  <2>1. UNCHANGED <<validating, errorCount, validResult>>
    BY <1>7 DEF ManuallyParseLine
  <2>2. Checked' = lineNum + 1
    BY <1>1, <2>1 DEF Checked
  <2>3. errorCount = 0 <=> \A i \in 1 .. lineNum + 1 : Equal(recording.lines[i])
    BY <1>2, <1>5, <1>7 DEF Equal
  <2>4. errorCount = 0 /\ recording.zip =>
           \A i \in codecLine + 1 .. lineNum + 1 : recording.lines[i].form = "blank"
    BY <1>2, <1>6, <1>7
  <2>5. ValidatorTypeOK'
    BY <1>1, <1>2, <2>1 DEF ValidatorTypeOK
  <2>6. ReadersInv'
    BY <1>1, <1>2, <2>1, <2>2, <2>4 DEF ReadersInv
  <2>7. ErrorsInv'
    BY <1>1, <1>2, <2>1, <2>2, <2>3 DEF ErrorsInv, Equal
  <2>8. VerdictInv'
    BY <1>1, <1>2, <2>1 DEF VerdictInv
  <2> QED
    BY <2>5, <2>6, <2>7, <2>8 DEF ValidatorIInv
<1>8. CASE line.form = "invalid"
  <2>1. CountError
    BY <1>8 DEF ManuallyParseLine
  <2>2. /\ errorCount' = errorCount + 1 /\ errorCount' \in 1 .. MaxErrors
        /\ \/ validating' = "exited" /\ validResult' = "error"
           \/ validating' = "scan" /\ validResult' = "none" /\ errorCount' < MaxErrors
    BY <1>2, <2>1, CountErrorStep
  <2>3. Checked' = lineNum + 1 /\ ~Equal(recording.lines[lineNum + 1])
    BY <1>1, <1>8, <2>2 DEF Checked, Equal
  <2>4. ValidatorTypeOK'
    BY <1>1, <1>2, <2>2 DEF ValidatorTypeOK
  <2>5. ReadersInv'
    BY <1>1, <1>2, <2>2, <2>3 DEF ReadersInv
  <2>6. ErrorsInv'
    BY <1>1, <1>2, <2>2, <2>3 DEF ErrorsInv, Equal
  <2>7. VerdictInv'
    BY <1>1, <1>2, <2>2 DEF VerdictInv
  <2> QED
    BY <2>4, <2>5, <2>6, <2>7 DEF ValidatorIInv
<1>9. CASE line.form = "document"
  <2>1. validating' = "compare" /\ UNCHANGED <<errorCount, validResult>>
    BY <1>9 DEF ManuallyParseLine
  <2>2. Checked' = lineNum
    BY <1>1, <1>2, <2>1 DEF Checked
  <2>3. ValidatorTypeOK'
    BY <1>1, <1>2, <2>1 DEF ValidatorTypeOK
  <2>4. ReadersInv'
    BY <1>1, <1>2, <1>6, <1>9, <2>1, <2>2 DEF ReadersInv
  <2>5. ErrorsInv'
    BY <1>1, <1>2, <1>5, <2>1, <2>2 DEF ErrorsInv, Equal
  <2>6. VerdictInv'
    BY <1>1, <1>2, <2>1 DEF VerdictInv
  <2> QED
    BY <2>3, <2>4, <2>5, <2>6 DEF ValidatorIInv
<1> QED
  BY <1>3, <1>7, <1>8, <1>9

LEMMA CompareStep ==
    ASSUME ValidatorIInv, CompareLine
    PROVE  ValidatorIInv'
<1> DEFINE n == NextCodecLine
           decoded == recording.lines[n]
           control == recording.lines[lineNum]
           Same == /\ decoded.form = "document" /\ decoded.readable
                   /\ SameDocument(control.control, decoded.encoded)
<1>1. /\ validating = "compare" /\ codecLine' = n /\ UNCHANGED <<recording, lineNum>>
      /\ \/ Same /\ validating' = "scan" /\ UNCHANGED <<errorCount, validResult>>
         \/ ~Same /\ CountError
  BY DEF CompareLine, Control
<1>2. /\ ValidatorTypeOK /\ lineNum \in 1 .. Len(recording.lines)
      /\ codecLine \in Nat /\ errorCount \in Nat
      /\ Len(recording.lines) \in Nat /\ errorCount < MaxErrors
      /\ validResult = "none" /\ MaxErrors \in Nat /\ control.form = "document"
  BY <1>1, LineTypes, ValidatorAssumption
     DEF ValidatorIInv, ReadersInv, ErrorsInv, VerdictInv, ValidatorTypeOK, ValidatorAssumption
<1>3. n \in 1 .. lineNum /\ (errorCount = 0 => n = lineNum)
  BY <1>1, NextCodecLineFacts DEF ValidatorIInv
<1>4. control \in Line /\ decoded \in Line
  BY <1>2, <1>3, LineTypes
<1>5. errorCount = 0 => (Same <=> Equal(control))
  BY <1>2, <1>3, <1>4, SameMeansEqual DEF Equal, Line
<1>6. errorCount = 0 <=> \A i \in 1 .. lineNum - 1 : Equal(recording.lines[i])
  BY <1>1 DEF ValidatorIInv, ErrorsInv, Checked
<1> HIDE DEF n, Same
<1>7. CASE Same /\ validating' = "scan" /\ UNCHANGED <<errorCount, validResult>>
  <2>1. Checked' = lineNum
    BY <1>1, <1>7 DEF Checked
  <2>2. errorCount = 0 <=> \A i \in 1 .. lineNum : Equal(recording.lines[i])
    BY <1>2, <1>5, <1>6, <1>7
  <2>3. ValidatorTypeOK'
    BY <1>1, <1>2, <1>3, <1>7 DEF ValidatorTypeOK
  <2>4. ReadersInv'
    BY <1>1, <1>2, <1>3, <1>7, <2>1 DEF ReadersInv
  <2>5. ErrorsInv'
    BY <1>1, <1>2, <1>7, <2>1, <2>2 DEF ErrorsInv, Equal
  <2>6. VerdictInv'
    BY <1>1, <1>2, <1>7 DEF VerdictInv
  <2> QED
    BY <2>3, <2>4, <2>5, <2>6 DEF ValidatorIInv
<1>8. CASE ~Same /\ CountError
  <2>1. /\ errorCount' = errorCount + 1 /\ errorCount' \in 1 .. MaxErrors
        /\ \/ validating' = "exited" /\ validResult' = "error"
           \/ validating' = "scan" /\ validResult' = "none" /\ errorCount' < MaxErrors
    BY <1>2, <1>8, CountErrorStep
  <2>2. Checked' = lineNum
    BY <1>1, <2>1 DEF Checked
  <2>3. ~\A i \in 1 .. lineNum : Equal(recording.lines[i])
    BY <1>2, <1>5, <1>6, <1>8
  <2>4. ValidatorTypeOK'
    BY <1>1, <1>2, <1>3, <2>1 DEF ValidatorTypeOK
  <2>5. ReadersInv'
    BY <1>1, <1>2, <1>3, <2>1, <2>2 DEF ReadersInv
  <2>6. ErrorsInv'
    BY <1>1, <1>2, <2>1, <2>2, <2>3 DEF ErrorsInv, Equal
  <2>7. VerdictInv'
    BY <1>1, <1>2, <2>1 DEF VerdictInv
  <2> QED
    BY <2>4, <2>5, <2>6, <2>7 DEF ValidatorIInv
<1> QED
  BY <1>1, <1>7, <1>8

LEMMA EndStep ==
    ASSUME ValidatorIInv, EndOfRecording
    PROVE  ValidatorIInv'
<1>1. /\ validating = "scan" /\ lineNum = Len(recording.lines) /\ validating' = "exited"
      /\ UNCHANGED <<recording, lineNum, codecLine, errorCount>>
      /\ \/ validResult' = "error" /\ (recording.end = "tooLong" \/ errorCount > 0)
         \/ validResult' = "ok" /\ recording.end # "tooLong" /\ ~(errorCount > 0)
  BY DEF EndOfRecording
<1>2. /\ errorCount \in Nat /\ recording.end \in {"eof", "tooLong"}
  BY LineTypes DEF ValidatorIInv
<1> QED
  BY <1>1, <1>2 DEF ValidatorIInv, ValidatorTypeOK, ReadersInv, ErrorsInv, VerdictInv, Checked, Equal

LEMMA ValidatorInvariance == ValidatorSpec => []ValidatorIInv
<1>1. ValidatorIInv /\ UNCHANGED validatorVars => ValidatorIInv'
  BY DEF validatorVars, ValidatorIInv, ValidatorTypeOK, ReadersInv, ErrorsInv, VerdictInv, Checked,
         Equal
<1>2. ValidatorIInv /\ [ValidatorNext]_validatorVars => ValidatorIInv'
  BY <1>1, OpenStep, ParseStep, CompareStep, EndStep DEF ValidatorNext
<1> QED
  BY <1>2, ValidatorInitIInv, PTL DEF ValidatorSpec

(* Every variable keeps the type of the local it stands for; in particular the
   codec's reader never runs past the end of the file. *)
THEOREM ValidatorTypeCorrect == ValidatorSpec => []ValidatorTypeOK
  BY ValidatorInvariance, PTL DEF ValidatorIInv

(* No tolerance is asked of lines that are equal. *)
LEMMA EqualIsAlike == ASSUME NEW line \in Line, Equal(line) PROVE Alike(line)
<1>1. line.control \in Int /\ line.encoded \in Int
  BY DEF Line
<1> QED
  BY <1>1 DEF Equal, Alike, compareWithTolerance, floatEquals, isZeroValue, Missing

(* Both verdicts, for every recording, whatever the limit on the errors and
   however far the second reader has fallen behind: nothing is called valid
   that differs by more than rounding, and nothing equal is called invalid. *)
THEOREM VerdictIsRight == ValidatorSpec => []ValidMeansAllGood
<1>1. ValidatorIInv => ValidMeansAllGood
  <2> DEFINE lines == {recording.lines[i] : i \in DOMAIN recording.lines}
  <2> SUFFICES ASSUME ValidatorIInv, validating = "exited", recording # NoRecording
               PROVE  /\ validResult = "ok" => /\ recording.end = "eof"
                                               /\ \A line \in lines : Alike(line)
                      /\ recording.end = "eof" /\ (\A line \in lines : Equal(line))
                            => validResult = "ok"
    BY Zenon DEF ValidMeansAllGood
  <2>1. /\ DOMAIN recording.lines = 1 .. Len(recording.lines) /\ errorCount \in Nat
        /\ lineNum \in 0 .. Len(recording.lines) /\ Len(recording.lines) \in Nat
        /\ validResult \in {"ok", "error"}
        /\ \A i \in 1 .. Len(recording.lines) : recording.lines[i] \in Line
    BY LineTypes DEF ValidatorIInv, ValidatorTypeOK, VerdictInv
  <2>2. errorCount = 0 <=> \A i \in 1 .. lineNum : Equal(recording.lines[i])
    BY DEF ValidatorIInv, ErrorsInv, Checked
  <2>3. ASSUME validResult = "ok"
        PROVE  recording.end = "eof" /\ \A line \in lines : Alike(line)
    <3>1. /\ recording.end = "eof" /\ lineNum = Len(recording.lines)
          /\ \A i \in 1 .. lineNum : Equal(recording.lines[i])
      BY <2>2, <2>3 DEF ValidatorIInv, VerdictInv
    <3>2. \A i \in DOMAIN recording.lines : Alike(recording.lines[i])
      BY <2>1, <3>1, EqualIsAlike, Zenon
    <3> QED
      BY <3>1, <3>2, Zenon
  <2>4. ASSUME validResult = "error", recording.end = "eof", \A line \in lines : Equal(line)
        PROVE  FALSE
    <3>1. \A i \in DOMAIN recording.lines : Equal(recording.lines[i])
      BY <2>4, Zenon
    <3>2. \A i \in 1 .. lineNum : Equal(recording.lines[i])
      BY <2>1, <3>1
    <3> QED
      BY <2>1, <2>2, <2>4, <3>2 DEF ValidatorIInv, VerdictInv
  <2> QED
    BY <2>1, <2>3, <2>4, Zenon
<1> QED
  BY <1>1, ValidatorInvariance, PTL
=============================================================================
