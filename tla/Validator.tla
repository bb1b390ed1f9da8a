----------------------------- MODULE Validator -----------------------------
(***************************************************************************)
(* cmd/validator/main.go, a program of its own: every line of a recording  *)
(* is parsed by hand and, beside it, by the codec; what the codec's frame  *)
(* encodes to must be what the line says.  The codec's reader is a second  *)
(* reader of the same file, and has a position of its own.                 *)
(***************************************************************************)
EXTENDS Integers, Sequences

CONSTANTS MaxErrors,     \* 10 in the code
          Recordings     \* bound: the files validated

Missing == -1            \* a key that is not in a document

(* A line by what the two parsers make of it: by hand, a document, which here
   is the value of one key; by the codec, the document its frame encodes to. *)
Line == [form : {"blank", "invalid", "document"}, control : Int, readable : BOOLEAN, encoded : Int]
Recording == [zip : BOOLEAN, lines : Seq(Line), end : {"eof", "tooLong"}]

ASSUME ValidatorAssumption ==
    /\ MaxErrors \in Nat \ {0}
    /\ Recordings \subseteq Recording

VARIABLES validating,     \* off, scan, compare, exited
          recording, lineNum, codecLine, errorCount, validResult

validatorVars == <<validating, recording, lineNum, codecLine, errorCount, validResult>>

NoRecording == [zip |-> FALSE, lines |-> <<>>, end |-> "eof"]

ValidatorInit ==
    /\ validating = "off" /\ recording = NoRecording
    /\ lineNum = 0 /\ codecLine = 0 /\ errorCount = 0 /\ validResult = "none"

----------------------------------------------------------------------------
(* The zip must hold a file, and a file that is no zip must open. *)
OpenRecording(file, opens) ==
    /\ validating = "off"
    /\ IF opens THEN validating' = "scan" /\ recording' = file /\ UNCHANGED validResult
       ELSE validating' = "exited" /\ validResult' = "error" /\ UNCHANGED recording
    /\ UNCHANGED <<lineNum, codecLine, errorCount>>

Control == recording.lines[lineNum]

(* Mutant: errors are counted without end. *)
CountErrorOn == errorCount' = errorCount + 1 /\ validating' = "scan" /\ UNCHANGED validResult

(* An error is counted, and the next line follows, unless they are too many. *)
CountError ==
    /\ errorCount' = errorCount + 1
    /\ IF errorCount + 1 >= MaxErrors
       THEN validating' = "exited" /\ validResult' = "error"
       ELSE validating' = "scan" /\ UNCHANGED validResult

(* Mutant: a line that cannot be parsed is only reported. *)
ManuallyParseLineLenient ==
    /\ validating = "scan" /\ lineNum < Len(recording.lines)
    /\ lineNum' = lineNum + 1
    /\ validating' = IF recording.lines[lineNum + 1].form = "document" THEN "compare" ELSE "scan"
    /\ UNCHANGED <<recording, codecLine, errorCount, validResult>>

(* Empty lines are skipped; after one that cannot be parsed the codec's reader
   stays where it is. *)
ManuallyParseLine ==
    /\ validating = "scan" /\ lineNum < Len(recording.lines)
    /\ lineNum' = lineNum + 1
    /\ CASE recording.lines[lineNum + 1].form = "blank"    -> UNCHANGED <<validating, errorCount, validResult>>
         [] recording.lines[lineNum + 1].form = "invalid"  -> CountError
         [] recording.lines[lineNum + 1].form = "document" ->
                validating' = "compare" /\ UNCHANGED <<errorCount, validResult>>
    /\ UNCHANGED <<recording, codecLine>>

(* The line the codec reads next: it skips empty ones, as the codec does; in
   a file without a zip there is only the line at hand. *)
NextCodecLine ==
    IF ~recording.zip THEN lineNum
    ELSE CHOOSE i \in codecLine + 1 .. Len(recording.lines) :
            /\ recording.lines[i].form # "blank"
            /\ \A j \in codecLine + 1 .. i - 1 : recording.lines[j].form = "blank"

isZeroValue(v) == v = 0
floatEquals(a, b) == a - b \in -1 .. 1      \* 1 is the tolerance

(* A key may be missing on one side if it is zero on the other. *)
compareWithTolerance(a, b) ==
    CASE a = Missing -> b = Missing \/ isZeroValue(b)
      [] a # Missing /\ b = Missing -> isZeroValue(a)
      [] OTHER -> floatEquals(a, b)

(* cmp.Diff is asked as well, and knows no tolerance. *)
SameDocument(a, b) == compareWithTolerance(a, b) /\ a = b

CompareLine ==
    /\ validating = "compare"
    /\ codecLine' = NextCodecLine
    /\ LET decoded == recording.lines[NextCodecLine] IN
       IF decoded.form = "document" /\ decoded.readable /\ SameDocument(Control.control, decoded.encoded)
       THEN validating' = "scan" /\ UNCHANGED <<errorCount, validResult>>
       ELSE CountError
    /\ UNCHANGED <<recording, lineNum>>

EndOfRecording ==
    /\ validating = "scan" /\ lineNum = Len(recording.lines)
    /\ validating' = "exited"
    /\ validResult' = IF recording.end = "tooLong" \/ errorCount > 0 THEN "error" ELSE "ok"
    /\ UNCHANGED <<recording, lineNum, codecLine, errorCount>>

ValidatorNext ==
    \/ \E file \in Recordings, opens \in BOOLEAN : OpenRecording(file, opens)
    \/ ManuallyParseLine \/ CompareLine \/ EndOfRecording

ValidatorSpec == ValidatorInit /\ [][ValidatorNext]_validatorVars

(* Every variable has the type of the local it stands for. *)
ValidatorTypeOK ==
    /\ validating \in {"off", "scan", "compare", "exited"}
    /\ recording \in Recording
    /\ lineNum \in 0 .. Len(recording.lines) /\ codecLine \in 0 .. Len(recording.lines)
    /\ errorCount \in 0 .. MaxErrors /\ validResult \in {"none", "ok", "error"}

Equal(line) ==
    line.form = "blank" \/ (line.form = "document" /\ line.readable /\ line.control = line.encoded)

(* The same but for what "ignoring trivial rounding differences" ignores. *)
Alike(line) ==
    \/ line.form = "blank"
    \/ /\ line.form = "document" /\ line.readable
       /\ compareWithTolerance(line.control, line.encoded)

(* What is called valid was read to its end, and no line of it differs by more
   than rounding; and a recording that could be read to its end with every line
   equal is called valid: neither verdict is wrong because one reader falls
   behind the other after a line that could not be parsed.  Of a recording with
   trivial differences, which main.go says it ignores and does not, this says
   nothing. *)
ValidMeansAllGood ==
    validating = "exited" /\ recording # NoRecording =>
        LET lines == {recording.lines[i] : i \in DOMAIN recording.lines} IN
        /\ validResult = "ok" => recording.end = "eof" /\ \A line \in lines : Alike(line)
        /\ recording.end = "eof" /\ (\A line \in lines : Equal(line)) => validResult = "ok"
=============================================================================
