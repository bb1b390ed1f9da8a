----------------------------- MODULE EventDump -----------------------------
(***************************************************************************)
(* cmd/agent/dumpevents.go, `agent show`: the command reads frames and     *)
(* hands them to a detector, a library with a goroutine of its own; what   *)
(* that finds comes back through a channel to a third goroutine, which     *)
(* prints it next to the frame the command has reached meanwhile.  A tape  *)
(* holds its events, and is shown without goroutines.                      *)
(***************************************************************************)
EXTENDS Naturals, Sequences

CONSTANT ShowFiles    \* bound: the files that may be shown

(* A file by what its reader delivers: the number of events found in each of
   its frames, then the end of the file or an error. *)
ShowFileType == [ext : {"tape", "echoreplay", "echoreplay.uncompressed", "nevrcap",
                        "nevrcap.uncompressed", "other"},
                 opens : BOOLEAN, events : Seq(Nat), end : {"eof", "error"}]

ASSUME ShowAssumption == ShowFiles \subseteq ShowFileType

Formats == {"json", "text", "summary", "unsupported"}

VARIABLES
    show,                   \* where the command is
    dumped, outputFormat,   \* its two arguments
    readCount,            \* frames read so far
    labelled,               \* currentFrame of processReplayFile
    detector, frameQueue, eventsChan, detected,
    handler, batch, label,  \* the goroutine that prints
    eventErr,               \* eventErrChan, of capacity 1
    handled,                \* what was printed, or counted in eventStats
    summary, showResult

reading == <<dumped, outputFormat, readCount, labelled>>
detecting == <<detector, frameQueue, eventsChan, detected>>
printing == <<handler, batch, label, eventErr, handled>>
ended == <<summary, showResult>>
showVars == <<show, reading, detecting, printing, ended>>

NoSummary == [frames |-> 0, events |-> 0]
NoFile == [ext |-> "other", opens |-> FALSE, events |-> <<>>, end |-> "error"]

ShowInit ==
    /\ show = "off" /\ dumped = NoFile /\ outputFormat = "json" /\ readCount = 0 /\ labelled = 0
    /\ detector = "off" /\ frameQueue = <<>> /\ eventsChan = <<>> /\ detected = <<>>
    /\ handler = "off" /\ batch = <<>> /\ label = 0 /\ eventErr = FALSE /\ handled = <<>>
    /\ summary = NoSummary /\ showResult = "none"

(* What the reader of a file delivers.  The one for uncompressed echoreplay
   files is a stub, which fails at the first line. *)
Delivered(file) ==
    IF file.ext = "echoreplay.uncompressed"
    THEN [events |-> <<>>, end |-> IF file.events = <<>> THEN file.end ELSE "error"]
    ELSE [events |-> file.events, end |-> file.end]

EventsOf(frame) == [i \in 1 .. Delivered(dumped).events[frame] |-> <<frame, i>>]

----------------------------------------------------------------------------
(* The command *)

ShowFails == show' = "exited" /\ showResult' = "error"

(* The extension is looked at and the file opened; then the goroutines start. *)
RunDumpEvents(file, format) ==
    /\ show = "off"
    /\ dumped' = file /\ outputFormat' = format
    /\ IF file.ext = "other" \/ ~file.opens
       THEN ShowFails /\ UNCHANGED <<detector, handler>>
       ELSE /\ UNCHANGED showResult
            /\ IF file.ext = "tape"
               THEN show' = "tape" /\ UNCHANGED <<detector, handler>>
               ELSE show' = "check" /\ detector' = "running" /\ handler' = "receive"
    /\ UNCHANGED <<readCount, labelled, frameQueue, eventsChan, detected, batch, label, eventErr,
                   handled, summary>>

CheckEventHandlerErr ==
    /\ show = "check"
    /\ IF eventErr
       THEN show' = "stop" /\ showResult' = "error" /\ eventErr' = FALSE
       ELSE show' = "read" /\ UNCHANGED <<showResult, eventErr>>
    /\ UNCHANGED <<reading, detecting, handler, batch, label, handled, summary>>

(* Mutant: the new frame is a variable of the loop's own. *)
ReadShownShadowed ==
    /\ show = "read" /\ readCount < Len(Delivered(dumped).events)
    /\ readCount' = readCount + 1
    /\ show' = "detect"
    /\ UNCHANGED <<dumped, outputFormat, labelled, detecting, printing, ended>>

ReadShown ==
    /\ show = "read" /\ readCount < Len(Delivered(dumped).events)
    /\ readCount' = readCount + 1 /\ labelled' = readCount + 1
    /\ show' = "detect"
    /\ UNCHANGED <<dumped, outputFormat, detecting, printing, ended>>

DetectEvents ==
    /\ show = "detect"
    /\ frameQueue' = Append(frameQueue, readCount)
    /\ show' = "check"
    /\ UNCHANGED <<reading, detector, eventsChan, detected, printing, ended>>

(* At the end of a file without frames currentFrame is nil, and its timestamp
   is asked for: the panic still runs the deferred stopDetector. *)
StopReading ==
    /\ show = "read" /\ readCount = Len(Delivered(dumped).events)
    /\ showResult' = IF Delivered(dumped).end = "error" THEN "error"
                      ELSE IF readCount = 0 THEN "panic" ELSE "none"
    /\ show' = "stop"
    /\ UNCHANGED <<reading, detecting, printing, summary>>

(* Mutant: the wait comes first. *)
StopDetectorLate ==
    /\ show = "stop" /\ handler = "done"
    /\ detector' = "stopping" /\ show' = "wait"
    /\ UNCHANGED <<reading, frameQueue, eventsChan, detected, printing, ended>>

StopDetector ==
    /\ show = "stop"
    /\ detector' = "stopping" /\ show' = "wait"
    /\ UNCHANGED <<reading, frameQueue, eventsChan, detected, printing, ended>>

Summarised ==
    summary' = IF outputFormat = "summary"
               THEN [frames |-> readCount, events |-> Len(handled)] ELSE NoSummary

(* Mutant: the command does not wait for the handler. *)
ExitShowAtOnce ==
    /\ show = "wait"
    /\ show' = "exited"
    /\ IF showResult # "none" \/ eventErr
       THEN UNCHANGED summary /\ showResult' = IF showResult = "none" THEN "error" ELSE showResult
       ELSE showResult' = "ok" /\ Summarised
    /\ UNCHANGED <<reading, detecting, printing>>

(* The handler is waited for, and its error asked for, unless there is one. *)
ExitShow ==
    /\ show = "wait" /\ handler = "done"
    /\ show' = "exited"
    /\ IF showResult # "none" \/ eventErr
       THEN UNCHANGED summary /\ showResult' = IF showResult = "none" THEN "error" ELSE showResult
       ELSE showResult' = "ok" /\ Summarised
    /\ UNCHANGED <<reading, detecting, printing>>

----------------------------------------------------------------------------
(* The detector, a library: it never makes DetectEvents wait, and when it is
   stopped it may drop the frames it has not looked at. *)

Detector ==
    /\ detector \in {"running", "stopping"} /\ frameQueue # <<>>
    /\ LET events == EventsOf(Head(frameQueue)) IN
        IF events = <<>> THEN UNCHANGED <<eventsChan, detected>>
        ELSE eventsChan' = Append(eventsChan, events) /\ detected' = detected \o events
    /\ frameQueue' = Tail(frameQueue)
    /\ UNCHANGED <<show, reading, detector, printing, ended>>

DetectorCloses ==
    /\ detector = "stopping"
    /\ detector' = "closed" /\ frameQueue' = <<>>
    /\ UNCHANGED <<show, reading, eventsChan, detected, printing, ended>>

----------------------------------------------------------------------------
(* The goroutine that prints *)

ReceiveEvents ==
    /\ handler = "receive"
    /\ IF eventsChan # <<>>
       THEN batch' = Head(eventsChan) /\ eventsChan' = Tail(eventsChan) /\ handler' = "label"
       ELSE detector = "closed" /\ handler' = "done" /\ UNCHANGED <<batch, eventsChan>>
    /\ UNCHANGED <<show, reading, detector, frameQueue, detected, label, eventErr, handled, ended>>

SnapshotFrame ==
    /\ handler = "label"
    /\ label' = labelled /\ handler' = "print"
    /\ UNCHANGED <<show, reading, detecting, batch, eventErr, handled, ended>>

HandleEvent ==
    /\ handler = "print"
    /\ IF outputFormat = "unsupported"
       THEN eventErr' = TRUE /\ handler' = "done" /\ UNCHANGED <<batch, handled>>
       ELSE /\ handled' = Append(handled, [event |-> Head(batch), label |-> label])
            /\ batch' = Tail(batch)
            /\ handler' = IF Tail(batch) = <<>> THEN "receive" ELSE "print"
            /\ UNCHANGED eventErr
    /\ UNCHANGED <<show, reading, detecting, label, ended>>

----------------------------------------------------------------------------
(* A tape *)

ShowTapeFrame ==
    /\ show = "tape" /\ readCount < Len(dumped.events)
    /\ readCount' = readCount + 1
    /\ LET events == EventsOf(readCount + 1) IN
        IF events # <<>> /\ outputFormat = "unsupported"
        THEN ShowFails /\ UNCHANGED <<handled, detected>>
        ELSE /\ handled' = handled \o [i \in 1 .. Len(events) |->
                                         [event |-> events[i], label |-> readCount + 1]]
             /\ detected' = detected \o events
             /\ UNCHANGED <<show, showResult>>
    /\ UNCHANGED <<dumped, outputFormat, labelled, detector, frameQueue, eventsChan, handler, batch,
                   label, eventErr, summary>>

ShowTapeEnds ==
    /\ show = "tape" /\ readCount = Len(dumped.events)
    /\ show' = "exited"
    /\ IF dumped.end = "error" THEN showResult' = "error" /\ UNCHANGED summary
       ELSE showResult' = "ok" /\ Summarised
    /\ UNCHANGED <<reading, detecting, printing>>

----------------------------------------------------------------------------
Command == \/ CheckEventHandlerErr \/ ReadShown \/ DetectEvents \/ StopReading
           \/ StopDetector \/ ExitShow \/ ShowTapeFrame \/ ShowTapeEnds
DetectorSteps == Detector \/ DetectorCloses
HandlerSteps == ReceiveEvents \/ SnapshotFrame \/ HandleEvent

ShowNext ==
    \/ \E file \in ShowFiles, format \in Formats : RunDumpEvents(file, format)
    \/ Command \/ DetectorSteps \/ HandlerSteps

(* The scheduler runs every goroutine; a detector that is stopped closes its
   channel. *)
ShowFairness == /\ WF_showVars(Command) /\ WF_showVars(HandlerSteps)
                /\ WF_showVars(Detector) /\ WF_showVars(DetectorCloses)

ShowSpec == ShowInit /\ [][ShowNext]_showVars /\ ShowFairness

(* Every variable has the type of the local it stands for. *)
ShowTypeOK ==
    /\ show \in {"off", "tape", "check", "read", "detect", "stop", "wait", "exited"}
    /\ dumped \in ShowFileType /\ outputFormat \in Formats
    /\ readCount \in Nat /\ labelled \in Nat
    /\ detector \in {"off", "running", "stopping", "closed"} /\ frameQueue \in Seq(Nat)
    /\ eventsChan \in Seq(Seq(Nat \X Nat)) /\ detected \in Seq(Nat \X Nat)
    /\ handler \in {"off", "receive", "label", "print", "done"}
    /\ batch \in Seq(Nat \X Nat) /\ label \in Nat /\ eventErr \in BOOLEAN
    /\ handled \in Seq([event : Nat \X Nat, label : Nat])
    /\ summary \in [frames : Nat, events : Nat] /\ showResult \in {"none", "ok", "error", "panic"}

(* Events are printed in the order of their frames, and next to their own
   frame or a later one that had been read by then: the label is the frame the
   command had reached, which may be ahead but never behind. *)
LabelsAreNotEarlier ==
    /\ \A i \in DOMAIN handled : handled[i].label \in handled[i].event[1] .. readCount
    /\ \A i, j \in DOMAIN handled : i < j =>
          handled[i].event[1] <= handled[j].event[1] /\ handled[i].label <= handled[j].label

(* When the command reports success, the whole file was read and all that was
   detected in it has been printed, or counted before the summary was. *)
ExitZeroMeansShown ==
    showResult = "ok" =>
        /\ dumped.end = "eof" /\ readCount = Len(dumped.events)
        /\ [i \in DOMAIN handled |-> handled[i].event] = detected
        /\ outputFormat = "summary" => summary = [frames |-> readCount, events |-> Len(detected)]

(* The command ends, whatever the file and whatever goes wrong: neither an
   error of the handler nor one of the reader leaves it waiting. *)
ShowEnds == show # "off" ~> show = "exited"
=============================================================================
