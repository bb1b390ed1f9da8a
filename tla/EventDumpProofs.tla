-------------------------- MODULE EventDumpProofs --------------------------
(***************************************************************************)
(* What `agent show` prints, for every set of recordings, however its      *)
(* three goroutines interleave.                                            *)
(***************************************************************************)
EXTENDS EventDump, SequenceTheorems, TLAPS

Event == Nat \X Nat

(* Which goroutines there are, and what each phase of the command knows. *)
PhaseInv ==
    /\ readCount <= Len(Delivered(dumped).events)
    /\ show = "off" => /\ detector = "off" /\ readCount = 0 /\ labelled = 0
                       /\ handled = <<>> /\ detected = <<>>
    /\ show = "tape" => dumped.ext = "tape" /\ detector = "off"
    /\ show \in {"check", "read", "detect", "stop"} => detector = "running"
    /\ show = "detect" => readCount >= 1
    /\ show = "wait" => detector \in {"stopping", "closed"}
    /\ detector = "off" => show \in {"off", "tape", "exited"} /\ frameQueue = <<>> /\ eventsChan = <<>>
    /\ detector = "off" <=> handler = "off"
    /\ detector # "off" => dumped.ext # "tape"
    /\ detector = "closed" => frameQueue = <<>>
    /\ handler \in {"label", "print"} => batch # <<>>
    /\ handler \in {"off", "receive"} => batch = <<>>

(* The handler is done when nothing is left to print, or after an error that
   the command has taken or will take. *)
DoneInv ==
    handler = "done" =>
        eventErr \/ showResult # "none"
        \/ (batch = <<>> /\ eventsChan = <<>> /\ detector = "closed")

(* The command goes on to its end without a result only if the file has been
   read as a whole; and it keeps what it needs to report success. *)
ResultInv ==
    /\ show \in {"off", "tape", "check", "read", "detect"} => showResult = "none"
    /\ show \in {"stop", "wait"} /\ showResult = "none" =>
          dumped.end = "eof" /\ readCount = Len(dumped.events)
    /\ showResult = "ok" =>
          /\ show = "exited" /\ dumped.end = "eof" /\ readCount = Len(dumped.events)
          /\ detector = "off" \/ handler = "done"
          /\ detector \in {"off", "closed"} /\ batch = <<>> /\ eventsChan = <<>>
          /\ outputFormat = "summary" => summary = [frames |-> readCount, events |-> Len(handled)]

(* Where the batches in the channel begin and end among the events detected. *)
Bounds(off) ==
    /\ off[0] = Len(handled) + Len(batch)
    /\ off[Len(eventsChan)] = Len(detected)
    /\ \A k \in 1 .. Len(eventsChan) :
          /\ Len(eventsChan[k]) >= 1
          /\ off[k] = off[k - 1] + Len(eventsChan[k])
          /\ \A j \in 1 .. Len(eventsChan[k]) : eventsChan[k][j] = detected[off[k - 1] + j]

(* What was printed, what is being printed and what is in the channel are,
   one after the other, what was detected. *)
DetectedInv ==
    /\ \A i \in 1 .. Len(handled) : handled[i].event = detected[i]
    /\ \A i \in 1 .. Len(batch) : batch[i] = detected[Len(handled) + i]
    /\ \E off \in [0 .. Len(eventsChan) -> 0 .. Len(detected)] : Bounds(off)

(* Frames are queued, and events detected, in the order they were read. *)
OrderInv ==
    /\ \A i \in 1 .. Len(frameQueue) : frameQueue[i] \in 1 .. readCount
    /\ \A i, j \in 1 .. Len(frameQueue) : i <= j => frameQueue[i] <= frameQueue[j]
    /\ \A i \in 1 .. Len(detected) : detected[i][1] <= readCount
    /\ \A i, j \in 1 .. Len(detected) : i <= j => detected[i][1] <= detected[j][1]
    /\ \A i \in 1 .. Len(detected), j \in 1 .. Len(frameQueue) : detected[i][1] <= frameQueue[j]

(* The label follows the command, and is taken after the batch was. *)
LabelInv ==
    /\ labelled <= readCount /\ label <= readCount
    /\ dumped.ext # "tape" => labelled = readCount
    /\ handler = "print" => \A i \in 1 .. Len(batch) : batch[i][1] <= label
    /\ \A i \in 1 .. Len(handled) : handled[i].label \in handled[i].event[1] .. readCount
    /\ \A i, j \in 1 .. Len(handled) : i <= j => handled[i].label <= handled[j].label
    /\ dumped.ext # "tape" => \A i \in 1 .. Len(handled) : handled[i].label <= label

ShowIInv == /\ ShowTypeOK /\ PhaseInv /\ DoneInv /\ ResultInv
            /\ DetectedInv /\ OrderInv /\ LabelInv

----------------------------------------------------------------------------
LEMMA ReaderFacts ==
    ASSUME ShowTypeOK
    PROVE  /\ Delivered(dumped).events \in Seq(Nat)
           /\ Delivered(dumped).end = "eof" /\ Len(Delivered(dumped).events) # 0
              => Delivered(dumped).events = dumped.events /\ dumped.end = "eof"
           /\ dumped.ext = "tape" => Delivered(dumped).events = dumped.events
<1>1. dumped \in ShowFileType
  BY DEF ShowTypeOK
<1>2. dumped.events \in Seq(Nat)
  BY <1>1 DEF ShowFileType
<1>3. CASE dumped.ext = "echoreplay.uncompressed"
  <2>1. Delivered(dumped).events = <<>>
    BY <1>3 DEF Delivered
  <2> QED
    BY <1>3, <2>1, EmptySeq
<1>4. CASE dumped.ext # "echoreplay.uncompressed"
  BY <1>2, <1>4 DEF Delivered
<1> QED
  BY <1>3, <1>4

(* The events of a frame carry its number. *)
LEMMA EventsFacts ==
    ASSUME ShowTypeOK, NEW f \in 1 .. Len(Delivered(dumped).events)
    PROVE  /\ EventsOf(f) \in Seq(Event)
           /\ \A i \in 1 .. Len(EventsOf(f)) : EventsOf(f)[i] = <<f, i>>
<1> DEFINE n == Delivered(dumped).events[f]
<1>1. n \in Nat
  BY ReaderFacts, ElementOfSeq
<1>2. EventsOf(f) = [i \in 1 .. n |-> <<f, i>>]
  BY DEF EventsOf
<1>3. f \in Nat
  BY ReaderFacts, LenProperties
<1> HIDE DEF n
<1>4. \A i \in 1 .. n : <<f, i>> \in Event
  BY <1>1, <1>3 DEF Event
<1>5. EventsOf(f) \in Seq(Event)
  BY <1>1, <1>2, <1>4, IsASeq
<1>6. Len(EventsOf(f)) = n
  BY <1>1, <1>2, <1>5, LenProperties
<1> QED
  BY <1>2, <1>5, <1>6

(* Every step keeps the types; the frames in the queue are frames of the file. *)
LEMMA ShowTypedStep ==
    ASSUME ShowIInv, [ShowNext]_showVars
    PROVE  ShowTypeOK'
<1> USE DEF reading, detecting, printing, ended, Formats
<1>a. ShowTypeOK /\ PhaseInv /\ OrderInv
  BY DEF ShowIInv
<1>b. /\ handled \in Seq([event : Event, label : Nat]) /\ batch \in Seq(Event)
      /\ eventsChan \in Seq(Seq(Event)) /\ detected \in Seq(Event) /\ frameQueue \in Seq(Nat)
      /\ readCount \in Nat /\ label \in Nat /\ Len(handled) \in Nat
  BY <1>a, LenProperties DEF ShowTypeOK, Event
<1>c. Summarised => summary' \in [frames : Nat, events : Nat]
  BY <1>b DEF Summarised, NoSummary
<1>1. ASSUME NEW file \in ShowFiles, NEW format \in Formats, RunDumpEvents(file, format)
      PROVE  ShowTypeOK'
  <2>1. file \in ShowFileType
    BY ShowAssumption DEF ShowAssumption
  <2> QED
    BY <1>1, <1>a, <2>1 DEF RunDumpEvents, ShowFails, ShowTypeOK
<1>2. CASE CheckEventHandlerErr
  BY <1>2, <1>a DEF CheckEventHandlerErr, ShowTypeOK
<1>3. CASE ReadShown
  BY <1>3, <1>a DEF ReadShown, ShowTypeOK
<1>4. CASE DetectEvents
  <2>1. frameQueue' \in Seq(Nat)
    BY <1>4, <1>b, AppendProperties DEF DetectEvents
  <2> QED
    BY <1>4, <1>a, <2>1 DEF DetectEvents, ShowTypeOK
<1>5. CASE StopReading
  BY <1>5, <1>a DEF StopReading, ShowTypeOK
<1>6. CASE StopDetector
  BY <1>6, <1>a DEF StopDetector, ShowTypeOK
<1>7. CASE ExitShow
  BY <1>7, <1>a, <1>c DEF ExitShow, ShowTypeOK
<1>8. CASE ShowTapeFrame
  <2> DEFINE events == EventsOf(readCount + 1)
             shown == [i \in 1 .. Len(events) |-> [event |-> events[i], label |-> readCount + 1]]
  <2>1. events \in Seq(Event)
    <3>1. readCount + 1 \in 1 .. Len(Delivered(dumped).events)
      BY <1>8, <1>a, <1>b, ReaderFacts, LenProperties DEF ShowTapeFrame, PhaseInv
    <3> QED
      BY <1>a, <3>1, EventsFacts
  <2>2. shown \in Seq([event : Event, label : Nat])
    <3>1. Len(events) \in Nat /\ \A i \in 1 .. Len(events) : events[i] \in Event
      BY <2>1, ElementOfSeq, LenProperties
    <3>2. \A i \in 1 .. Len(events) :
             [event |-> events[i], label |-> readCount + 1] \in [event : Event, label : Nat]
      BY <1>b, <3>1
    <3> HIDE DEF events
    <3> QED
      BY <3>1, <3>2, IsASeq
  <2>3. /\ handled' \in {handled, handled \o shown}
        /\ detected' \in {detected, detected \o events}
        /\ show' \in {show, "exited"} /\ showResult' \in {showResult, "error"}
        /\ readCount' = readCount + 1
    BY <1>8, Zenon DEF ShowTapeFrame, ShowFails
  <2> HIDE DEF events, shown
  <2>a. handled \o shown \in Seq([event : Event, label : Nat])
    BY <1>b, <2>2, ConcatProperties, Zenon
  <2>b. detected \o events \in Seq(Event)
    BY <1>b, <2>1, ConcatProperties, Zenon
  <2>4. handled' \in Seq([event : Event, label : Nat]) /\ detected' \in Seq(Event)
    BY <1>b, <2>3, <2>a, <2>b, Zenon
  <2>5. UNCHANGED <<dumped, outputFormat, labelled, detector, frameQueue, eventsChan, handler,
                    batch, label, eventErr, summary>>
    BY <1>8 DEF ShowTapeFrame
  <2> QED
    BY <1>a, <2>3, <2>4, <2>5 DEF ShowTypeOK, Event
<1>9. CASE ShowTapeEnds
  BY <1>9, <1>a, <1>c DEF ShowTapeEnds, ShowTypeOK
<1>10. CASE Detector
  <2> DEFINE events == EventsOf(Head(frameQueue))
  <2>1. events \in Seq(Event) /\ Tail(frameQueue) \in Seq(Nat)
    <3>1. Len(frameQueue) >= 1 /\ Head(frameQueue) = frameQueue[1] /\ Tail(frameQueue) \in Seq(Nat)
      BY <1>10, <1>b, HeadTailProperties, EmptySeq DEF Detector
    <3>2. Head(frameQueue) \in 1 .. Len(Delivered(dumped).events)
      BY <1>a, <1>b, <3>1, ReaderFacts, LenProperties, SMTT(30) DEF OrderInv, PhaseInv
    <3> QED
      BY <1>a, <3>1, <3>2, EventsFacts
  <2>2. /\ eventsChan' = eventsChan \/ eventsChan' = Append(eventsChan, events)
        /\ detected' = detected \/ detected' = detected \o events
        /\ frameQueue' = Tail(frameQueue)
        /\ UNCHANGED <<show, reading, detector, printing, ended>>
    BY <1>10, Zenon DEF Detector
  <2> HIDE DEF events
  <2>a. Append(eventsChan, events) \in Seq(Seq(Event))
    BY <1>b, <2>1, AppendProperties, Zenon
  <2>b. detected \o events \in Seq(Event)
    BY <1>b, <2>1, ConcatProperties, Zenon
  <2>3. eventsChan' \in Seq(Seq(Event)) /\ detected' \in Seq(Event)
    BY <1>b, <2>2, <2>a, <2>b, Zenon
  <2> QED
    BY <1>a, <2>1, <2>2, <2>3 DEF ShowTypeOK, Event
<1>11. CASE DetectorCloses
  BY <1>11, <1>a DEF DetectorCloses, ShowTypeOK
<1>12. CASE ReceiveEvents
  <2>1. CASE eventsChan # <<>>
    <3>1. Head(eventsChan) \in Seq(Event) /\ Tail(eventsChan) \in Seq(Seq(Event))
      BY <1>b, <2>1, HeadTailProperties, EmptySeq
    <3>2. batch' = Head(eventsChan) /\ eventsChan' = Tail(eventsChan) /\ handler' = "label"
      BY <1>12, <2>1 DEF ReceiveEvents
    <3> QED
      BY <1>12, <1>a, <3>1, <3>2 DEF ReceiveEvents, ShowTypeOK, Event
  <2>2. CASE eventsChan = <<>>
    BY <1>12, <1>a, <2>2 DEF ReceiveEvents, ShowTypeOK
  <2> QED
    BY <2>1, <2>2
<1>13. CASE SnapshotFrame
  BY <1>13, <1>a DEF SnapshotFrame, ShowTypeOK
<1>14. CASE HandleEvent
  <2>1. CASE outputFormat = "unsupported"
    BY <1>14, <1>a, <2>1 DEF HandleEvent, ShowTypeOK
  <2>2. CASE outputFormat # "unsupported"
    <3>1. Head(batch) \in Event /\ Tail(batch) \in Seq(Event)
      BY <1>14, <1>a, <1>b, HeadTailProperties, EmptySeq DEF HandleEvent, PhaseInv
    <3>2. [event |-> Head(batch), label |-> label] \in [event : Event, label : Nat]
      BY <1>b, <3>1
    <3>3. handled' = Append(handled, [event |-> Head(batch), label |-> label])
      BY <1>14, <2>2 DEF HandleEvent
    <3>4. handled' \in Seq([event : Event, label : Nat])
      BY <1>b, <3>2, <3>3, AppendProperties
    <3>5. /\ batch' = Tail(batch) /\ handler' \in {"receive", "print"} /\ eventErr' = eventErr
          /\ UNCHANGED <<show, reading, detecting, label, ended>>
      BY <1>14, <2>2 DEF HandleEvent
    <3> QED
      BY <1>a, <3>1, <3>4, <3>5 DEF ShowTypeOK, Event
  <2> QED
    BY <2>1, <2>2
<1>15. CASE UNCHANGED showVars
  BY <1>15, <1>a DEF showVars, ShowTypeOK
<1> QED
  BY <1>1, <1>2, <1>3, <1>4, <1>5, <1>6, <1>7, <1>8, <1>9, <1>10, <1>11, <1>12, <1>13, <1>14, <1>15
     DEF ShowNext, Command, DetectorSteps, HandlerSteps

----------------------------------------------------------------------------
(* The phases of the three goroutines. *)
LEMMA PhaseStep ==
    ASSUME ShowIInv, [ShowNext]_showVars, ShowTypeOK'
    PROVE  PhaseInv'
<1> USE DEF reading, detecting, printing, ended, PhaseInv
<1>a. ShowTypeOK /\ PhaseInv
  BY DEF ShowIInv
<1>b. /\ batch \in Seq(Event) /\ eventsChan \in Seq(Seq(Event)) /\ frameQueue \in Seq(Nat)
      /\ readCount \in Nat /\ Delivered(dumped).events \in Seq(Nat)
      /\ Len(Delivered(dumped).events) \in Nat
  BY <1>a, ReaderFacts, LenProperties DEF ShowTypeOK, Event
<1>1. ASSUME NEW file \in ShowFiles, NEW format \in Formats, RunDumpEvents(file, format)
      PROVE  PhaseInv'
  <2>1. readCount' = 0 /\ 0 <= Len(Delivered(dumped').events)
    <3>1. Delivered(dumped').events \in Seq(Nat)
      BY ReaderFacts, ShowTypedStep, <1>1 DEF Delivered, ShowTypeOK, ShowFileType
    <3> QED
      BY <1>1, <1>a, <3>1, LenProperties DEF RunDumpEvents
  <2>2. /\ handler = "off" /\ batch = <<>> /\ frameQueue = <<>> /\ eventsChan = <<>>
        /\ detector = "off"
    BY <1>1, <1>a DEF RunDumpEvents
  <2>3. UNCHANGED <<batch, frameQueue, eventsChan>>
    BY <1>1 DEF RunDumpEvents
  <2>4. \/ show' = "exited" /\ UNCHANGED <<detector, handler>>
        \/ show' = "tape" /\ dumped'.ext = "tape" /\ UNCHANGED <<detector, handler>>
        \/ show' = "check" /\ detector' = "running" /\ handler' = "receive" /\ dumped'.ext # "tape"
    BY <1>1 DEF RunDumpEvents, ShowFails
  <2> HIDE DEF PhaseInv
  <2> QED
    BY <2>1, <2>2, <2>3, <2>4 DEF PhaseInv
<1>2. CASE CheckEventHandlerErr
  BY <1>2, <1>a DEF CheckEventHandlerErr, Delivered
<1>3. CASE ReadShown
  BY <1>3, <1>a, <1>b DEF ReadShown, Delivered
<1>4. CASE DetectEvents
  BY <1>4, <1>a DEF DetectEvents, Delivered
<1>5. CASE StopReading
  BY <1>5, <1>a DEF StopReading, Delivered
<1>6. CASE StopDetector
  BY <1>6, <1>a DEF StopDetector, Delivered
<1>7. CASE ExitShow
  BY <1>7, <1>a DEF ExitShow, Delivered
<1>8. CASE ShowTapeFrame
  <2>1. /\ readCount' = readCount + 1 /\ show = "tape" /\ show' \in {"tape", "exited"}
        /\ readCount < Len(Delivered(dumped).events)
    BY <1>8, <1>a, ReaderFacts DEF ShowTapeFrame, ShowFails
  <2>2. UNCHANGED <<dumped, outputFormat, labelled, detector, frameQueue, eventsChan, handler,
                    batch>>
    BY <1>8 DEF ShowTapeFrame
  <2> QED
    BY <1>a, <1>b, <2>1, <2>2 DEF Delivered
<1>9. CASE ShowTapeEnds
  BY <1>9, <1>a DEF ShowTapeEnds, Delivered
<1>10. CASE Detector
  <2>1. /\ detector \in {"running", "stopping"}
        /\ UNCHANGED <<show, reading, detector, printing, ended>>
    BY <1>10 DEF Detector
  <2> QED
    BY <1>a, <2>1 DEF Delivered
<1>11. CASE DetectorCloses
  BY <1>11, <1>a DEF DetectorCloses, Delivered
<1>12. CASE ReceiveEvents
  <2>1. CASE eventsChan # <<>>
    <3>1. Head(eventsChan) # <<>>
      <4>1. Len(eventsChan) >= 1 /\ Head(eventsChan) = eventsChan[1] /\ Len(eventsChan) \in Nat
        BY <1>b, <2>1, HeadTailProperties, EmptySeq, LenProperties
      <4>2. Len(eventsChan[1]) >= 1
        BY <4>1 DEF ShowIInv, DetectedInv, Bounds
      <4> QED
        BY <4>1, <4>2, EmptySeq
    <3>2. handler' = "label" /\ batch' = Head(eventsChan) /\ eventsChan' = Tail(eventsChan)
      BY <1>12, <2>1 DEF ReceiveEvents
    <3> QED
      BY <1>12, <1>a, <3>1, <3>2 DEF ReceiveEvents, Delivered
  <2>2. CASE eventsChan = <<>>
    BY <1>12, <1>a, <2>2 DEF ReceiveEvents, Delivered
  <2> QED
    BY <2>1, <2>2
<1>13. CASE SnapshotFrame
  BY <1>13, <1>a DEF SnapshotFrame, Delivered
<1>14. CASE HandleEvent
  <2>1. /\ handler = "print"
        /\ \/ handler' = "done"
           \/ handler' = "receive" /\ batch' = <<>>
           \/ handler' = "print" /\ batch' # <<>>
    BY <1>14 DEF HandleEvent
  <2>2. UNCHANGED <<show, reading, detecting>> /\ (show = "off" => handled' = <<>>)
    BY <1>14, <1>a, <2>1 DEF HandleEvent
  <2> QED
    BY <1>a, <2>1, <2>2 DEF Delivered
<1>15. CASE UNCHANGED showVars
  BY <1>15, <1>a DEF showVars, Delivered
<1> QED
  BY <1>1, <1>2, <1>3, <1>4, <1>5, <1>6, <1>7, <1>8, <1>9, <1>10, <1>11, <1>12, <1>13, <1>14, <1>15
     DEF ShowNext, Command, DetectorSteps, HandlerSteps

(* A handler that is done has printed everything, or left an error. *)
LEMMA DoneStep ==
    ASSUME ShowIInv, [ShowNext]_showVars
    PROVE  DoneInv'
<1> USE DEF reading, detecting, printing, ended, DoneInv
<1>a. PhaseInv /\ DoneInv /\ ResultInv
  BY DEF ShowIInv
<1>1. ASSUME NEW file \in ShowFiles, NEW format \in Formats, RunDumpEvents(file, format)
      PROVE  DoneInv'
  BY <1>1, <1>a DEF RunDumpEvents, PhaseInv
<1>2. CASE CheckEventHandlerErr \/ ReadShown \/ DetectEvents
  BY <1>2, <1>a DEF CheckEventHandlerErr, ReadShown, DetectEvents
<1>3. CASE StopReading
  BY <1>3, <1>a DEF StopReading, ResultInv
<1>4. CASE StopDetector
  BY <1>4, <1>a DEF StopDetector, PhaseInv
<1>5. CASE ExitShow
  BY <1>5, <1>a DEF ExitShow
<1>6. CASE ShowTapeFrame \/ ShowTapeEnds
  <2>1. handler' = handler /\ show = "tape"
    BY <1>6 DEF ShowTapeFrame, ShowTapeEnds
  <2> QED
    BY <1>a, <2>1 DEF PhaseInv
<1>7. CASE Detector
  <2>1. /\ frameQueue # <<>> /\ detector' = detector
        /\ UNCHANGED <<printing, ended>>
    BY <1>7 DEF Detector
  <2> QED
    BY <1>a, <2>1 DEF PhaseInv
<1>8. CASE DetectorCloses
  BY <1>8, <1>a DEF DetectorCloses
<1>9. CASE ReceiveEvents
  BY <1>9, <1>a DEF ReceiveEvents, PhaseInv
<1>10. CASE SnapshotFrame
  BY <1>10, <1>a DEF SnapshotFrame
<1>11. CASE HandleEvent
  BY <1>11 DEF HandleEvent
<1>12. CASE UNCHANGED showVars
  BY <1>12, <1>a DEF showVars
<1> QED
  BY <1>1, <1>2, <1>3, <1>4, <1>5, <1>6, <1>7, <1>8, <1>9, <1>10, <1>11, <1>12
     DEF ShowNext, Command, DetectorSteps, HandlerSteps

(* Success is what it says, and nothing moves after it. *)
LEMMA ResultStep ==
    ASSUME ShowIInv, [ShowNext]_showVars
    PROVE  ResultInv'
<1> USE DEF reading, detecting, printing, ended, ResultInv
<1>a. ShowTypeOK /\ PhaseInv /\ DoneInv /\ ResultInv
  BY DEF ShowIInv
<1>1. ASSUME NEW file \in ShowFiles, NEW format \in Formats, RunDumpEvents(file, format)
      PROVE  ResultInv'
  <2>1. show = "off" /\ showResult = "none"
    BY <1>1, <1>a DEF RunDumpEvents
  <2>2. \/ show' = "exited" /\ showResult' = "error"
        \/ show' \in {"tape", "check"} /\ showResult' = showResult
    BY <1>1 DEF RunDumpEvents, ShowFails
  <2> QED
    BY <2>1, <2>2
<1>2. CASE CheckEventHandlerErr \/ ReadShown \/ DetectEvents
  BY <1>2, <1>a DEF CheckEventHandlerErr, ReadShown, DetectEvents
<1>3. CASE StopReading
  <2>1. /\ show' = "stop" /\ readCount = Len(Delivered(dumped).events)
        /\ UNCHANGED <<dumped, readCount>>
        /\ showResult' \in {"error", "panic", "none"}
    BY <1>3 DEF StopReading
  <2>2. showResult' = "none" => Delivered(dumped).end # "error" /\ readCount # 0
    BY <1>3 DEF StopReading
  <2>3. Delivered(dumped).end \in {"eof", "error"}
    <3>1. dumped.end \in {"eof", "error"}
      BY <1>a DEF ShowTypeOK, ShowFileType
    <3> QED
      BY <3>1 DEF Delivered
  <2>4. showResult' = "none" => dumped.end = "eof" /\ readCount = Len(dumped.events)
    BY <1>a, <2>1, <2>2, <2>3, ReaderFacts
  <2> QED
    BY <2>1, <2>4
<1>4. CASE StopDetector
  BY <1>4, <1>a DEF StopDetector
<1>5. CASE ExitShow
  <2>1. CASE showResult # "none" \/ eventErr
    BY <1>5, <1>a, <2>1 DEF ExitShow
  <2>2. CASE ~(showResult # "none" \/ eventErr)
    <3>1. batch = <<>> /\ eventsChan = <<>> /\ detector = "closed" /\ handler = "done"
      BY <1>5, <1>a, <2>2 DEF ExitShow, DoneInv
    <3>2. show' = "exited" /\ showResult' = "ok" /\ Summarised
      BY <1>5, <2>2 DEF ExitShow
    <3>3. dumped.end = "eof" /\ readCount = Len(dumped.events)
      BY <1>5, <1>a, <2>2 DEF ExitShow
    <3>4. UNCHANGED <<reading, detecting, printing>>
      BY <1>5 DEF ExitShow
    <3> QED
      BY <3>1, <3>2, <3>3, <3>4 DEF Summarised
  <2> QED
    BY <2>1, <2>2
<1>6. CASE ShowTapeFrame
  <2>1. /\ show = "tape"
        /\ \/ show' = show /\ showResult' = showResult
           \/ show' = "exited" /\ showResult' = "error"
    BY <1>6, Zenon DEF ShowTapeFrame, ShowFails
  <2> QED
    BY <1>a, <2>1
<1>7. CASE ShowTapeEnds
  <2>1. show = "tape" /\ detector = "off" /\ eventsChan = <<>> /\ batch = <<>>
    BY <1>7, <1>a DEF ShowTapeEnds, PhaseInv
  <2>2. dumped.end \in {"eof", "error"}
    BY <1>a DEF ShowTypeOK, ShowFileType
  <2>3. /\ show' = "exited" /\ readCount = Len(dumped.events)
        /\ \/ showResult' = "error"
           \/ dumped.end # "error" /\ showResult' = "ok" /\ Summarised
        /\ UNCHANGED <<reading, detecting, printing>>
    BY <1>7 DEF ShowTapeEnds
  <2> QED
    BY <2>1, <2>2, <2>3 DEF Summarised
<1>8. CASE Detector
  <2>1. /\ detector \in {"running", "stopping"}
        /\ UNCHANGED <<show, reading, detector, printing, ended>>
    BY <1>8 DEF Detector
  <2> QED
    BY <1>a, <2>1
<1>9. CASE DetectorCloses
  BY <1>9, <1>a DEF DetectorCloses
<1>10. CASE ReceiveEvents \/ SnapshotFrame \/ HandleEvent
  <2>1. /\ handler \notin {"off", "done"}
        /\ UNCHANGED <<show, reading, ended>>
    BY <1>10 DEF ReceiveEvents, SnapshotFrame, HandleEvent
  <2>2. showResult # "ok"
    BY <1>a, <2>1 DEF PhaseInv
  <2> QED
    BY <1>a, <2>1, <2>2
<1>11. CASE UNCHANGED showVars
  BY <1>11, <1>a DEF showVars
<1> QED
  BY <1>1, <1>2, <1>3, <1>4, <1>5, <1>6, <1>7, <1>8, <1>9, <1>10, <1>11
     DEF ShowNext, Command, DetectorSteps, HandlerSteps

----------------------------------------------------------------------------
(***************************************************************************)
(* The shapes a step can have, seen from the events and the labels.        *)
(***************************************************************************)
Rests == /\ UNCHANGED <<eventsChan, detected, batch, handled, label, readCount, labelled>>
         /\ frameQueue' = frameQueue \/ frameQueue' = <<>>
         /\ (dumped' = dumped \/ show = "off") /\ (handler' = handler \/ handler' # "print")

Reads == /\ readCount' = readCount + 1 /\ labelled' = readCount + 1
         /\ dumped' = dumped /\ handler' = handler
         /\ UNCHANGED <<eventsChan, detected, batch, handled, label, frameQueue>>

Queues == /\ frameQueue' = Append(frameQueue, readCount) /\ show = "detect"
          /\ dumped' = dumped /\ handler' = handler
          /\ UNCHANGED <<eventsChan, detected, batch, handled, label, readCount, labelled>>

Detects == /\ frameQueue # <<>> /\ frameQueue' = Tail(frameQueue)
           /\ EventsOf(Head(frameQueue)) # <<>>
           /\ eventsChan' = Append(eventsChan, EventsOf(Head(frameQueue)))
           /\ detected' = detected \o EventsOf(Head(frameQueue))
           /\ dumped' = dumped /\ handler' = handler
           /\ UNCHANGED <<batch, handled, label, readCount, labelled>>

SeesNothing == /\ frameQueue # <<>> /\ frameQueue' = Tail(frameQueue)
               /\ dumped' = dumped /\ handler' = handler
               /\ UNCHANGED <<eventsChan, detected, batch, handled, label, readCount, labelled>>

Receives == /\ handler = "receive" /\ handler' = "label"
            /\ eventsChan # <<>> /\ eventsChan' = Tail(eventsChan) /\ batch' = Head(eventsChan)
            /\ UNCHANGED <<dumped, detected, handled, label, readCount, labelled, frameQueue>>

Labels == /\ handler = "label" /\ handler' = "print" /\ label' = labelled
          /\ UNCHANGED <<dumped, eventsChan, detected, batch, handled, readCount, labelled,
                         frameQueue>>

Prints == /\ handler = "print" /\ batch' = Tail(batch)
          /\ handled' = Append(handled, [event |-> Head(batch), label |-> label])
          /\ UNCHANGED <<dumped, eventsChan, detected, label, readCount, labelled, frameQueue>>

ShowsTape(events) ==
    /\ show = "tape" /\ readCount' = readCount + 1
    /\ readCount + 1 \in 1 .. Len(Delivered(dumped).events)
    /\ events = EventsOf(readCount + 1) \/ events = <<>>
    /\ handled' = handled \o [i \in 1 .. Len(events) |->
                                 [event |-> events[i], label |-> readCount + 1]]
    /\ detected' = detected \o events
    /\ UNCHANGED <<dumped, eventsChan, batch, label, labelled, frameQueue, handler>>

LEMMA ShowShapes ==
    ASSUME ShowTypeOK, PhaseInv, [ShowNext]_showVars
    PROVE  \/ Rests \/ Reads \/ Queues \/ Detects \/ SeesNothing
           \/ Receives \/ Labels \/ Prints \/ \E events : ShowsTape(events)
<1> USE DEF reading, detecting, printing, ended
<1>1. ASSUME NEW file \in ShowFiles, NEW format \in Formats, RunDumpEvents(file, format)
      PROVE  Rests
  BY <1>1 DEF RunDumpEvents, Rests
<1>2. CASE CheckEventHandlerErr \/ StopReading \/ StopDetector \/ ExitShow \/ ShowTapeEnds
  BY <1>2 DEF CheckEventHandlerErr, StopReading, StopDetector, ExitShow, ShowTapeEnds, Rests
<1>3. CASE ReadShown
  BY <1>3 DEF ReadShown, Reads
<1>4. CASE DetectEvents
  BY <1>4 DEF DetectEvents, Queues
<1>5. CASE ShowTapeFrame
  <2> DEFINE events == EventsOf(readCount + 1)
             tail(e) == [i \in 1 .. Len(e) |-> [event |-> e[i], label |-> readCount + 1]]
  <2>1. readCount + 1 \in 1 .. Len(Delivered(dumped).events)
    BY <1>5, ReaderFacts, LenProperties DEF ShowTapeFrame, PhaseInv, ShowTypeOK
  <2>2. show = "tape" /\ readCount' = readCount + 1
        /\ UNCHANGED <<dumped, eventsChan, batch, label, labelled, frameQueue, handler>>
    BY <1>5 DEF ShowTapeFrame
  <2>3. CASE handled' = handled \o tail(events) /\ detected' = detected \o events
    BY <2>1, <2>2, <2>3, Zenon DEF ShowsTape
  <2>4. CASE handled' = handled /\ detected' = detected
    <3>1. handled \in Seq([event : Event, label : Nat]) /\ detected \in Seq(Event)
      BY DEF ShowTypeOK, Event
    <3>2. tail(<<>>) = <<>>
      BY IsASeq, EmptySeq
    <3>3. handled' = handled \o tail(<<>>) /\ detected' = detected \o <<>>
      BY <2>4, <3>1, <3>2, ConcatEmptySeq, Zenon
    <3> QED
      BY <2>1, <2>2, <3>3, Zenon DEF ShowsTape
  <2> QED
    BY <1>5, <2>3, <2>4, Zenon DEF ShowTapeFrame
<1>6. CASE Detector
  BY <1>6 DEF Detector, Detects, SeesNothing
<1>7. CASE DetectorCloses
  BY <1>7 DEF DetectorCloses, Rests
<1>8. CASE ReceiveEvents
  BY <1>8 DEF ReceiveEvents, Receives, Rests
<1>9. CASE SnapshotFrame
  BY <1>9 DEF SnapshotFrame, Labels
<1>10. CASE HandleEvent
  BY <1>10 DEF HandleEvent, Prints, Rests
<1>11. CASE UNCHANGED showVars
  BY <1>11 DEF showVars, Rests
<1> QED
  BY <1>1, <1>2, <1>3, <1>4, <1>5, <1>6, <1>7, <1>8, <1>9, <1>10, <1>11
     DEF ShowNext, Command, DetectorSteps, HandlerSteps

(* What the variables of the events are, as the next lemmas use it. *)
LEMMA EventTypes ==
    ASSUME ShowTypeOK
    PROVE  /\ handled \in Seq([event : Event, label : Nat]) /\ Len(handled) \in Nat
           /\ batch \in Seq(Event) /\ Len(batch) \in Nat
           /\ eventsChan \in Seq(Seq(Event)) /\ Len(eventsChan) \in Nat
           /\ detected \in Seq(Event) /\ Len(detected) \in Nat
           /\ frameQueue \in Seq(Nat) /\ Len(frameQueue) \in Nat
           /\ readCount \in Nat /\ labelled \in Nat /\ label \in Nat
  BY LenProperties DEF ShowTypeOK, Event

(* The oldest frame in the queue, and its events. *)
LEMMA HeadFacts ==
    ASSUME ShowTypeOK, PhaseInv, OrderInv, frameQueue # <<>>
    PROVE  /\ Len(frameQueue) >= 1 /\ Head(frameQueue) = frameQueue[1]
           /\ Head(frameQueue) \in 1 .. readCount
           /\ Len(Tail(frameQueue)) = Len(frameQueue) - 1
           /\ \A i \in 1 .. Len(frameQueue) - 1 : Tail(frameQueue)[i] = frameQueue[i + 1]
           /\ EventsOf(Head(frameQueue)) \in Seq(Event)
           /\ Len(EventsOf(Head(frameQueue))) \in Nat
           /\ \A i \in 1 .. Len(EventsOf(Head(frameQueue))) :
                 EventsOf(Head(frameQueue))[i][1] = Head(frameQueue)
<1>1. /\ Len(frameQueue) >= 1 /\ Head(frameQueue) = frameQueue[1]
      /\ Len(Tail(frameQueue)) = Len(frameQueue) - 1
      /\ \A i \in 1 .. Len(frameQueue) - 1 : Tail(frameQueue)[i] = frameQueue[i + 1]
  BY EventTypes, HeadTailProperties, EmptySeq
<1>2. Head(frameQueue) \in 1 .. readCount
  BY <1>1, EventTypes DEF OrderInv
<1>3. Head(frameQueue) \in 1 .. Len(Delivered(dumped).events)
  BY <1>2, EventTypes, ReaderFacts, LenProperties, SMTT(30) DEF PhaseInv
<1>4. /\ EventsOf(Head(frameQueue)) \in Seq(Event)
      /\ \A i \in 1 .. Len(EventsOf(Head(frameQueue))) :
            EventsOf(Head(frameQueue))[i] = <<Head(frameQueue), i>>
  BY <1>3, EventsFacts
<1> QED
  BY <1>1, <1>2, <1>4, LenProperties

(* Events of one frame behind events of earlier ones are in order. *)
LEMMA OrderedConcat ==
    ASSUME NEW d \in Seq(Event), NEW e \in Seq(Event), NEW f \in Nat,
           \A i \in 1 .. Len(e) : e[i][1] = f,
           \A i \in 1 .. Len(d) : d[i][1] <= f,
           \A i, j \in 1 .. Len(d) : i <= j => d[i][1] <= d[j][1]
    PROVE  /\ Len(d \o e) = Len(d) + Len(e)
           /\ \A i \in 1 .. Len(d \o e) : (d \o e)[i][1] <= f
           /\ \A i, j \in 1 .. Len(d \o e) : i <= j => (d \o e)[i][1] <= (d \o e)[j][1]
<1>1. /\ Len(d \o e) = Len(d) + Len(e) /\ Len(d) \in Nat /\ Len(e) \in Nat
      /\ \A i \in 1 .. Len(d) + Len(e) :
            (d \o e)[i] = IF i <= Len(d) THEN d[i] ELSE e[i - Len(d)]
  BY ConcatProperties, LenProperties
<1>2. \A i \in 1 .. Len(d \o e) : i <= Len(d) => i \in 1 .. Len(d) /\ (d \o e)[i] = d[i]
  BY <1>1
<1>3. ASSUME NEW i \in 1 .. Len(d \o e), ~(i <= Len(d)) PROVE (d \o e)[i][1] = f
  <2>1. i - Len(d) \in 1 .. Len(e) /\ (d \o e)[i] = e[i - Len(d)]
    BY <1>1, <1>3
  <2> QED
    BY <2>1
<1>4. \A i \in 1 .. Len(d \o e) : (d \o e)[i][1] <= f
  BY <1>2, <1>3
<1>5. ASSUME NEW i \in 1 .. Len(d \o e), NEW j \in 1 .. Len(d \o e), i <= j
      PROVE  (d \o e)[i][1] <= (d \o e)[j][1]
  <2>1. CASE j <= Len(d)
    <3>1. i <= Len(d)
      BY <1>1, <1>5, <2>1
    <3> QED
      BY <1>2, <1>5, <2>1, <3>1
  <2>2. CASE ~(j <= Len(d))
    BY <1>3, <1>4, <2>2
  <2> QED
    BY <2>1, <2>2
<1> QED
  BY <1>1, <1>4, <1>5

(* Frames are looked at, and so events found, in the order of the file. *)
LEMMA OrderStep ==
    ASSUME ShowIInv, [ShowNext]_showVars
    PROVE  OrderInv'
<1>a. ShowTypeOK /\ PhaseInv /\ OrderInv
  BY DEF ShowIInv
<1>b. /\ detected \in Seq(Event) /\ Len(detected) \in Nat
      /\ frameQueue \in Seq(Nat) /\ Len(frameQueue) \in Nat /\ readCount \in Nat
      /\ \A i \in 1 .. Len(frameQueue) : frameQueue[i] \in Nat
      /\ \A i \in 1 .. Len(detected) : detected[i][1] \in Nat
  <2>1. /\ detected \in Seq(Event) /\ Len(detected) \in Nat
        /\ frameQueue \in Seq(Nat) /\ Len(frameQueue) \in Nat /\ readCount \in Nat
    BY <1>a, EventTypes
  <2>2. \A i \in 1 .. Len(frameQueue) : frameQueue[i] \in Nat
    BY <2>1, ElementOfSeq, Zenon
  <2>3. \A i \in 1 .. Len(detected) : detected[i] \in Event
    BY <2>1, ElementOfSeq, Zenon
  <2> QED
    BY <2>1, <2>2, <2>3 DEF Event
<1>1. CASE Rests \/ Receives \/ Labels \/ Prints
  <2>1. UNCHANGED <<detected, readCount>> /\ (frameQueue' = frameQueue \/ frameQueue' = <<>>)
    BY <1>1 DEF Rests, Receives, Labels, Prints
  <2>2. CASE frameQueue' = frameQueue
    BY <1>a, <2>1, <2>2 DEF OrderInv
  <2>3. CASE frameQueue' = <<>>
    <3>1. Len(frameQueue') = 0
      BY <2>3, EmptySeq
    <3> QED
      BY <1>a, <2>1, <3>1 DEF OrderInv
  <2> QED
    BY <2>1, <2>2, <2>3
<1>2. CASE Reads
  <2>1. UNCHANGED <<detected, frameQueue>> /\ readCount' = readCount + 1
    BY <1>2 DEF Reads
  <2>2. \A i \in 1 .. Len(detected) : detected[i][1] <= readCount + 1
    BY <1>a, <1>b DEF OrderInv
  <2>3. \A i \in 1 .. Len(frameQueue) : frameQueue[i] \in 1 .. readCount + 1
    BY <1>a, <1>b DEF OrderInv
  <2> QED
    BY <1>a, <2>1, <2>2, <2>3 DEF OrderInv
<1>3. CASE Queues
  <2>1. /\ Len(frameQueue') = Len(frameQueue) + 1
        /\ \A i \in 1 .. Len(frameQueue) : frameQueue'[i] = frameQueue[i]
        /\ frameQueue'[Len(frameQueue) + 1] = readCount
        /\ UNCHANGED <<detected, readCount>> /\ readCount >= 1
    BY <1>3, <1>a, <1>b, AppendProperties DEF Queues, PhaseInv
  <2>2. \A i \in 1 .. Len(frameQueue') :
           \/ i = Len(frameQueue) + 1 /\ frameQueue'[i] = readCount
           \/ i \in 1 .. Len(frameQueue) /\ frameQueue'[i] = frameQueue[i]
    BY <1>b, <2>1
  <2>3. \A i \in 1 .. Len(frameQueue') : frameQueue'[i] \in 1 .. readCount'
    BY <1>a, <1>b, <2>1, <2>2 DEF OrderInv
  <2>4. ASSUME NEW i \in 1 .. Len(frameQueue'), NEW j \in 1 .. Len(frameQueue'), i <= j
        PROVE  frameQueue'[i] <= frameQueue'[j]
    <3>1. CASE j = Len(frameQueue) + 1
      BY <1>b, <2>1, <2>3, <3>1
    <3>2. CASE j \in 1 .. Len(frameQueue)
      <4>1. i \in 1 .. Len(frameQueue)
        BY <1>b, <2>4, <3>2
      <4> QED
        BY <1>a, <2>1, <2>4, <3>2, <4>1 DEF OrderInv
    <3> QED
      BY <2>2, <3>1, <3>2
  <2>5. \A i \in 1 .. Len(detected), j \in 1 .. Len(frameQueue') : detected[i][1] <= frameQueue'[j]
    BY <1>a, <2>1, <2>2 DEF OrderInv
  <2>6. \A i \in 1 .. Len(detected) : detected[i][1] <= readCount
    BY <1>a DEF OrderInv
  <2>7. \A i, j \in 1 .. Len(detected) : i <= j => detected[i][1] <= detected[j][1]
    BY <1>a DEF OrderInv
  <2> QED
    BY <2>1, <2>3, <2>4, <2>5, <2>6, <2>7 DEF OrderInv
<1>4. CASE SeesNothing
  <2>1. /\ Len(frameQueue') = Len(frameQueue) - 1
        /\ \A i \in 1 .. Len(frameQueue) - 1 : frameQueue'[i] = frameQueue[i + 1]
        /\ UNCHANGED <<detected, readCount>>
    BY <1>4, <1>a, HeadFacts DEF SeesNothing
  <2>2. \A i \in 1 .. Len(frameQueue') :
           frameQueue'[i] = frameQueue[i + 1] /\ i + 1 \in 1 .. Len(frameQueue)
    BY <1>b, <2>1
  <2>3. \A i \in 1 .. Len(frameQueue') : frameQueue'[i] \in 1 .. readCount
    BY <1>a, <2>2 DEF OrderInv
  <2>4. ASSUME NEW i \in 1 .. Len(frameQueue'), NEW j \in 1 .. Len(frameQueue'), i <= j
        PROVE  frameQueue'[i] <= frameQueue'[j]
    <3>1. i + 1 <= j + 1
      BY <1>b, <2>1, <2>4
    <3> QED
      BY <1>a, <2>2, <3>1 DEF OrderInv
  <2>5. \A i \in 1 .. Len(detected), j \in 1 .. Len(frameQueue') : detected[i][1] <= frameQueue'[j]
    BY <1>a, <2>2 DEF OrderInv
  <2>6. /\ \A i \in 1 .. Len(detected) : detected[i][1] <= readCount
        /\ \A i, j \in 1 .. Len(detected) : i <= j => detected[i][1] <= detected[j][1]
    BY <1>a DEF OrderInv
  <2> QED
    BY <2>1, <2>3, <2>4, <2>5, <2>6 DEF OrderInv
<1>5. CASE Detects
  <2> DEFINE f == Head(frameQueue)
             e == EventsOf(f)
  <2>1. /\ f = frameQueue[1] /\ f \in 1 .. readCount /\ e \in Seq(Event)
        /\ \A i \in 1 .. Len(e) : e[i][1] = f
        /\ Len(frameQueue) >= 1 /\ Len(frameQueue') = Len(frameQueue) - 1
        /\ \A i \in 1 .. Len(frameQueue) - 1 : frameQueue'[i] = frameQueue[i + 1]
    BY <1>5, <1>a, HeadFacts DEF Detects
  <2>2. detected' = detected \o e /\ readCount' = readCount
    BY <1>5 DEF Detects
  <2> HIDE DEF f, e
  <2>3. \A i \in 1 .. Len(detected) : detected[i][1] <= f
    BY <1>a, <1>b, <2>1 DEF OrderInv
  <2>4. \A i, j \in 1 .. Len(detected) : i <= j => detected[i][1] <= detected[j][1]
    BY <1>a DEF OrderInv
  <2>a. f \in Nat
    BY <1>b, <2>1
  <2>5. /\ \A i \in 1 .. Len(detected') : detected'[i][1] <= f
        /\ \A i, j \in 1 .. Len(detected') : i <= j => detected'[i][1] <= detected'[j][1]
    BY ONLY <1>b, <2>1, <2>2, <2>3, <2>4, <2>a, OrderedConcat, ZenonT(30)
  <2>6. \A i \in 1 .. Len(detected') : detected'[i][1] \in Nat
    <3>1. detected' \in Seq(Event)
      BY <1>b, <2>1, <2>2, ConcatProperties
    <3> QED
      BY <3>1, ElementOfSeq DEF Event
  <2>7. \A i \in 1 .. Len(frameQueue') :
           /\ frameQueue'[i] = frameQueue[i + 1] /\ i + 1 \in 1 .. Len(frameQueue)
           /\ f <= frameQueue'[i]
    BY <1>a, <1>b, <2>1 DEF OrderInv
  <2>8. \A i \in 1 .. Len(frameQueue') : frameQueue'[i] \in 1 .. readCount'
    BY <1>a, <1>b, <2>2, <2>7 DEF OrderInv
  <2>9. ASSUME NEW i \in 1 .. Len(frameQueue'), NEW j \in 1 .. Len(frameQueue'), i <= j
        PROVE  frameQueue'[i] <= frameQueue'[j]
    <3>1. i + 1 <= j + 1
      BY <1>b, <2>1, <2>9
    <3> QED
      BY <1>a, <2>7, <3>1 DEF OrderInv
  <2>10. ASSUME NEW i \in 1 .. Len(detected') PROVE detected'[i][1] <= readCount'
    <3>1. detected'[i][1] <= f /\ detected'[i][1] \in Nat
      BY <2>5, <2>6
    <3> QED
      BY <1>b, <2>1, <2>2, <3>1, SMTT(30)
  <2>11. \A i \in 1 .. Len(detected'), j \in 1 .. Len(frameQueue') : detected'[i][1] <= frameQueue'[j]
    <3> SUFFICES ASSUME NEW i \in 1 .. Len(detected'), NEW j \in 1 .. Len(frameQueue')
                 PROVE  detected'[i][1] <= frameQueue'[j]
      OBVIOUS
    <3>1. detected'[i][1] <= f /\ f <= frameQueue'[j]
      BY <2>5, <2>7
    <3>2. detected'[i][1] \in Nat /\ frameQueue'[j] \in Nat
      BY <1>b, <2>6, <2>7
    <3> QED
      BY <2>a, <3>1, <3>2
  <2> QED
    BY <2>5, <2>8, <2>9, <2>10, <2>11 DEF OrderInv
<1>6. ASSUME NEW events, ShowsTape(events) PROVE OrderInv'
  <2>1. frameQueue' = <<>> /\ Len(frameQueue') = 0 /\ readCount' = readCount + 1
    BY <1>6, <1>a, EmptySeq DEF ShowsTape, PhaseInv
  <2>2. events \in Seq(Event) /\ \A i \in 1 .. Len(events) : events[i][1] = readCount + 1
    <3>1. CASE events = <<>>
      BY <3>1, EmptySeq
    <3>2. CASE events = EventsOf(readCount + 1)
      <4>1. readCount + 1 \in 1 .. Len(Delivered(dumped).events)
        BY <1>6 DEF ShowsTape
      <4>2. /\ events \in Seq(Event)
            /\ \A i \in 1 .. Len(events) : events[i] = <<readCount + 1, i>>
        BY <1>a, <3>2, <4>1, EventsFacts
      <4> QED
        BY <4>2
    <3> QED
      BY <1>6, <3>1, <3>2 DEF ShowsTape
  <2>3. \A i \in 1 .. Len(detected) : detected[i][1] <= readCount + 1
    BY <1>a, <1>b DEF OrderInv
  <2>4. \A i, j \in 1 .. Len(detected) : i <= j => detected[i][1] <= detected[j][1]
    BY <1>a DEF OrderInv
  <2>a. readCount + 1 \in Nat
    BY <1>b
  <2>b. detected' = detected \o events
    BY <1>6 DEF ShowsTape
  <2>5. /\ \A i \in 1 .. Len(detected') : detected'[i][1] <= readCount + 1
        /\ \A i, j \in 1 .. Len(detected') : i <= j => detected'[i][1] <= detected'[j][1]
    BY ONLY <1>b, <2>2, <2>3, <2>4, <2>a, <2>b, OrderedConcat, ZenonT(30)
  <2> QED
    BY <2>1, <2>5 DEF OrderInv
<1> QED
  BY <1>a, <1>1, <1>2, <1>3, <1>4, <1>5, <1>6, ShowShapes

(* Events move from the detector through the channel to the print in the
   order they were detected; none is lost and none comes twice. *)
LEMMA DetectedStep ==
    ASSUME ShowIInv, [ShowNext]_showVars
    PROVE  DetectedInv'
<1>a. ShowTypeOK /\ PhaseInv /\ OrderInv /\ DetectedInv
  BY DEF ShowIInv
<1>b. /\ handled \in Seq([event : Event, label : Nat]) /\ Len(handled) \in Nat
      /\ batch \in Seq(Event) /\ Len(batch) \in Nat
      /\ eventsChan \in Seq(Seq(Event)) /\ Len(eventsChan) \in Nat
      /\ detected \in Seq(Event) /\ Len(detected) \in Nat
  BY <1>a, EventTypes
<1>c. PICK off \in [0 .. Len(eventsChan) -> 0 .. Len(detected)] : Bounds(off)
  BY <1>a DEF DetectedInv
<1>d. \A i \in 1 .. Len(handled) : handled[i].event = detected[i]
  BY <1>a DEF DetectedInv
<1>e. \A i \in 1 .. Len(batch) : batch[i] = detected[Len(handled) + i]
  BY <1>a DEF DetectedInv
<1>f. /\ off[0] = Len(handled) + Len(batch) /\ off[0] \in 0 .. Len(detected)
      /\ off[Len(eventsChan)] = Len(detected)
  BY <1>b, <1>c DEF Bounds
<1>g. \A k \in 1 .. Len(eventsChan) :
         /\ Len(eventsChan[k]) >= 1 /\ Len(eventsChan[k]) \in Nat
         /\ off[k] = off[k - 1] + Len(eventsChan[k])
         /\ off[k] \in 0 .. Len(detected) /\ off[k - 1] \in 0 .. Len(detected)
         /\ \A j \in 1 .. Len(eventsChan[k]) : eventsChan[k][j] = detected[off[k - 1] + j]
  <2> SUFFICES ASSUME NEW k \in 1 .. Len(eventsChan)
               PROVE  /\ Len(eventsChan[k]) \in Nat
                      /\ off[k] \in 0 .. Len(detected) /\ off[k - 1] \in 0 .. Len(detected)
    BY <1>c DEF Bounds
  <2>1. Len(eventsChan[k]) \in Nat
    <3>1. eventsChan[k] \in Seq(Event)
      BY <1>b, ElementOfSeq, Zenon
    <3> QED
      BY <3>1, LenProperties, Zenon
  <2>2. k \in 0 .. Len(eventsChan) /\ k - 1 \in 0 .. Len(eventsChan)
    BY <1>b
  <2>3. off[k] \in 0 .. Len(detected) /\ off[k - 1] \in 0 .. Len(detected)
    BY <1>c, <2>2
  <2> QED
    BY <2>1, <2>3
<1>1. CASE Rests \/ Reads \/ Queues \/ SeesNothing \/ Labels
  <2>1. UNCHANGED <<eventsChan, detected, batch, handled>>
    BY <1>1 DEF Rests, Reads, Queues, SeesNothing, Labels
  <2> QED
    BY <1>a, <2>1, ZenonT(30) DEF DetectedInv, Bounds
<1>2. CASE Detects
  <2> DEFINE e == EventsOf(Head(frameQueue))
             n == Len(eventsChan)
             new == [k \in 0 .. n + 1 |-> IF k <= n THEN off[k] ELSE Len(detected) + Len(e)]
  <2>1. e \in Seq(Event) /\ Len(e) \in Nat /\ e # <<>>
    BY <1>2, <1>a, HeadFacts DEF Detects
  <2>2. eventsChan' = Append(eventsChan, e) /\ detected' = detected \o e /\ UNCHANGED <<batch, handled>>
    BY <1>2 DEF Detects
  <2> HIDE DEF e
  <2>3. Len(e) >= 1
    BY <2>1, EmptySeq
  <2>4. /\ Len(eventsChan') = n + 1
        /\ \A k \in 1 .. n : eventsChan'[k] = eventsChan[k]
        /\ eventsChan'[n + 1] = e
    BY <1>b, <2>1, <2>2, AppendProperties
  <2>5. /\ Len(detected') = Len(detected) + Len(e)
        /\ \A i \in 1 .. Len(detected) : detected'[i] = detected[i]
        /\ \A j \in 1 .. Len(e) : detected'[Len(detected) + j] = e[j]
    <3>1. /\ Len(detected') = Len(detected) + Len(e)
          /\ \A i \in 1 .. Len(detected) + Len(e) :
                detected'[i] = IF i <= Len(detected) THEN detected[i] ELSE e[i - Len(detected)]
      BY <1>b, <2>1, <2>2, ConcatProperties
    <3>2. \A i \in 1 .. Len(detected) : detected'[i] = detected[i]
      BY <1>b, <2>1, <3>1
    <3>3. ASSUME NEW j \in 1 .. Len(e) PROVE detected'[Len(detected) + j] = e[j]
      <4>1. /\ Len(detected) + j \in 1 .. Len(detected) + Len(e) /\ ~(Len(detected) + j <= Len(detected))
            /\ Len(detected) + j - Len(detected) = j
        BY <1>b, <2>1
      <4> QED
        BY <3>1, <4>1
    <3> QED
      BY <3>1, <3>2, <3>3
  <2>6. /\ new \in [0 .. n + 1 -> 0 .. Len(detected) + Len(e)]
        /\ \A k \in 0 .. n : new[k] = off[k]
        /\ new[n + 1] = Len(detected) + Len(e)
    BY <1>b, <1>c, <2>1
  <2> HIDE DEF new
  <2>7. ASSUME NEW k \in 1 .. n + 1
        PROVE  /\ Len(eventsChan'[k]) >= 1
               /\ new[k] = new[k - 1] + Len(eventsChan'[k])
               /\ \A j \in 1 .. Len(eventsChan'[k]) : eventsChan'[k][j] = detected'[new[k - 1] + j]
    <3>1. CASE k \in 1 .. n
      <4>1. new[k] = off[k] /\ new[k - 1] = off[k - 1] /\ eventsChan'[k] = eventsChan[k]
        <5>1. k \in 0 .. n /\ k - 1 \in 0 .. n
          BY <1>b, <3>1
        <5> QED
          BY <2>4, <2>6, <3>1, <5>1
      <4>2. /\ Len(eventsChan[k]) >= 1 /\ off[k] = off[k - 1] + Len(eventsChan[k])
            /\ Len(eventsChan[k]) \in Nat
            /\ off[k] \in 0 .. Len(detected) /\ off[k - 1] \in 0 .. Len(detected)
            /\ \A j \in 1 .. Len(eventsChan[k]) : eventsChan[k][j] = detected[off[k - 1] + j]
        BY <1>g, <3>1
      <4>3. ASSUME NEW j \in 1 .. Len(eventsChan[k]) PROVE off[k - 1] + j \in 1 .. Len(detected)
        <5> DEFINE a == off[k - 1]
                   b == off[k]
                   c == Len(eventsChan[k])
                   d == Len(detected)
        <5>1. a \in 0 .. d /\ b \in 0 .. d /\ b = a + c /\ c \in Nat /\ d \in Nat /\ j \in 1 .. c
          BY <1>b, <4>2
        <5> HIDE DEF a, b, c, d
        <5>2. a + j \in 1 .. d
          BY <5>1
        <5> QED
          BY <5>2 DEF a, d
      <4> QED
        BY <2>5, <4>1, <4>2, <4>3
    <3>2. CASE k = n + 1
      <4>1. new[k] = Len(detected) + Len(e) /\ new[k - 1] = Len(detected) /\ eventsChan'[k] = e
        <5>1. k - 1 = n /\ n \in 0 .. n
          BY <1>b, <3>2
        <5> QED
          BY <1>f, <2>4, <2>6, <3>2, <5>1
      <4> QED
        BY <2>3, <2>5, <4>1
    <3> QED
      BY <1>b, <3>1, <3>2, SMTT(30)
  <2>8. new[0] = Len(handled) + Len(batch) /\ new[n + 1] = Len(detected')
    BY <1>b, <1>f, <2>5, <2>6
  <2>9. /\ new[0] = Len(handled') + Len(batch') /\ new[Len(eventsChan')] = Len(detected')
        /\ \A k \in 1 .. Len(eventsChan') :
              /\ Len(eventsChan'[k]) >= 1
              /\ new[k] = new[k - 1] + Len(eventsChan'[k])
              /\ \A j \in 1 .. Len(eventsChan'[k]) : eventsChan'[k][j] = detected'[new[k - 1] + j]
    BY <2>2, <2>4, <2>7, <2>8
  <2>10. \A i \in 1 .. Len(handled') : handled'[i].event = detected'[i]
    BY <1>b, <1>d, <1>f, <2>2, <2>5
  <2>11. ASSUME NEW i \in 1 .. Len(batch') PROVE batch'[i] = detected'[Len(handled') + i]
    <3>1. i \in 1 .. Len(batch) /\ Len(handled) + i \in 1 .. Len(detected)
      BY <1>b, <1>f, <2>2
    <3> QED
      BY <1>e, <2>2, <2>5, <3>1
  <2>12. new \in [0 .. Len(eventsChan') -> 0 .. Len(detected')]
    BY <2>4, <2>5, <2>6
  <2> QED
    BY <2>9, <2>10, <2>11, <2>12 DEF DetectedInv, Bounds
<1>3. CASE Receives
  <2> DEFINE n == Len(eventsChan)
             new == [k \in 0 .. n - 1 |-> off[k + 1]]
  <2>1. batch = <<>> /\ Len(batch) = 0
    BY <1>3, <1>a, EmptySeq DEF Receives, PhaseInv
  <2>2. /\ n >= 1 /\ Len(eventsChan') = n - 1 /\ batch' = eventsChan[1]
        /\ \A k \in 1 .. n - 1 : eventsChan'[k] = eventsChan[k + 1]
        /\ UNCHANGED <<detected, handled>>
    BY <1>3, <1>b, HeadTailProperties, EmptySeq DEF Receives
  <2>3. /\ new \in [0 .. n - 1 -> 0 .. Len(detected)]
        /\ \A k \in 0 .. n - 1 : new[k] = off[k + 1]
    <3>1. \A k \in 0 .. n - 1 : k + 1 \in 1 .. n /\ off[k + 1] \in 0 .. Len(detected)
      BY <1>b, <1>g, <2>2
    <3> QED
      BY <3>1
  <2> HIDE DEF new
  <2>4. new[0] = Len(handled) + Len(batch')
    <3>1. off[1] = off[1 - 1] + Len(eventsChan[1]) /\ 1 \in 1 .. n
      BY <1>b, <1>g, <2>2
    <3>2. new[0] = off[1] /\ off[1 - 1] = off[0]
      BY <1>b, <2>2, <2>3
    <3> QED
      BY <1>b, <1>f, <2>1, <2>2, <3>1, <3>2
  <2>5. new[n - 1] = Len(detected)
    <3>1. n - 1 \in 0 .. n - 1 /\ n - 1 + 1 = n
      BY <1>b, <2>2
    <3> QED
      BY <1>f, <2>3, <3>1
  <2>6. ASSUME NEW k \in 1 .. n - 1
        PROVE  /\ Len(eventsChan'[k]) >= 1
               /\ new[k] = new[k - 1] + Len(eventsChan'[k])
               /\ \A j \in 1 .. Len(eventsChan'[k]) : eventsChan'[k][j] = detected[new[k - 1] + j]
    <3>1. k + 1 \in 1 .. n /\ k \in 0 .. n - 1 /\ k - 1 \in 0 .. n - 1 /\ k - 1 + 1 = k /\ k + 1 - 1 = k
      BY <1>b, <2>2
    <3>2. new[k] = off[k + 1] /\ new[k - 1] = off[k + 1 - 1] /\ eventsChan'[k] = eventsChan[k + 1]
      BY <2>2, <2>3, <3>1
    <3> QED
      BY <1>g, <3>1, <3>2, SMTT(30)
  <2>7. ASSUME NEW i \in 1 .. Len(batch') PROVE batch'[i] = detected[Len(handled) + i]
    <3>1. 1 \in 1 .. n /\ 1 - 1 = 0
      BY <1>b, <2>2
    <3>2. eventsChan[1][i] = detected[off[0] + i]
      BY <1>g, <2>2, <3>1
    <3>3. off[0] = Len(handled)
      BY <1>b, <1>f, <2>1
    <3> QED
      BY <2>2, <3>2, <3>3
  <2>8. new \in [0 .. Len(eventsChan') -> 0 .. Len(detected')]
    BY <2>2, <2>3
  <2> QED
    <3>1. \A i \in 1 .. Len(handled') : handled'[i].event = detected'[i]
      BY <1>d, <2>2
    <3>2. \A i \in 1 .. Len(batch') : batch'[i] = detected'[Len(handled') + i]
      BY <2>2, <2>7
    <3>3. /\ new[0] = Len(handled') + Len(batch') /\ new[Len(eventsChan')] = Len(detected')
          /\ \A k \in 1 .. Len(eventsChan') :
                /\ Len(eventsChan'[k]) >= 1
                /\ new[k] = new[k - 1] + Len(eventsChan'[k])
                /\ \A j \in 1 .. Len(eventsChan'[k]) : eventsChan'[k][j] = detected'[new[k - 1] + j]
      BY <2>2, <2>4, <2>5, <2>6
    <3> QED
      BY <2>8, <3>1, <3>2, <3>3 DEF DetectedInv, Bounds
<1>4. CASE Prints
  <2>1. Len(batch) >= 1 /\ Head(batch) = batch[1] /\ Len(batch') = Len(batch) - 1
        /\ \A i \in 1 .. Len(batch) - 1 : batch'[i] = batch[i + 1]
        /\ Head(batch) \in Event
    BY <1>4, <1>a, <1>b, HeadTailProperties, EmptySeq DEF Prints, PhaseInv
  <2> DEFINE r == [event |-> Head(batch), label |-> label]
  <2>2. r \in [event : Event, label : Nat] /\ r.event = batch[1]
    BY <1>a, <2>1, EventTypes
  <2>3. handled' = Append(handled, r) /\ UNCHANGED <<eventsChan, detected>>
    BY <1>4 DEF Prints
  <2> HIDE DEF r
  <2>4. /\ Len(handled') = Len(handled) + 1
        /\ \A i \in 1 .. Len(handled) : handled'[i] = handled[i]
        /\ handled'[Len(handled) + 1] = r
    BY <1>b, <2>2, <2>3, AppendProperties
  <2>5. ASSUME NEW i \in 1 .. Len(handled') PROVE handled'[i].event = detected[i]
    <3>1. CASE i \in 1 .. Len(handled)
      BY <1>d, <2>4, <3>1
    <3>2. CASE i = Len(handled) + 1
      <4>1. 1 \in 1 .. Len(batch)
        BY <1>b, <2>1
      <4> QED
        BY <1>e, <2>2, <2>4, <3>2, <4>1
    <3>3. i \in 1 .. Len(handled) \/ i = Len(handled) + 1
      BY <1>b, <2>4
    <3> QED
      BY <3>1, <3>2, <3>3
  <2>6. ASSUME NEW i \in 1 .. Len(batch') PROVE batch'[i] = detected[Len(handled') + i]
    <3>1. /\ i \in 1 .. Len(batch) - 1 /\ i + 1 \in 1 .. Len(batch)
          /\ Len(handled') + i = Len(handled) + (i + 1)
      <4>1. Len(batch') = Len(batch) - 1 /\ Len(handled') = Len(handled) + 1
        BY <2>1, <2>4, Zenon
      <4> QED
        BY <1>b, <4>1
    <3> QED
      BY <1>e, <2>1, <3>1
  <2>7. off[0] = Len(handled') + Len(batch')
    BY <1>b, <1>f, <2>1, <2>4
  <2>8. \A k \in 1 .. Len(eventsChan) :
           /\ Len(eventsChan[k]) >= 1 /\ off[k] = off[k - 1] + Len(eventsChan[k])
           /\ \A j \in 1 .. Len(eventsChan[k]) : eventsChan[k][j] = detected[off[k - 1] + j]
    BY <1>g
  <2>9. off \in [0 .. Len(eventsChan') -> 0 .. Len(detected')]
    BY <2>3
  <2> QED
    BY <1>f, <2>3, <2>5, <2>6, <2>7, <2>8, <2>9 DEF DetectedInv, Bounds
<1>5. ASSUME NEW e, ShowsTape(e) PROVE DetectedInv'
  <2> DEFINE shown == [i \in 1 .. Len(e) |-> [event |-> e[i], label |-> readCount + 1]]
  <2>1. batch = <<>> /\ eventsChan = <<>> /\ Len(batch) = 0 /\ Len(eventsChan) = 0
        /\ UNCHANGED <<batch, eventsChan>>
    BY <1>5, <1>a, EmptySeq DEF ShowsTape, PhaseInv
  <2>2. Len(handled) = Len(detected)
    BY <1>b, <1>f, <2>1
  <2>3. e \in Seq(Event) /\ Len(e) \in Nat
    <3>1. CASE e = <<>>
      BY <3>1, EmptySeq
    <3>2. CASE e = EventsOf(readCount + 1)
      BY <1>5, <1>a, <3>2, EventsFacts, LenProperties DEF ShowsTape
    <3> QED
      BY <1>5, <3>1, <3>2 DEF ShowsTape
  <2>4. detected' = detected \o e /\ handled' = handled \o shown
    BY <1>5 DEF ShowsTape
  <2>5. shown \in Seq([event : Event, label : Nat])
    <3>1. \A i \in 1 .. Len(e) : e[i] \in Event
      BY <2>3, ElementOfSeq
    <3>2. \A i \in 1 .. Len(e) : [event |-> e[i], label |-> readCount + 1] \in [event : Event, label : Nat]
      BY <1>a, <3>1, EventTypes
    <3> QED
      BY <2>3, <3>2, IsASeq
  <2>6. Len(shown) = Len(e) /\ \A i \in 1 .. Len(e) : shown[i].event = e[i]
    BY <2>3, <2>5, LenProperties
  <2> HIDE DEF shown
  <2>7. /\ Len(detected') = Len(detected) + Len(e)
        /\ \A i \in 1 .. Len(detected) + Len(e) :
              detected'[i] = IF i <= Len(detected) THEN detected[i] ELSE e[i - Len(detected)]
    BY <1>b, <2>3, <2>4, ConcatProperties
  <2>8. /\ Len(handled') = Len(handled) + Len(e)
        /\ \A i \in 1 .. Len(handled) + Len(e) :
              handled'[i] = IF i <= Len(handled) THEN handled[i] ELSE shown[i - Len(handled)]
    <3>1. /\ Len(handled \o shown) = Len(handled) + Len(shown)
          /\ \A i \in 1 .. Len(handled) + Len(shown) :
                (handled \o shown)[i] = IF i <= Len(handled) THEN handled[i] ELSE shown[i - Len(handled)]
      BY ONLY <1>b, <2>5, ConcatProperties, Zenon
    <3> QED
      BY <2>4, <2>6, <3>1
  <2>9. ASSUME NEW i \in 1 .. Len(handled') PROVE handled'[i].event = detected'[i]
    <3>1. CASE i <= Len(handled)
      <4>1. i \in 1 .. Len(handled) /\ i <= Len(detected) /\ i \in 1 .. Len(detected) + Len(e)
        BY <1>b, <2>2, <2>3, <2>8, <3>1
      <4>2. handled'[i] = handled[i] /\ detected'[i] = detected[i]
        BY <2>2, <2>7, <2>8, <3>1, <4>1
      <4> QED
        BY <1>d, <4>1, <4>2
    <3>2. CASE ~(i <= Len(handled))
      <4>1. i - Len(handled) \in 1 .. Len(e)
        BY <1>b, <2>3, <2>8, <3>2
      <4> QED
        BY <1>b, <2>2, <2>3, <2>6, <2>7, <2>8, <3>2, <4>1
    <3> QED
      BY <3>1, <3>2
  <2> DEFINE new == [k \in 0 .. 0 |-> Len(detected) + Len(e)]
  <2>10. /\ new \in [0 .. 0 -> 0 .. Len(detected) + Len(e)]
         /\ new[0] = Len(detected) + Len(e)
    BY <1>b, <2>3
  <2> HIDE DEF new
  <2>11. /\ new \in [0 .. Len(eventsChan') -> 0 .. Len(detected')]
         /\ new[0] = Len(handled') + Len(batch') /\ new[Len(eventsChan')] = Len(detected')
    BY <1>b, <2>1, <2>2, <2>3, <2>7, <2>8, <2>10
  <2>12. Len(eventsChan') = 0 /\ Len(batch') = 0
    BY <2>1
  <2> QED
    BY <2>9, <2>11, <2>12 DEF DetectedInv, Bounds
<1> QED
  BY <1>a, <1>1, <1>2, <1>3, <1>4, <1>5, ShowShapes

(* No more is printed, or about to be, than was detected. *)
LEMMA NoneIsMadeUp ==
    ASSUME ShowIInv
    PROVE  Len(handled) + Len(batch) <= Len(detected)
<1>1. /\ Len(handled) \in Nat /\ Len(batch) \in Nat /\ Len(detected) \in Nat
      /\ Len(eventsChan) \in Nat
  BY EventTypes DEF ShowIInv
<1>2. PICK off \in [0 .. Len(eventsChan) -> 0 .. Len(detected)] : Bounds(off)
  BY DEF ShowIInv, DetectedInv
<1>3. off[0] = Len(handled) + Len(batch) /\ off[0] \in 0 .. Len(detected)
  BY <1>1, <1>2 DEF Bounds
<1> QED
  BY <1>1, <1>3

(* What is printed or still on the way to it are events of frames that have
   been read. *)
LEMMA BatchIsRead ==
    ASSUME ShowIInv
    PROVE  \A i \in 1 .. Len(batch) : batch[i][1] <= readCount
<1>1. /\ Len(handled) \in Nat /\ Len(batch) \in Nat /\ Len(detected) \in Nat
      /\ Len(eventsChan) \in Nat
  BY EventTypes DEF ShowIInv
<1>2. Len(handled) + Len(batch) <= Len(detected)
  BY NoneIsMadeUp
<1>3. ASSUME NEW i \in 1 .. Len(batch) PROVE batch[i][1] <= readCount
  <2>1. Len(handled) + i \in 1 .. Len(detected)
    BY <1>1, <1>2
  <2>2. batch[i] = detected[Len(handled) + i]
    BY DEF ShowIInv, DetectedInv
  <2> QED
    BY <2>1, <2>2 DEF ShowIInv, OrderInv
<1> QED
  BY <1>3

(* The label printed is the frame the command had reached when the batch had
   already been detected. *)
LEMMA LabelStep ==
    ASSUME ShowIInv, [ShowNext]_showVars
    PROVE  LabelInv'
<1>a. ShowTypeOK /\ PhaseInv /\ LabelInv
  BY DEF ShowIInv
<1>b. /\ handled \in Seq([event : Event, label : Nat]) /\ Len(handled) \in Nat
      /\ batch \in Seq(Event) /\ Len(batch) \in Nat
      /\ readCount \in Nat /\ labelled \in Nat /\ label \in Nat
  BY <1>a, EventTypes
<1>c. \A i \in 1 .. Len(handled) : handled[i].label \in Nat /\ handled[i].event[1] \in Nat
  <2>1. \A i \in 1 .. Len(handled) : handled[i] \in [event : Event, label : Nat]
    BY <1>b, ElementOfSeq, Zenon
  <2> QED
    BY <2>1 DEF Event
<1>1. CASE Rests
  <2>1. UNCHANGED <<batch, handled, label, readCount, labelled>>
    BY <1>1 DEF Rests
  <2>2. dumped' = dumped \/ (readCount = 0 /\ labelled = 0 /\ Len(handled) = 0)
    BY <1>1, <1>a, EmptySeq DEF Rests, PhaseInv
  <2>3. handler' = "print" => handler = "print"
    BY <1>1 DEF Rests
  <2> QED
    BY <1>a, <2>1, <2>2, <2>3 DEF LabelInv
<1>2. CASE Reads
  <2>1. /\ UNCHANGED <<dumped, handler, batch, handled, label>>
        /\ readCount' = readCount + 1 /\ labelled' = readCount + 1
    BY <1>2 DEF Reads
  <2>2. label <= readCount + 1 /\ labelled' <= readCount'
    BY <1>a, <1>b, <2>1 DEF LabelInv
  <2>3. \A i \in 1 .. Len(handled) : handled[i].label \in handled[i].event[1] .. readCount + 1
    BY <1>a, <1>b, <1>c DEF LabelInv
  <2> QED
    BY <1>a, <2>1, <2>2, <2>3 DEF LabelInv
<1>3. CASE Queues \/ Detects \/ SeesNothing
  <2>1. UNCHANGED <<dumped, handler, batch, handled, label, readCount, labelled>>
    BY <1>3 DEF Queues, Detects, SeesNothing
  <2> QED
    BY <1>a, <2>1 DEF LabelInv
<1>4. CASE Receives
  <2>1. handler' # "print" /\ UNCHANGED <<dumped, handled, label, readCount, labelled>>
    BY <1>4 DEF Receives
  <2> QED
    BY <1>a, <2>1 DEF LabelInv
<1>5. CASE Labels
  <2>1. /\ label' = labelled /\ dumped.ext # "tape"
        /\ UNCHANGED <<dumped, batch, handled, readCount, labelled>>
    BY <1>5, <1>a DEF Labels, PhaseInv
  <2>2. label' = readCount
    BY <1>a, <2>1 DEF LabelInv
  <2>3. \A i \in 1 .. Len(batch) : batch[i][1] <= readCount
    BY BatchIsRead
  <2>4. \A i \in 1 .. Len(handled) : handled[i].label <= readCount
    BY <1>a, <1>b, <1>c DEF LabelInv
  <2> QED
    BY <1>a, <1>b, <2>1, <2>2, <2>3, <2>4 DEF LabelInv
<1>6. CASE Prints
  <2> DEFINE r == [event |-> Head(batch), label |-> label]
  <2>1. /\ handler = "print" /\ dumped.ext # "tape" /\ batch # <<>>
        /\ handled' = Append(handled, r) /\ batch' = Tail(batch)
        /\ UNCHANGED <<dumped, label, readCount, labelled>>
    BY <1>6, <1>a DEF Prints, PhaseInv
  <2>2. /\ Len(batch) >= 1 /\ Head(batch) = batch[1] /\ Head(batch) \in Event
        /\ Len(batch') = Len(batch) - 1
        /\ \A i \in 1 .. Len(batch) - 1 : batch'[i] = batch[i + 1]
    BY <1>b, <2>1, HeadTailProperties, EmptySeq
  <2>3. r \in [event : Event, label : Nat] /\ r.event[1] \in Nat /\ r.event[1] <= label /\ r.label = label
    <3>1. batch[1][1] <= label
      BY <1>a, <1>b, <2>1, <2>2 DEF LabelInv
    <3> QED
      BY <1>b, <2>2, <3>1 DEF Event
  <2> HIDE DEF r
  <2>4. /\ Len(handled') = Len(handled) + 1
        /\ \A i \in 1 .. Len(handled) : handled'[i] = handled[i]
        /\ handled'[Len(handled) + 1] = r
    BY <1>b, <2>1, <2>3, AppendProperties
  <2>5. \A i \in 1 .. Len(handled') :
           \/ i \in 1 .. Len(handled) /\ handled'[i] = handled[i]
           \/ i = Len(handled) + 1 /\ handled'[i] = r
    BY <1>b, <2>4
  <2>6. label <= readCount
    BY <1>a DEF LabelInv
  <2>7. ASSUME NEW i \in 1 .. Len(handled')
        PROVE  /\ handled'[i].label \in handled'[i].event[1] .. readCount
               /\ handled'[i].label <= label
    <3>1. CASE i \in 1 .. Len(handled) /\ handled'[i] = handled[i]
      BY <1>a, <2>1, <3>1 DEF LabelInv
    <3>2. CASE handled'[i] = r
      BY <1>b, <2>3, <2>6, <3>2
    <3> QED
      BY <2>5, <3>1, <3>2
  <2>8. ASSUME NEW i \in 1 .. Len(handled'), NEW j \in 1 .. Len(handled'), i <= j
        PROVE  handled'[i].label <= handled'[j].label
    <3>1. CASE j \in 1 .. Len(handled) /\ handled'[j] = handled[j]
      <4>1. i \in 1 .. Len(handled) /\ handled'[i] = handled[i]
        BY <1>b, <2>4, <2>5, <2>8, <3>1
      <4> QED
        BY <1>a, <2>8, <3>1, <4>1 DEF LabelInv
    <3>2. CASE handled'[j] = r
      BY <2>3, <2>7, <3>2
    <3> QED
      BY <2>5, <3>1, <3>2
  <2>9. \A i \in 1 .. Len(batch') : batch'[i][1] <= label
    <3>1. \A i \in 1 .. Len(batch') : i + 1 \in 1 .. Len(batch) /\ batch'[i] = batch[i + 1]
      BY <1>b, <2>2
    <3> QED
      BY <1>a, <2>1, <3>1 DEF LabelInv
  <2>10. labelled <= readCount /\ labelled = readCount
    BY <1>a, <2>1 DEF LabelInv
  <2> QED
    BY <2>1, <2>6, <2>7, <2>8, <2>9, <2>10 DEF LabelInv
<1>7. ASSUME NEW e, ShowsTape(e) PROVE LabelInv'
  <2> DEFINE n == readCount + 1
             shown == [i \in 1 .. Len(e) |-> [event |-> e[i], label |-> n]]
  <2>1. /\ dumped.ext = "tape" /\ handler = "off" /\ n \in 1 .. Len(Delivered(dumped).events)
        /\ handled' = handled \o shown /\ readCount' = n
        /\ UNCHANGED <<dumped, handler, label, labelled>>
    BY <1>7, <1>a DEF ShowsTape, PhaseInv
  <2>2. e \in Seq(Event) /\ Len(e) \in Nat /\ \A i \in 1 .. Len(e) : e[i] = <<n, i>>
    <3>1. CASE e = <<>>
      BY <3>1, EmptySeq
    <3>2. CASE e = EventsOf(n)
      BY <1>a, <2>1, <3>2, EventsFacts, LenProperties
    <3> QED
      BY <1>7, <3>1, <3>2 DEF ShowsTape
  <2>3. shown \in Seq([event : Event, label : Nat])
    <3>1. \A i \in 1 .. Len(e) : e[i] \in Event
      BY <2>2, ElementOfSeq
    <3>2. \A i \in 1 .. Len(e) : [event |-> e[i], label |-> n] \in [event : Event, label : Nat]
      BY <1>b, <3>1
    <3> QED
      BY <2>2, <3>2, IsASeq
  <2>4. Len(shown) = Len(e) /\ \A i \in 1 .. Len(e) : shown[i].event[1] = n /\ shown[i].label = n
    BY <2>2, <2>3, LenProperties
  <2> HIDE DEF shown
  <2>5. /\ Len(handled') = Len(handled) + Len(e)
        /\ \A i \in 1 .. Len(handled) + Len(e) :
              handled'[i] = IF i <= Len(handled) THEN handled[i] ELSE shown[i - Len(handled)]
    <3>1. /\ Len(handled \o shown) = Len(handled) + Len(shown)
          /\ \A i \in 1 .. Len(handled) + Len(shown) :
                (handled \o shown)[i] = IF i <= Len(handled) THEN handled[i] ELSE shown[i - Len(handled)]
      BY ONLY <1>b, <2>3, ConcatProperties, Zenon
    <3> QED
      BY <2>1, <2>4, <3>1
  <2>6. ASSUME NEW i \in 1 .. Len(handled')
        PROVE  \/ i \in 1 .. Len(handled) /\ handled'[i] = handled[i]
               \/ i > Len(handled) /\ handled'[i].event[1] = n /\ handled'[i].label = n
    <3>1. CASE i <= Len(handled)
      BY <1>b, <2>2, <2>5, <3>1
    <3>2. CASE ~(i <= Len(handled))
      <4>1. i - Len(handled) \in 1 .. Len(e)
        BY <1>b, <2>2, <2>5, <3>2
      <4> QED
        BY <1>b, <2>2, <2>4, <2>5, <3>2, <4>1, SMTT(30)
    <3> QED
      BY <3>1, <3>2
  <2>7. ASSUME NEW i \in 1 .. Len(handled')
        PROVE  handled'[i].label \in handled'[i].event[1] .. n /\ handled'[i].label <= n
    <3>1. CASE i \in 1 .. Len(handled) /\ handled'[i] = handled[i]
      BY <1>a, <1>b, <1>c, <3>1 DEF LabelInv
    <3>2. CASE handled'[i].event[1] = n /\ handled'[i].label = n
      BY <1>b, <3>2
    <3> QED
      BY <2>6, <3>1, <3>2
  <2>8. ASSUME NEW i \in 1 .. Len(handled'), NEW j \in 1 .. Len(handled'), i <= j
        PROVE  handled'[i].label <= handled'[j].label
    <3>1. CASE j \in 1 .. Len(handled) /\ handled'[j] = handled[j]
      <4>1. i \in 1 .. Len(handled) /\ handled'[i] = handled[i]
        BY <1>b, <2>5, <2>6, <2>8, <3>1
      <4> QED
        BY <1>a, <2>8, <3>1, <4>1 DEF LabelInv
    <3>2. CASE handled'[j].label = n
      BY <2>7, <3>2
    <3> QED
      BY <2>6, <3>1, <3>2
  <2>9. labelled <= n /\ label <= n
    BY <1>a, <1>b DEF LabelInv
  <2> QED
    BY <2>1, <2>7, <2>8, <2>9 DEF LabelInv
<1> QED
  BY <1>a, <1>1, <1>2, <1>3, <1>4, <1>5, <1>6, <1>7, ShowShapes

----------------------------------------------------------------------------
LEMMA ShowInitIInv == ShowInit => ShowIInv
<1> SUFFICES ASSUME ShowInit PROVE ShowIInv
  OBVIOUS
<1> USE DEF ShowInit
<1>1. ShowTypeOK
  BY EmptySeq DEF ShowTypeOK, NoFile, ShowFileType, NoSummary, Formats
<1>2. PhaseInv
  <2>1. Delivered(NoFile).events \in Seq(Nat)
    BY <1>1, ReaderFacts
  <2>2. 0 <= Len(Delivered(NoFile).events)
    BY <2>1, LenProperties
  <2> QED
    BY <2>2 DEF PhaseInv
<1>3. DoneInv /\ ResultInv
  BY DEF DoneInv, ResultInv
<1>4. /\ Len(handled) = 0 /\ Len(batch) = 0 /\ Len(eventsChan) = 0 /\ Len(detected) = 0
      /\ Len(frameQueue) = 0
  BY EmptySeq
<1>5. DetectedInv
  <2> DEFINE off == [k \in 0 .. 0 |-> 0]
  <2>1. off \in [0 .. Len(eventsChan) -> 0 .. Len(detected)] /\ off[0] = 0
    BY <1>4
  <2> HIDE DEF off
  <2>2. Bounds(off)
    BY <1>4, <2>1 DEF Bounds
  <2> QED
    BY <1>4, <2>1, <2>2 DEF DetectedInv
<1>6. OrderInv /\ LabelInv
  BY <1>4 DEF OrderInv, LabelInv
<1> QED
  BY <1>1, <1>2, <1>3, <1>5, <1>6 DEF ShowIInv

LEMMA ShowInvariance == ShowSpec => []ShowIInv
<1>1. ShowIInv /\ [ShowNext]_showVars => ShowIInv'
  BY ShowTypedStep, PhaseStep, DoneStep, ResultStep, DetectedStep, OrderStep, LabelStep
     DEF ShowIInv
<1> QED
  BY <1>1, ShowInitIInv, PTL DEF ShowSpec

(* Every variable keeps the type of the local it stands for. *)
THEOREM ShowTypeCorrect == ShowSpec => []ShowTypeOK
  BY ShowInvariance, PTL DEF ShowIInv

(* However the command, the detector and the handler are scheduled, events are
   printed in the order of their frames, next to their own frame or to one
   that was read later. *)
THEOREM LabelsFollowEvents == ShowSpec => []LabelsAreNotEarlier
<1>1. ShowIInv => LabelsAreNotEarlier
  <2> SUFFICES ASSUME ShowIInv PROVE LabelsAreNotEarlier
    OBVIOUS
  <2>1. /\ handled \in Seq([event : Event, label : Nat])
        /\ Len(handled) \in Nat /\ Len(batch) \in Nat /\ Len(detected) \in Nat
        /\ Len(eventsChan) \in Nat
    BY EventTypes DEF ShowIInv
  <2>2. DOMAIN handled = 1 .. Len(handled)
    BY <2>1, LenProperties
  <2>3. Len(handled) <= Len(detected)
    BY <2>1, NoneIsMadeUp
  <2>4. ASSUME NEW i \in DOMAIN handled, NEW j \in DOMAIN handled, i < j
        PROVE  handled[i].event[1] <= handled[j].event[1] /\ handled[i].label <= handled[j].label
    <3>1. i <= j /\ i \in 1 .. Len(detected) /\ j \in 1 .. Len(detected)
      BY <2>1, <2>2, <2>3, <2>4
    <3>2. handled[i].event = detected[i] /\ handled[j].event = detected[j]
      BY <2>2, <2>4 DEF ShowIInv, DetectedInv
    <3> QED
      BY <2>2, <2>4, <3>1, <3>2 DEF ShowIInv, OrderInv, LabelInv
  <2>5. \A i \in DOMAIN handled : handled[i].label \in handled[i].event[1] .. readCount
    BY <2>2 DEF ShowIInv, LabelInv
  <2> QED
    BY <2>4, <2>5 DEF LabelsAreNotEarlier
<1> QED
  BY <1>1, ShowInvariance, PTL

(* A command that reports success has read its whole file, and has printed or
   counted every event found in it. *)
THEOREM ShowSuccessIsComplete == ShowSpec => []ExitZeroMeansShown
<1>1. ShowIInv => ExitZeroMeansShown
  <2> SUFFICES ASSUME ShowIInv, showResult = "ok"
               PROVE  /\ dumped.end = "eof" /\ readCount = Len(dumped.events)
                      /\ [i \in DOMAIN handled |-> handled[i].event] = detected
                      /\ outputFormat = "summary" =>
                            summary = [frames |-> readCount, events |-> Len(detected)]
    BY DEF ExitZeroMeansShown
  <2>1. /\ handled \in Seq([event : Event, label : Nat]) /\ detected \in Seq(Event)
        /\ Len(handled) \in Nat /\ Len(detected) \in Nat
    BY EventTypes DEF ShowIInv
  <2>2. /\ dumped.end = "eof" /\ readCount = Len(dumped.events)
        /\ batch = <<>> /\ eventsChan = <<>>
        /\ outputFormat = "summary" => summary = [frames |-> readCount, events |-> Len(handled)]
    BY DEF ShowIInv, ResultInv
  <2>3. Len(handled) = Len(detected)
    <3>1. Len(batch) = 0 /\ Len(eventsChan) = 0
      BY <2>2, EmptySeq
    <3> QED
      BY <2>1, <3>1 DEF ShowIInv, DetectedInv, Bounds
  <2>4. [i \in DOMAIN handled |-> handled[i].event] = detected
    <3>1. DOMAIN handled = 1 .. Len(detected)
      BY <2>1, <2>3, LenProperties
    <3>2. detected = [i \in 1 .. Len(detected) |-> detected[i]]
      BY <2>1, LenProperties
    <3>3. \A i \in 1 .. Len(detected) : handled[i].event = detected[i]
      BY <2>3 DEF ShowIInv, DetectedInv
    <3> QED
      BY <3>1, <3>2, <3>3
  <2> QED
    BY <2>2, <2>3, <2>4
<1> QED
  BY <1>1, ShowInvariance, PTL
=============================================================================
