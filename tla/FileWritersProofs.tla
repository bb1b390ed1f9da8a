------------------------- MODULE FileWritersProofs -------------------------
(***************************************************************************)
(* Proofs about FileWriters for every set of session IDs, every channel    *)
(* capacity and every number of frames.                                    *)
(***************************************************************************)
EXTENDS FileWriters, SequenceTheorems, TLAPS

(* NoFrame is a frame, and so is the next one the poller offers, which differs
   from it: WriteFrame's argument is never mistaken for "none". *)
LEMMA FrameFacts ==
    /\ NoFrame \in Frame
    /\ \A k \in 0 .. MaxFrames, sid \in SessionIds \cup {NoSession} :
          k < MaxFrames => /\ [n |-> k + 1, sid |-> sid] \in Frame
                           /\ [n |-> k + 1, sid |-> sid] # NoFrame
  BY SessionAssumption DEF SessionAssumption, Frame, NoFrame

LEMMA FlagsTyped == Spec => []FlagsOK
<1> USE DEF FlagsOK, flags, pollerVars, fileVars
<1>1. Init => FlagsOK
  BY Zenon DEF Init
<1>2. FlagsOK /\ [Next]_vars => FlagsOK'
  <2> SUFFICES ASSUME FlagsOK, [Next]_vars PROVE FlagsOK'
    OBVIOUS
  <2>1. CASE TapeNext
    BY <2>1, Zenon DEF TapeNext, TapeFirstPriority, TapeFirstBlock, TapeAcceptFirst,
       TapeCreate, TapeHeader, TapeFirstFrame, TapeAbandon,
       TapePriority, TapeBlock, TapeAccept, TapeWrite, Receive, SeesDone, GiveUpFrame
  <2>2. CASE NevrCapNext
    BY <2>2, Zenon DEF NevrCapNext, NevrCapOpen, NevrCapSelect, NevrCapWrite, Receive, SeesDone,
       GiveUpFrame
  <2>3. CASE EchoReplayNext
    BY <2>3, Zenon DEF EchoReplayNext, EchoReplayOpen, EchoReplaySelect, EchoReplayWrite,
       EchoReplayFlush, FlushBuffer, Receive, SeesDone, GiveUpFrame
  <2>4. CASE WorkerCancels \/ WorkerStops \/ Finish
    BY <2>4, Zenon DEF WorkerCancels, CancelCtx, WorkerStops, SetStopped, Finish
  <2>5. CASE Poller
    BY <2>5, Zenon DEF Poller, WriteFrame, Enqueue, Refuse
  <2>6. CASE \E c \in Closers : CloseCancels(c) \/ CloseStops(c)
    BY <2>6, Zenon DEF CloseCancels, CloseStops, CancelCtx, SetStopped
  <2>7. CASE UNCHANGED vars
    BY <2>7, Zenon DEF vars
  <2> QED
    BY <2>1, <2>2, <2>3, <2>4, <2>5, <2>6, <2>7 DEF Next, Worker
<1> QED
  BY <1>1, <1>2, PTL DEF Spec

LEMMA DataTyped == Spec => []DataOK
<1> USE SessionAssumption DEF SessionAssumption
<1> USE FrameFacts
<1>1. Init => DataOK
  BY DEF Init, DataOK, Closers, Formats, Workers
<1>2. DataOK /\ [Next]_vars => DataOK'
  <2> SUFFICES ASSUME DataOK, [Next]_vars PROVE DataOK'
    OBVIOUS
  <2> USE DEF Closers, Formats, Workers, flags, pollerVars, fileVars
  <2>1. ASSUME NEW from, NEW to \in Workers, Receive(from, to) PROVE DataOK'
    BY <2>1 DEF Receive, DataOK
  <2>2. ASSUME NEW from, SeesDone(from) \/ GiveUpFrame(from) PROVE DataOK'
    BY <2>2 DEF SeesDone, GiveUpFrame, DataOK
  <2>3. CASE TapeNext
    <3>1. CASE TapeFirstPriority \/ TapeFirstBlock \/ TapeAcceptFirst
      BY <3>1, <2>1, <2>2 DEF TapeFirstPriority, TapeFirstBlock, TapeAcceptFirst, DataOK
    <3>2. CASE TapeFirstFrame
      <4>1. recorded \in Seq(Frame) /\ buf \in Seq(Frame) /\ hand \in Frame
        BY DEF DataOK
      <4>2. recorded' \in Seq(Frame)
        BY <3>2, <4>1 DEF TapeFirstFrame, TapeAbandon
      <4> QED
        BY <3>2, <4>2 DEF TapeFirstFrame, TapeAbandon, DataOK
    <3>5. CASE TapeCreate \/ TapeHeader
      BY <3>5 DEF TapeCreate, TapeHeader, TapeAbandon, DataOK
    <3>3. CASE TapePriority \/ TapeBlock \/ TapeAccept
      BY <3>3, <2>1, <2>2 DEF TapePriority, TapeBlock, TapeAccept, DataOK
    <3>4. CASE TapeWrite
      <4>1. recorded \in Seq(Frame) /\ buf \in Seq(Frame) /\ hand \in Frame
        BY DEF DataOK
      <4>2. recorded' \in Seq(Frame)
        BY <3>4, <4>1 DEF TapeWrite
      <4> QED
        BY <3>4, <4>2 DEF TapeWrite, DataOK
    <3> QED
      BY <2>3, <2>2, <3>1, <3>2, <3>3, <3>4, <3>5 DEF TapeNext
  <2>4. CASE NevrCapNext
    <3>1. CASE NevrCapOpen
      BY <3>1 DEF NevrCapOpen, DataOK
    <3>2. CASE NevrCapWrite
      <4>1. recorded \in Seq(Frame) /\ buf \in Seq(Frame) /\ hand \in Frame
        BY DEF DataOK
      <4>2. recorded' \in Seq(Frame)
        BY <3>2, <4>1 DEF NevrCapWrite
      <4> QED
        BY <3>2, <4>2 DEF NevrCapWrite, DataOK
    <3> QED
      BY <2>4, <2>1, <2>2, <3>1, <3>2 DEF NevrCapNext, NevrCapSelect
  <2>5. CASE EchoReplayNext
    <3>1. CASE EchoReplayOpen
      BY <3>1 DEF EchoReplayOpen, DataOK
    <3>2. CASE EchoReplayWrite
      <4>1. recorded \in Seq(Frame) /\ buf \in Seq(Frame) /\ hand \in Frame
        BY DEF DataOK
      <4>a. Append(buf, hand) \in Seq(Frame)
        BY <4>1
      <4>b. recorded \o Append(buf, hand) \in Seq(Frame)
        BY <4>1, <4>a, ConcatProperties
      <4>2. recorded' \in Seq(Frame) /\ buf' \in Seq(Frame)
        <5>1. \/ recorded' = recorded /\ buf' = Append(buf, hand)
              \/ recorded' = recorded \o Append(buf, hand) /\ buf' = <<>>
          BY <3>2 DEF EchoReplayWrite, FlushBuffer
        <5> QED
          BY <5>1, <4>1, <4>a, <4>b, EmptySeq
      <4> QED
        BY <3>2, <4>2 DEF EchoReplayWrite, FlushBuffer, DataOK
    <3>3. CASE EchoReplayFlush
      <4>1. recorded \in Seq(Frame) /\ buf \in Seq(Frame) /\ hand \in Frame
        BY DEF DataOK
      <4>a. recorded \o buf \in Seq(Frame)
        BY <4>1, ConcatProperties
      <4>2. recorded' \in Seq(Frame) /\ buf' \in Seq(Frame)
        <5>1. \/ recorded' = recorded /\ buf' = buf
              \/ recorded' = recorded \o buf /\ buf' = <<>>
          BY <3>3 DEF EchoReplayFlush, FlushBuffer
        <5> QED
          BY <5>1, <4>1, <4>a, EmptySeq
      <4> QED
        BY <3>3, <4>2 DEF EchoReplayFlush, FlushBuffer, DataOK
    <3> QED
      BY <2>5, <2>1, <2>2, <3>1, <3>2, <3>3 DEF EchoReplayNext, EchoReplaySelect
  <2>6. CASE WorkerCancels
    BY <2>6 DEF WorkerCancels, CancelCtx, DataOK
  <2>7. CASE WorkerStops
    BY <2>7 DEF WorkerStops, SetStopped, DataOK
  <2>8. CASE Finish
    BY <2>8 DEF Finish, DataOK
  <2>9. ASSUME NEW sid \in SessionIds \cup {NoSession}, WriteFrame(sid) PROVE DataOK'
    BY <2>9 DEF WriteFrame, DataOK
  <2>10. CASE Enqueue
    BY <2>10 DEF Enqueue, DataOK
  <2>11. CASE Refuse
    BY <2>11 DEF Refuse, DataOK
  <2>12. ASSUME NEW c \in Closers, CloseCancels(c) \/ CloseStops(c) PROVE DataOK'
    BY <2>12 DEF CloseCancels, CloseStops, CancelCtx, SetStopped, DataOK
  <2>13. CASE UNCHANGED vars
    BY <2>13 DEF vars, DataOK
  <2> QED
    BY <2>3, <2>4, <2>5, <2>6, <2>7, <2>8, <2>9, <2>10, <2>11, <2>12, <2>13
       DEF Next, Worker, Poller
<1> QED
  BY <1>1, <1>2, PTL DEF Spec

(* Every variable keeps the type of the field or local it stands for. *)
THEOREM TypeCorrect == Spec => []TypeOK
  BY FlagsTyped, DataTyped, PTL DEF TypeOK

----------------------------------------------------------------------------
(***************************************************************************)
(* The recording.  The worker is Idle (waiting for a frame), Holding one,  *)
(* or Past its loop.  A frame in hand is the last one taken off the        *)
(* channel, and file and buffer together hold exactly those taken before   *)
(* it; once the worker is past its loop they hold no more than that.       *)
(***************************************************************************)
Idle == {"first", "firstBlock", "poll", "block", "open", "select"}
Chosen == {"create", "header", "firstWrite", "write"}
Holding == Chosen \cup {"checkFirst", "check"}
Past == {"close", "closing", "flush", "finish", "abandon", "done", "abandoned"}

Taken == Len(accepted) - Len(outgoingCh)
Saved == Len(recorded) + Len(buf)

ChannelInv ==
    /\ Len(outgoingCh) <= Len(accepted)
    /\ \A i \in 1 .. Len(outgoingCh) : outgoingCh[i] = accepted[Taken + i]

HandInv ==
    /\ worker \in Holding => Taken >= 1 /\ hand = accepted[Taken]
    /\ worker \in Chosen => IsOwn(hand)

FileInv ==
    /\ Saved <= Taken
    /\ worker \in Idle => Saved = Taken
    /\ worker \in Holding => Saved = Taken - 1
    /\ \A i \in 1 .. Len(recorded) : recorded[i] = accepted[i] /\ IsOwn(accepted[i])
    /\ \A i \in 1 .. Len(buf) : buf[i] = accepted[Len(recorded) + i] /\ IsOwn(buf[i])
    /\ format # "echoreplay" => buf = <<>>

IInv == ChannelInv /\ HandInv /\ FileInv

(* The shapes a step can have, seen from the channel, the hand and the file. *)
Accepts ==
    /\ outgoingCh' = Append(outgoingCh, offer) /\ accepted' = Append(accepted, offer)
    /\ UNCHANGED <<worker, hand, recorded, buf>>

Takes ==
    /\ outgoingCh # <<>> /\ outgoingCh' = Tail(outgoingCh) /\ hand' = Head(outgoingCh)
    /\ worker \in Idle /\ worker' \in {"check", "checkFirst"}
    /\ UNCHANGED <<accepted, recorded, buf>>

Rests ==
    /\ UNCHANGED <<outgoingCh, accepted, recorded, buf>>
    /\ Ended => worker' = worker
    /\ \/ UNCHANGED <<worker, hand>>
       \/ worker' \in Past
       \/ worker \in Idle /\ worker' \in Idle
       \/ /\ worker \in Holding /\ worker' \in Chosen
          /\ worker \in Chosen \/ IsOwn(hand)
          /\ hand' = hand

Saves ==
    /\ UNCHANGED <<outgoingCh, accepted>>
    /\ worker \in Holding /\ worker' \in Idle \cup {"close"}
    /\ \/ /\ recorded' = Append(recorded, hand) /\ buf' = buf
          /\ format # "echoreplay"
          /\ worker \in Chosen \/ IsOwn(hand)
       \/ /\ recorded' = recorded /\ buf' = Append(buf, hand)
          /\ format = "echoreplay" /\ IsOwn(hand)
       \/ recorded' = recorded \o Append(buf, hand) /\ buf' = <<>> /\ IsOwn(hand)

Flushes ==
    /\ UNCHANGED <<outgoingCh, accepted>>
    /\ worker = "flush" /\ worker' = "finish"
    /\ recorded' = recorded \o buf /\ buf' = <<>>

(* Every step has one of these shapes, and none changes the format. *)
LEMMA StepShapes ==
    ASSUME [Next]_vars
    PROVE  (Accepts \/ Takes \/ Rests \/ Saves \/ Flushes) /\ format' = format
<1> USE DEF flags, pollerVars, fileVars, Idle, Chosen, Holding, Past, Unwanted, IsOwn, Ended
<1>1. CASE TapeNext
  <2>1. CASE TapeFirstPriority \/ TapeFirstBlock
    BY <2>1 DEF TapeFirstPriority, TapeFirstBlock, Receive, SeesDone, Takes, Rests
  <2>2. CASE TapePriority \/ TapeBlock
    BY <2>2 DEF TapePriority, TapeBlock, Receive, SeesDone, Takes, Rests
  <2>3. CASE TapeAcceptFirst \/ TapeAccept \/ GiveUpFrame("checkFirst") \/ GiveUpFrame("check")
    BY <2>3 DEF TapeAcceptFirst, TapeAccept, GiveUpFrame, Rests
  <2>4. CASE TapeFirstFrame \/ TapeWrite
    BY <1>1, <2>4 DEF TapeNext, TapeFirstFrame, TapeAbandon, TapeWrite, Rests, Saves
  <2>5. CASE TapeCreate \/ TapeHeader
    BY <1>1, <2>5 DEF TapeNext, TapeCreate, TapeHeader, TapeAbandon, Rests
  <2> QED
    BY <1>1, <2>1, <2>2, <2>3, <2>4, <2>5 DEF TapeNext
<1>2. CASE NevrCapNext
  <2>1. CASE NevrCapOpen \/ NevrCapSelect \/ GiveUpFrame("check")
    BY <2>1 DEF NevrCapOpen, NevrCapSelect, Receive, SeesDone, GiveUpFrame, Takes, Rests
  <2>2. CASE NevrCapWrite
    BY <1>2, <2>2 DEF NevrCapNext, NevrCapWrite, Rests, Saves
  <2> QED
    BY <1>2, <2>1, <2>2 DEF NevrCapNext
<1>3. CASE EchoReplayNext
  <2>1. CASE EchoReplayOpen \/ EchoReplaySelect \/ GiveUpFrame("check")
    BY <2>1 DEF EchoReplayOpen, EchoReplaySelect, Receive, SeesDone, GiveUpFrame, Takes, Rests
  <2>2. CASE EchoReplayWrite
    BY <1>3, <2>2 DEF EchoReplayNext, EchoReplayWrite, FlushBuffer, Saves
  <2>3. CASE EchoReplayFlush
    BY <2>3 DEF EchoReplayFlush, FlushBuffer, Flushes, Rests
  <2> QED
    BY <1>3, <2>1, <2>2, <2>3 DEF EchoReplayNext
<1>4. CASE WorkerCancels \/ WorkerStops \/ Finish
  BY <1>4 DEF WorkerCancels, WorkerStops, Finish, Rests
<1>5. CASE Poller
  BY <1>5 DEF Poller, WriteFrame, Enqueue, Refuse, Accepts, Rests
<1>6. CASE \E c \in Closers : CloseCancels(c) \/ CloseStops(c)
  BY <1>6 DEF CloseCancels, CloseStops, Rests
<1>7. CASE UNCHANGED vars
  BY <1>7 DEF vars, Rests
<1> QED
  BY <1>1, <1>2, <1>3, <1>4, <1>5, <1>6, <1>7 DEF Next, Worker

(* What the sequence operators do to lengths and elements. *)
LEMMA AppendFacts ==
    ASSUME NEW S, NEW s \in Seq(S), NEW e \in S
    PROVE  /\ Append(s, e) \in Seq(S)
           /\ Len(Append(s, e)) = Len(s) + 1
           /\ \A i \in 1 .. Len(s) : Append(s, e)[i] = s[i]
           /\ Append(s, e)[Len(s) + 1] = e
  BY AppendProperties

LEMMA TailFacts ==
    ASSUME NEW S, NEW s \in Seq(S), s # <<>>
    PROVE  /\ Len(s) >= 1 /\ Head(s) = s[1]
           /\ Len(Tail(s)) = Len(s) - 1
           /\ \A i \in 1 .. Len(s) - 1 : Tail(s)[i] = s[i + 1]
  BY HeadTailProperties, EmptySeq

(* The accepted history only grows, and the channel stays its tail. *)
LEMMA ChannelStep ==
    ASSUME DataOK, DataOK', ChannelInv, Accepts \/ Takes \/ Rests \/ Saves \/ Flushes
    PROVE  ChannelInv'
<1>1. /\ outgoingCh \in Seq(Frame) /\ accepted \in Seq(Frame) /\ offer \in Frame
      /\ Len(outgoingCh) \in Nat /\ Len(accepted) \in Nat
  BY LenProperties DEF DataOK
<1>2. CASE Accepts
  <2>1. /\ Len(outgoingCh') = Len(outgoingCh) + 1 /\ Len(accepted') = Len(accepted) + 1
        /\ \A i \in 1 .. Len(outgoingCh) : outgoingCh'[i] = outgoingCh[i]
        /\ outgoingCh'[Len(outgoingCh) + 1] = offer
        /\ \A i \in 1 .. Len(accepted) : accepted'[i] = accepted[i]
        /\ accepted'[Len(accepted) + 1] = offer
    BY <1>1, <1>2, AppendFacts DEF Accepts
  <2>2. Taken' = Taken /\ Taken \in Nat
    BY <1>1, <2>1 DEF ChannelInv, Taken
  <2>3. ASSUME NEW i \in 1 .. Len(outgoingCh') PROVE outgoingCh'[i] = accepted'[Taken + i]
    <3>1. CASE i = Len(outgoingCh) + 1
      BY <1>1, <2>1, <2>2, <3>1 DEF Taken
    <3>2. CASE i # Len(outgoingCh) + 1
      <4>1. i \in 1 .. Len(outgoingCh) /\ Taken + i \in 1 .. Len(accepted)
        BY <1>1, <2>1, <2>2, <3>2 DEF Taken
      <4> QED
        BY <2>1, <4>1 DEF ChannelInv
    <3> QED
      BY <3>1, <3>2
  <2> QED
    BY <1>1, <2>1, <2>2, <2>3 DEF ChannelInv
<1>3. CASE Takes
  <2>1. /\ accepted' = accepted /\ Len(outgoingCh) >= 1
        /\ Len(outgoingCh') = Len(outgoingCh) - 1
        /\ \A i \in 1 .. Len(outgoingCh) - 1 : outgoingCh'[i] = outgoingCh[i + 1]
    BY <1>1, <1>3, TailFacts DEF Takes
  <2>2. Taken' = Taken + 1 /\ Taken \in Nat
    BY <1>1, <2>1 DEF ChannelInv, Taken
  <2>3. ASSUME NEW i \in 1 .. Len(outgoingCh') PROVE outgoingCh'[i] = accepted'[Taken + 1 + i]
    <3>1. i + 1 \in 1 .. Len(outgoingCh) /\ i \in 1 .. Len(outgoingCh) - 1
      BY <1>1, <2>1
    <3>2. outgoingCh'[i] = outgoingCh[i + 1]
      BY <2>1, <3>1
    <3>3. outgoingCh[i + 1] = accepted[Taken + (i + 1)]
      BY <3>1 DEF ChannelInv
    <3> QED
      BY <2>1, <2>2, <3>1, <3>2, <3>3
  <2> QED
    BY <1>1, <2>1, <2>2, <2>3 DEF ChannelInv
<1>4. CASE Rests \/ Saves \/ Flushes
  BY <1>4 DEF Rests, Saves, Flushes, ChannelInv, Taken
<1> QED
  BY <1>2, <1>3, <1>4

(* How many frames have left the channel, before and after a step. *)
LEMMA TakenStep ==
    ASSUME DataOK, DataOK', ChannelInv
    PROVE  /\ Taken \in 0 .. Len(accepted) /\ Len(accepted) \in Nat
           /\ Accepts => /\ Taken' = Taken
                         /\ \A i \in 1 .. Len(accepted) : accepted'[i] = accepted[i]
                         /\ Len(accepted') = Len(accepted) + 1
           /\ Takes => /\ Taken' = Taken + 1 /\ accepted' = accepted
                       /\ hand' = accepted[Taken + 1]
           /\ Rests \/ Saves \/ Flushes => Taken' = Taken /\ accepted' = accepted
<1>1. /\ outgoingCh \in Seq(Frame) /\ accepted \in Seq(Frame) /\ offer \in Frame
      /\ Len(outgoingCh) \in Nat /\ Len(accepted) \in Nat
  BY LenProperties DEF DataOK
<1>2. Taken \in 0 .. Len(accepted)
  BY <1>1 DEF ChannelInv, Taken
<1>3. ASSUME Accepts
      PROVE  /\ Taken' = Taken /\ Len(accepted') = Len(accepted) + 1
             /\ \A i \in 1 .. Len(accepted) : accepted'[i] = accepted[i]
  <2>1. /\ Len(outgoingCh') = Len(outgoingCh) + 1 /\ Len(accepted') = Len(accepted) + 1
        /\ \A i \in 1 .. Len(accepted) : accepted'[i] = accepted[i]
    BY <1>1, <1>3, AppendFacts DEF Accepts
  <2> QED
    BY <1>1, <2>1 DEF Taken
<1>4. ASSUME Takes
      PROVE  Taken' = Taken + 1 /\ accepted' = accepted /\ hand' = accepted[Taken + 1]
  <2>1. /\ accepted' = accepted /\ Len(outgoingCh) >= 1
        /\ Len(outgoingCh') = Len(outgoingCh) - 1 /\ hand' = outgoingCh[1]
    BY <1>1, <1>4, TailFacts DEF Takes
  <2>2. outgoingCh[1] = accepted[Taken + 1]
    BY <1>1, <2>1 DEF ChannelInv
  <2> QED
    BY <1>1, <2>1, <2>2 DEF Taken
<1>5. ASSUME Rests \/ Saves \/ Flushes PROVE Taken' = Taken /\ accepted' = accepted
  BY <1>5 DEF Rests, Saves, Flushes, Taken
<1> QED
  BY <1>1, <1>2, <1>3, <1>4, <1>5

(* The frame in hand is the last one taken off the channel. *)
LEMMA HandStep ==
    ASSUME DataOK, DataOK', ChannelInv, HandInv,
           Accepts \/ Takes \/ Rests \/ Saves \/ Flushes
    PROVE  HandInv'
<1> USE DEF Idle, Chosen, Holding, Past
<1>1. Taken \in 0 .. Len(accepted) /\ Len(accepted) \in Nat
  BY TakenStep
<1>2. CASE Accepts
  <2>1. /\ Taken' = Taken /\ UNCHANGED <<worker, hand>>
        /\ \A i \in 1 .. Len(accepted) : accepted'[i] = accepted[i]
    BY <1>2, TakenStep DEF Accepts
  <2> QED
    BY <1>1, <2>1 DEF HandInv, IsOwn
<1>3. CASE Takes
  <2>1. Taken' = Taken + 1 /\ accepted' = accepted /\ hand' = accepted[Taken + 1]
    BY <1>3, TakenStep
  <2>2. worker' \in {"check", "checkFirst"}
    BY <1>3 DEF Takes
  <2> QED
    BY <1>1, <2>1, <2>2 DEF HandInv
<1>4. CASE Rests
  <2>1. Taken' = Taken /\ accepted' = accepted
    BY <1>4, TakenStep
  <2> QED
    BY <1>4, <2>1 DEF Rests, HandInv, IsOwn
<1>5. CASE Saves \/ Flushes
  BY <1>5 DEF Saves, Flushes, HandInv
<1> QED
  BY <1>2, <1>3, <1>4, <1>5

(* If the buffer b continues the file r along the accepted history, so does
   the file with b appended to it. *)
LEMMA ConcatPrefix ==
    ASSUME NEW r \in Seq(Frame), NEW b \in Seq(Frame), NEW h,
           \A i \in 1 .. Len(r) : r[i] = h[i] /\ IsOwn(h[i]),
           \A i \in 1 .. Len(b) : b[i] = h[Len(r) + i] /\ IsOwn(b[i])
    PROVE  /\ Len(r \o b) = Len(r) + Len(b)
           /\ \A i \in 1 .. Len(r \o b) : (r \o b)[i] = h[i] /\ IsOwn(h[i])
<1>1. /\ Len(r \o b) = Len(r) + Len(b) /\ Len(r) \in Nat /\ Len(b) \in Nat
      /\ \A i \in 1 .. Len(r) + Len(b) :
            (r \o b)[i] = IF i <= Len(r) THEN r[i] ELSE b[i - Len(r)]
  BY ConcatProperties, LenProperties
<1>2. ASSUME NEW i \in 1 .. Len(r \o b) PROVE (r \o b)[i] = h[i] /\ IsOwn(h[i])
  <2>1. CASE i <= Len(r)
    BY <1>1, <2>1
  <2>2. CASE ~(i <= Len(r))
    <3>1. i - Len(r) \in 1 .. Len(b) /\ Len(r) + (i - Len(r)) = i
      BY <1>1, <2>2
    <3>2. (r \o b)[i] = b[i - Len(r)]
      BY <1>1, <2>2
    <3> QED
      BY <3>1, <3>2
  <2> QED
    BY <2>1, <2>2
<1> QED
  BY <1>1, <1>2

(* The same for one more frame e at the end of the buffer. *)
LEMMA AppendPrefix ==
    ASSUME NEW k \in Nat, NEW b \in Seq(Frame), NEW e \in Frame, NEW h,
           \A i \in 1 .. Len(b) : b[i] = h[k + i] /\ IsOwn(b[i]),
           e = h[k + Len(b) + 1], IsOwn(e)
    PROVE  /\ Append(b, e) \in Seq(Frame) /\ Len(Append(b, e)) = Len(b) + 1
           /\ \A i \in 1 .. Len(Append(b, e)) :
                 Append(b, e)[i] = h[k + i] /\ IsOwn(Append(b, e)[i])
<1>1. /\ Append(b, e) \in Seq(Frame) /\ Len(Append(b, e)) = Len(b) + 1 /\ Len(b) \in Nat
      /\ \A i \in 1 .. Len(b) : Append(b, e)[i] = b[i]
      /\ Append(b, e)[Len(b) + 1] = e
  BY AppendFacts, LenProperties
<1>2. ASSUME NEW i \in 1 .. Len(Append(b, e))
      PROVE  Append(b, e)[i] = h[k + i] /\ IsOwn(Append(b, e)[i])
  <2>1. CASE i = Len(b) + 1
    <3>1. k + i = k + Len(b) + 1
      BY <1>1, <2>1
    <3> QED
      BY <1>1, <2>1, <3>1
  <2>2. CASE i # Len(b) + 1
    <3>1. i \in 1 .. Len(b)
      BY <1>1, <2>2
    <3> QED
      BY <1>1, <3>1
  <2> QED
    BY <2>1, <2>2
<1> QED
  BY <1>1, <1>2

(* File and buffer hold what was taken off the channel before the frame in
   hand, in the order it was accepted. *)
LEMMA FileStep ==
    ASSUME DataOK, DataOK', ChannelInv, HandInv, FileInv, format' = format,
           Accepts \/ Takes \/ Rests \/ Saves \/ Flushes
    PROVE  FileInv'
<1> USE DEF Idle, Chosen, Holding, Past
<1>1. /\ Taken \in 0 .. Len(accepted) /\ Len(accepted) \in Nat
      /\ recorded \in Seq(Frame) /\ buf \in Seq(Frame) /\ hand \in Frame
      /\ Len(recorded) \in Nat /\ Len(buf) \in Nat
      /\ Len(recorded) + Len(buf) <= Taken
  BY TakenStep, LenProperties DEF DataOK, FileInv, Saved
<1>2. CASE Accepts
  <2>1. /\ Taken' = Taken /\ UNCHANGED <<worker, recorded, buf>>
        /\ \A i \in 1 .. Len(accepted) : accepted'[i] = accepted[i]
    BY <1>2, TakenStep DEF Accepts
  <2>2. ASSUME NEW i \in 1 .. Len(recorded)
        PROVE  recorded[i] = accepted'[i] /\ IsOwn(accepted'[i])
    <3>1. i \in 1 .. Len(accepted)
      BY <1>1
    <3>2. recorded[i] = accepted[i] /\ IsOwn(accepted[i])
      BY DEF FileInv
    <3> QED
      BY <2>1, <3>1, <3>2
  <2>3. ASSUME NEW i \in 1 .. Len(buf)
        PROVE  buf[i] = accepted'[Len(recorded) + i] /\ IsOwn(buf[i])
    <3>1. Len(recorded) + i \in 1 .. Len(accepted)
      BY <1>1
    <3> QED
      BY <2>1, <3>1 DEF FileInv
  <2> QED
    BY <2>1, <2>2, <2>3 DEF FileInv, Saved, IsOwn
<1>3. CASE Takes
  <2>1. /\ Taken' = Taken + 1 /\ UNCHANGED <<accepted, recorded, buf>>
        /\ worker \in Idle /\ worker' \in Holding
    BY <1>3, TakenStep DEF Takes
  <2> QED
    BY <1>1, <2>1 DEF FileInv, Saved, IsOwn
<1>4. CASE Rests
  <2>1. Taken' = Taken /\ UNCHANGED <<accepted, recorded, buf>>
    BY <1>4, TakenStep DEF Rests
  <2>2. \/ worker' = worker \/ worker' \in Past
        \/ worker \in Idle /\ worker' \in Idle
        \/ worker \in Holding /\ worker' \in Holding
    BY <1>4 DEF Rests
  <2> QED
    BY <1>1, <2>1, <2>2 DEF FileInv, Saved, IsOwn
<1>5. CASE Saves
  <2>1. /\ Taken' = Taken /\ accepted' = accepted
        /\ worker' \in Idle \cup Past
        /\ Len(recorded) + Len(buf) = Taken - 1
        /\ hand = accepted[Len(recorded) + Len(buf) + 1] /\ IsOwn(hand)
    BY <1>1, <1>5, TakenStep DEF Saves, FileInv, HandInv, Saved
  <2>2. CASE recorded' = Append(recorded, hand) /\ buf' = buf /\ format # "echoreplay"
    <3>1. buf = <<>> /\ Len(buf) = 0
      BY <1>1, <2>2, EmptySeq DEF FileInv
    <3>2. /\ Len(recorded') = Len(recorded) + 1
          /\ \A i \in 1 .. Len(recorded') : recorded'[i] = accepted[0 + i] /\ IsOwn(recorded'[i])
      BY <1>1, <2>1, <2>2, <3>1, AppendPrefix DEF FileInv
    <3> QED
      BY <1>1, <2>1, <2>2, <3>1, <3>2 DEF FileInv, Saved
  <2>3. CASE recorded' = recorded /\ buf' = Append(buf, hand) /\ format = "echoreplay"
    <3>1. /\ Len(buf') = Len(buf) + 1
          /\ \A i \in 1 .. Len(buf') : buf'[i] = accepted[Len(recorded) + i] /\ IsOwn(buf'[i])
      BY <1>1, <2>1, <2>3, AppendPrefix, SMTT(30) DEF FileInv
    <3>2. \A i \in 1 .. Len(recorded) : recorded[i] = accepted[i] /\ IsOwn(accepted[i])
      BY DEF FileInv
    <3>3. Saved' = Taken' /\ worker' \in Idle \cup Past
      BY <1>1, <2>1, <2>3, <3>1 DEF Saved
    <3> QED
      BY <2>1, <2>3, <3>1, <3>2, <3>3, <1>1 DEF FileInv, IsOwn
  <2>4. CASE recorded' = recorded \o Append(buf, hand) /\ buf' = <<>>
    <3> DEFINE b == Append(buf, hand)
    <3>1. /\ b \in Seq(Frame) /\ Len(b) = Len(buf) + 1
          /\ \A i \in 1 .. Len(b) : b[i] = accepted[Len(recorded) + i] /\ IsOwn(b[i])
      BY <1>1, <2>1, AppendPrefix DEF FileInv
    <3>2. recorded' = recorded \o b
      BY <2>4
    <3>3. \A i \in 1 .. Len(recorded) : recorded[i] = accepted[i] /\ IsOwn(accepted[i])
      BY DEF FileInv
    <3> HIDE DEF b
    <3>4. /\ Len(recorded') = Len(recorded) + Len(b)
          /\ \A i \in 1 .. Len(recorded') : recorded'[i] = accepted[i] /\ IsOwn(accepted[i])
      <4>1. recorded \in Seq(Frame) /\ b \in Seq(Frame)
        BY <1>1, <3>1
      <4>2. /\ Len(recorded \o b) = Len(recorded) + Len(b)
            /\ \A i \in 1 .. Len(recorded \o b) :
                  (recorded \o b)[i] = accepted[i] /\ IsOwn(accepted[i])
        BY ONLY <3>1, <3>3, <4>1, ConcatPrefix, Zenon
      <4> QED
        BY <3>2, <4>2
    <3>5. buf' = <<>> /\ Len(buf') = 0
      BY <2>4, EmptySeq
    <3> QED
      BY <1>1, <2>1, <3>1, <3>4, <3>5 DEF FileInv, Saved, IsOwn
  <2> QED
    BY <1>5, <2>2, <2>3, <2>4 DEF Saves
<1>6. CASE Flushes
  <2>1. Taken' = Taken /\ accepted' = accepted /\ worker' \in Past
    BY <1>6, TakenStep DEF Flushes
  <2>2. recorded' = recorded \o buf /\ buf' = <<>> /\ Len(buf') = 0
    BY <1>6, EmptySeq DEF Flushes
  <2>3. /\ \A i \in 1 .. Len(recorded) : recorded[i] = accepted[i] /\ IsOwn(accepted[i])
        /\ \A i \in 1 .. Len(buf) : buf[i] = accepted[Len(recorded) + i] /\ IsOwn(buf[i])
    BY DEF FileInv
  <2>4. /\ Len(recorded') = Len(recorded) + Len(buf)
        /\ \A i \in 1 .. Len(recorded') : recorded'[i] = accepted[i] /\ IsOwn(accepted[i])
    <3>1. /\ Len(recorded \o buf) = Len(recorded) + Len(buf)
          /\ \A i \in 1 .. Len(recorded \o buf) :
                (recorded \o buf)[i] = accepted[i] /\ IsOwn(accepted[i])
      BY ONLY <1>1, <2>3, ConcatPrefix, Zenon
    <3> QED
      BY <2>2, <3>1
  <2> QED
    BY <1>1, <2>1, <2>2, <2>4 DEF FileInv, Saved, IsOwn
<1> QED
  BY <1>2, <1>3, <1>4, <1>5, <1>6

(* The file holds an initial piece of the accepted frames, in order, without
   gaps, and frames of its own session only; channel, hand and buffer hold
   the frames that follow. *)
LEMMA Invariance == Spec => []IInv
<1>1. Init => IInv
  BY SessionAssumption, EmptySeq
     DEF SessionAssumption, Init, IInv, ChannelInv, HandInv, FileInv, Taken, Saved, Idle, Chosen, Holding
<1>2. DataOK /\ DataOK' /\ IInv /\ [Next]_vars => IInv'
  BY StepShapes, ChannelStep, HandStep, FileStep DEF IInv
<1> QED
  BY <1>1, <1>2, DataTyped, PTL DEF Spec

(* The file never skips, repeats or reorders an accepted frame and never
   holds another match's, however the three goroutines interleave. *)
THEOREM FileIsPrefix == Spec => []RecordedIsPrefix
<1>1. DataOK /\ IInv => RecordedIsPrefix
  <2> SUFFICES ASSUME DataOK, IInv PROVE RecordedIsPrefix
    OBVIOUS
  <2>1. /\ Len(recorded) \in Nat /\ Len(buf) \in Nat /\ Len(accepted) \in Nat
        /\ Len(outgoingCh) \in Nat
    BY LenProperties DEF DataOK
  <2> QED
    BY <2>1 DEF IInv, ChannelInv, FileInv, Saved, Taken, RecordedIsPrefix, IsOwn
<1> QED
  BY <1>1, DataTyped, Invariance, PTL

(* A step that makes the file longer makes it the next initial piece. *)
LEMMA GrowthRecords ==
    ASSUME DataOK, DataOK', FileInv', ChannelInv', accepted' = accepted,
           Len(recorded') > Len(recorded), ~Ended, ~Ended'
    PROVE  R!Record
<1>1. /\ accepted \in Seq(Frame) /\ recorded' \in Seq(Frame) /\ outgoingCh' \in Seq(Frame)
      /\ Len(recorded) \in Nat /\ Len(recorded') \in Nat /\ Len(accepted) \in Nat
      /\ Len(buf') \in Nat /\ Len(outgoingCh') \in Nat
  BY LenProperties DEF DataOK
<1> DEFINE k == Len(recorded')
<1>2. k \in Len(recorded) + 1 .. Len(accepted)
  BY <1>1 DEF FileInv, ChannelInv, Saved, Taken
<1>3. \A i \in 1 .. k : recorded'[i] = accepted[i] /\ IsOwn(accepted[i])
  BY DEF FileInv, IsOwn
<1>4. recorded' = SubSeq(accepted, 1, k)
  <2>1. /\ SubSeq(accepted, 1, k) \in Seq(Frame) /\ Len(SubSeq(accepted, 1, k)) = k
        /\ \A i \in 1 .. k : SubSeq(accepted, 1, k)[i] = accepted[i]
    BY <1>1, <1>2, SubSeqProperties
  <2> QED
    BY <1>1, <1>3, <2>1, SeqEqual
<1>5. Ended' = Ended
  BY DEF Ended
<1>6. \E j \in Len(recorded) + 1 .. Len(accepted) :
          /\ \A i \in 1 .. j : IsOwn(accepted[i])
          /\ recorded' = SubSeq(accepted, 1, j)
  BY <1>2, <1>3, <1>4
<1> QED
  BY <1>5, <1>6, Zenon DEF R!Record

(* Every session implements an abstract recording: its worker and its poller
   together never do more than accept a frame, lengthen the file to a longer
   initial piece of the accepted frames, or seal it, and nothing is recorded
   after that. *)
THEOREM SessionImplementsRecording == Spec => ImplementsRecording
<1>1. Init => R!Init
  BY DEF Init, R!Init, Ended
<1>2. /\ DataOK /\ DataOK' /\ IInv /\ IInv' /\ [Next]_vars
      => [R!Next]_<<accepted, recorded, Ended>>
  <2> SUFFICES ASSUME DataOK, DataOK', IInv, IInv', [Next]_vars
               PROVE  R!Next \/ UNCHANGED <<accepted, recorded, Ended>>
    OBVIOUS
  <2> USE DEF Idle, Chosen, Holding, Past
  <2>1. CASE Accepts
    <3>1. accepted' = Append(accepted, offer) /\ offer \in Frame
      BY <2>1 DEF Accepts, DataOK
    <3>2. recorded' = recorded /\ (Ended' <=> Ended)
      BY <2>1 DEF Accepts, Ended
    <3> QED
      BY <3>1, <3>2 DEF R!Next, R!Accept
  <2>2. CASE Takes
    BY <2>2 DEF Takes, Ended
  <2>3. CASE Rests
    BY <2>3 DEF Rests, Ended, R!Next, R!Seal
  <2>4. CASE Saves
    <3>1. ~Ended /\ ~Ended' /\ accepted' = accepted
      BY <2>4 DEF Saves, Ended
    <3>2. recorded' = recorded \/ Len(recorded') > Len(recorded)
      <4>1. recorded \in Seq(Frame) /\ buf \in Seq(Frame) /\ hand \in Frame
        BY DEF DataOK
      <4> QED
        BY <2>4, <4>1, AppendFacts, ConcatProperties, LenProperties DEF Saves
    <3> QED
      BY <3>1, <3>2, GrowthRecords DEF IInv, R!Next, Ended
  <2>5. CASE Flushes
    <3>1. ~Ended /\ ~Ended' /\ accepted' = accepted
      BY <2>5 DEF Flushes, Ended
    <3>2. recorded' = recorded \/ Len(recorded') > Len(recorded)
      <4>1. recorded \in Seq(Frame) /\ buf \in Seq(Frame)
        BY DEF DataOK
      <4>2. Len(recorded \o buf) = Len(recorded) + Len(buf) /\ Len(buf) \in Nat /\ Len(recorded) \in Nat
        BY <4>1, ConcatProperties, LenProperties
      <4>3. Len(buf) = 0 => recorded \o buf = recorded
        BY <4>1, EmptySeq, ConcatEmptySeq
      <4> QED
        BY <2>5, <4>2, <4>3 DEF Flushes
    <3> QED
      BY <3>1, <3>2, GrowthRecords DEF IInv, R!Next, Ended
  <2> QED
    BY <2>1, <2>2, <2>3, <2>4, <2>5, StepShapes
<1> QED
  BY <1>1, <1>2, DataTyped, Invariance, PTL DEF Spec, ImplementsRecording, R!Spec

----------------------------------------------------------------------------
(***************************************************************************)
(* Stopping.                                                               *)
(***************************************************************************)
LateInv ==
    stopped => /\ Len(accepted) <= acceptedAtStop + 1
               /\ offer # NoFrame => Len(accepted) <= acceptedAtStop

GoneInv ==
    /\ worker \in {"finish", "flush", "done"} => stopped
    /\ worker \in {"abandon", "abandoned"} => io = "failed" /\ recorded = <<>>
    /\ worker \in {"first", "firstBlock", "checkFirst", "create", "header", "firstWrite", "open"}
          => recorded = <<>>

(* After stopped is set at most one more frame is accepted: WriteFrame reads
   stopped and then sends without the lock, and only a WriteFrame that was
   between the two can still get in. *)
THEOREM LateFramesAreFew == Spec => []FewLateFrames
<1>1. Init => LateInv
  BY DEF Init, LateInv
<1>2. DataOK /\ LateInv /\ [Next]_vars => LateInv'
  <2> SUFFICES ASSUME DataOK, LateInv, [Next]_vars PROVE LateInv'
    OBVIOUS
  <2> USE DEF flags, pollerVars, fileVars, LateInv
  <2>1. /\ Len(accepted) \in Nat /\ acceptedAtStop \in Nat /\ accepted \in Seq(Frame)
        /\ offer \in Frame
    BY LenProperties DEF DataOK
  <2>2. CASE TapeNext \/ NevrCapNext \/ EchoReplayNext \/ Finish
    <3>1. UNCHANGED <<stopped, acceptedAtStop, accepted, offer>>
      <4>1. CASE TapeNext
        BY <4>1 DEF TapeNext, TapeFirstPriority, TapeFirstBlock, TapeAcceptFirst,
           TapeCreate, TapeHeader, TapeFirstFrame, TapeAbandon,
           TapePriority, TapeBlock, TapeAccept, TapeWrite, Receive, SeesDone, GiveUpFrame
      <4>2. CASE NevrCapNext \/ EchoReplayNext \/ Finish
        BY <4>2 DEF NevrCapNext, NevrCapOpen, NevrCapSelect, NevrCapWrite, EchoReplayNext,
           EchoReplayOpen, EchoReplaySelect, EchoReplayWrite, EchoReplayFlush, Receive,
           SeesDone, GiveUpFrame, Finish
      <4> QED
        BY <2>2, <4>1, <4>2
    <3> QED
      BY <3>1
  <2>3. CASE WorkerCancels \/ \E c \in Closers : CloseCancels(c)
    BY <2>3 DEF WorkerCancels, CloseCancels, CancelCtx
  <2>4. CASE WorkerStops \/ \E c \in Closers : CloseStops(c)
    BY <2>1, <2>4 DEF WorkerStops, CloseStops, SetStopped
  <2>5. ASSUME NEW sid \in SessionIds \cup {NoSession}, WriteFrame(sid) PROVE LateInv'
    BY <2>5 DEF WriteFrame
  <2>6. CASE Enqueue
    <3>1. Len(accepted') = Len(accepted) + 1
      BY <2>1, <2>6, AppendFacts DEF Enqueue
    <3> QED
      BY <2>1, <2>6, <3>1 DEF Enqueue
  <2>7. CASE Refuse
    BY <2>7 DEF Refuse
  <2>8. CASE UNCHANGED vars
    BY <2>8 DEF vars
  <2> QED
    BY <2>2, <2>3, <2>4, <2>5, <2>6, <2>7, <2>8 DEF Next, Worker, Poller
<1>3. LateInv => FewLateFrames
  BY DEF LateInv, FewLateFrames
<1> QED
  BY <1>1, <1>2, <1>3, DataTyped, PTL DEF Spec

(* A worker that is gone has left the session stopped, so the scan loop sees
   it, with one exception: a failure while the file was being started, after
   which nothing is in the file. *)
THEOREM GoneSessionsAreStopped == Spec => []GoneMeansStopped
<1>1. Init => GoneInv
  BY DEF Init, GoneInv
<1>2. GoneInv /\ [Next]_vars => GoneInv'
  <2> SUFFICES ASSUME GoneInv, [Next]_vars PROVE GoneInv'
    OBVIOUS
  <2> USE DEF flags, pollerVars, fileVars, GoneInv
  <2>1. CASE TapeNext
    BY <2>1 DEF TapeNext, TapeFirstPriority, TapeFirstBlock, TapeAcceptFirst,
       TapeCreate, TapeHeader, TapeFirstFrame, TapeAbandon,
       TapePriority, TapeBlock, TapeAccept, TapeWrite, Receive, SeesDone, GiveUpFrame
  <2>2. CASE NevrCapNext
    BY <2>2 DEF NevrCapNext, NevrCapOpen, NevrCapSelect, NevrCapWrite, Receive, SeesDone,
       GiveUpFrame
  <2>3. CASE EchoReplayNext
    BY <2>3 DEF EchoReplayNext, EchoReplayOpen, EchoReplaySelect, EchoReplayWrite,
       EchoReplayFlush, FlushBuffer, Receive, SeesDone, GiveUpFrame
  <2>4. CASE WorkerCancels \/ WorkerStops \/ Finish
    BY <2>4 DEF WorkerCancels, CancelCtx, WorkerStops, SetStopped, Finish
  <2>5. CASE Poller
    BY <2>5 DEF Poller, WriteFrame, Enqueue, Refuse
  <2>6. CASE \E c \in Closers : CloseCancels(c) \/ CloseStops(c)
    BY <2>6 DEF CloseCancels, CloseStops, CancelCtx, SetStopped
  <2>7. CASE UNCHANGED vars
    BY <2>7 DEF vars
  <2> QED
    BY <2>1, <2>2, <2>3, <2>4, <2>5, <2>6, <2>7 DEF Next, Worker
<1>3. GoneInv => GoneMeansStopped
  BY DEF GoneInv, GoneMeansStopped, Ended
<1> QED
  BY <1>1, <1>2, <1>3, PTL DEF Spec

----------------------------------------------------------------------------
(***************************************************************************)
(* Completeness.  As long as nobody closes the session from outside, only  *)
(* the worker itself cancels and stops it, after its loop.  So a worker    *)
(* that has left its loop with no failure can only have done so because    *)
(* the frame in hand was another match's: that frame was the last it took, *)
(* and all that came before it is in the file or still in the buffer.      *)
(***************************************************************************)
Unclosed == \A c \in Closers : closer[c] = "open"
Leaving == {"close", "closing", "flush", "finish", "done"}

AloneInv ==
    Unclosed => /\ ctxDone => worker \in {"closing", "flush", "finish", "done"}
                /\ stopped => worker \in {"flush", "finish", "done"}

LeftInv ==
    Unclosed /\ io = "ok" /\ worker \in Leaving =>
        Taken >= 1 /\ Saved = Taken - 1 /\ ~IsOwn(accepted[Taken])

FlushedInv == io = "ok" /\ worker \in {"finish", "done"} => buf = <<>>

CompleteInv == AloneInv /\ LeftInv /\ FlushedInv

DeferredInv ==
    format = "tape" /\ io = "ok" /\ disk # "absent" /\ recorded = <<>>
        => worker \in {"header", "firstWrite"}

(* The context and the flag belong to the worker while nobody closes. *)
LEMMA AloneStep == DataOK /\ AloneInv /\ [Next]_vars => AloneInv'
<1> SUFFICES ASSUME DataOK, AloneInv, [Next]_vars PROVE AloneInv'
  OBVIOUS
<1> USE DEF flags, pollerVars, fileVars, AloneInv, Unclosed
<1>1. CASE TapeNext
  BY <1>1 DEF TapeNext, TapeFirstPriority, TapeFirstBlock, TapeAcceptFirst,
     TapeCreate, TapeHeader, TapeFirstFrame, TapeAbandon,
     TapePriority, TapeBlock, TapeAccept, TapeWrite, Receive, SeesDone, GiveUpFrame
<1>2. CASE NevrCapNext
  BY <1>2 DEF NevrCapNext, NevrCapOpen, NevrCapSelect, NevrCapWrite, Receive, SeesDone,
     GiveUpFrame
<1>3. CASE EchoReplayNext
  BY <1>3 DEF EchoReplayNext, EchoReplayOpen, EchoReplaySelect, EchoReplayWrite,
     EchoReplayFlush, FlushBuffer, Receive, SeesDone, GiveUpFrame
<1>4. CASE WorkerCancels
  BY <1>4 DEF WorkerCancels, CancelCtx
<1>5. CASE WorkerStops
  BY <1>5 DEF WorkerStops, SetStopped
<1>6. CASE Finish
  <2>1. UNCHANGED <<closer, ctxDone, stopped>>
    BY <1>6 DEF Finish
  <2>2. \/ worker = "finish" /\ worker' = "done"
        \/ worker = "abandon" /\ worker' = "abandoned"
    <3>1. /\ worker = "finish" \/ worker = "abandon"
          /\ worker' = IF worker = "finish" THEN "done" ELSE "abandoned"
      BY <1>6, Zenon DEF Finish
    <3> QED
      BY <3>1
  <2> QED
    BY <2>1, <2>2
<1>7. CASE Poller
  BY <1>7 DEF Poller, WriteFrame, Enqueue, Refuse
<1>8. CASE UNCHANGED vars
  BY <1>8 DEF vars
<1>9. ASSUME NEW c \in Closers, CloseCancels(c) \/ CloseStops(c) PROVE AloneInv'
  <2>1. closer'[c] # "open"
    BY <1>9 DEF CloseCancels, CloseStops, DataOK
  <2> QED
    BY <2>1
<1> QED
  BY <1>1, <1>2, <1>3, <1>4, <1>5, <1>6, <1>7, <1>8, <1>9 DEF Next, Worker

(* How a worker gets past its loop in a session that nobody closes and that
   has not failed: it gives up the frame in hand, which is another match's. *)
LEMMA LeavesLoop ==
    ASSUME DataOK, AloneInv, [Next]_vars, Unclosed', io' = "ok", worker' \in Leaving
    PROVE  /\ Unclosed /\ io = "ok"
           /\ worker \in Leaving \/ (worker \in {"check", "checkFirst"} /\ Rests /\ ~IsOwn(hand))
<1> USE DEF flags, pollerVars, fileVars, Leaving
<1>a. Session # NoSession
  BY SessionAssumption DEF SessionAssumption
<1>1. ASSUME NEW from \in {"checkFirst", "check"}, GiveUpFrame(from), Unclosed
      PROVE  Rests /\ ~IsOwn(hand)
  <2>1. ~stopped
    BY <1>1 DEF AloneInv, GiveUpFrame
  <2> QED
    BY <1>1, <1>a, <2>1 DEF GiveUpFrame, Unwanted, IsOwn, Rests, Past, Ended
<1>2. ASSUME NEW from \in Idle, SeesDone(from), Unclosed PROVE FALSE
  BY <1>2 DEF SeesDone, AloneInv, Idle
<1>3. CASE TapeNext
  <2>1. Unclosed
    BY <1>3 DEF TapeNext, TapeFirstPriority, TapeFirstBlock, TapeAcceptFirst,
       TapeCreate, TapeHeader, TapeFirstFrame, TapeAbandon,
       TapePriority, TapeBlock, TapeAccept, TapeWrite, Receive, SeesDone, GiveUpFrame, Unclosed
  <2>2. CASE GiveUpFrame("checkFirst") \/ GiveUpFrame("check")
    BY <2>1, <2>2, <1>1 DEF GiveUpFrame
  <2>3. CASE ~(GiveUpFrame("checkFirst") \/ GiveUpFrame("check"))
    <3>1. ~SeesDone("firstBlock") /\ ~SeesDone("block")
      BY <1>2, <2>1 DEF Idle
    <3> QED
      BY <1>3, <2>1, <2>3, <3>1 DEF TapeNext, TapeFirstPriority, TapeFirstBlock,
         TapeAcceptFirst, TapeCreate, TapeHeader, TapeFirstFrame, TapeAbandon,
         TapePriority, TapeBlock, TapeAccept, TapeWrite, Receive
  <2> QED
    BY <2>2, <2>3
<1>4. CASE NevrCapNext
  <2>1. Unclosed
    BY <1>4 DEF NevrCapNext, NevrCapOpen, NevrCapSelect, NevrCapWrite, Receive, SeesDone,
       GiveUpFrame, Unclosed
  <2>2. CASE GiveUpFrame("check")
    BY <2>1, <2>2, <1>1 DEF GiveUpFrame
  <2>3. CASE ~GiveUpFrame("check")
    <3>1. ~SeesDone("select")
      BY <1>2, <2>1 DEF Idle
    <3> QED
      BY <1>4, <2>1, <2>3, <3>1 DEF NevrCapNext, NevrCapOpen, NevrCapSelect, NevrCapWrite,
         Receive
  <2> QED
    BY <2>2, <2>3
<1>5. CASE EchoReplayNext
  <2>1. Unclosed
    BY <1>5 DEF EchoReplayNext, EchoReplayOpen, EchoReplaySelect, EchoReplayWrite,
       EchoReplayFlush, Receive, SeesDone, GiveUpFrame, Unclosed
  <2>2. CASE GiveUpFrame("check")
    BY <2>1, <2>2, <1>1 DEF GiveUpFrame
  <2>3. CASE ~GiveUpFrame("check")
    <3>1. ~SeesDone("select")
      BY <1>2, <2>1 DEF Idle
    <3> QED
      BY <1>5, <2>1, <2>3, <3>1 DEF EchoReplayNext, EchoReplayOpen, EchoReplaySelect,
         EchoReplayWrite, EchoReplayFlush, Receive
  <2> QED
    BY <2>2, <2>3
<1>6. CASE WorkerCancels \/ WorkerStops \/ Finish
  BY <1>6 DEF WorkerCancels, WorkerStops, Finish, Unclosed
<1>7. CASE Poller
  BY <1>7 DEF Poller, WriteFrame, Enqueue, Refuse, Unclosed
<1>8. ASSUME NEW c \in Closers, CloseCancels(c) \/ CloseStops(c) PROVE FALSE
  <2>1. closer'[c] # "open"
    BY <1>8 DEF CloseCancels, CloseStops, DataOK
  <2> QED
    BY <2>1 DEF Unclosed
<1>9. CASE UNCHANGED vars
  BY <1>9 DEF vars, Unclosed
<1> QED
  BY <1>3, <1>4, <1>5, <1>6, <1>7, <1>8, <1>9 DEF Next, Worker

(* What such a worker leaves behind does not change any more: the frame that
   ended the loop stays the last one taken, and a flush moves frames from the
   buffer to the file. *)
LEMMA LeftStep ==
    ASSUME DataOK, DataOK', IInv, AloneInv, LeftInv, [Next]_vars
    PROVE  LeftInv'
<1> SUFFICES ASSUME Unclosed', io' = "ok", worker' \in Leaving
             PROVE  (Taken >= 1 /\ Saved = Taken - 1 /\ ~IsOwn(accepted[Taken]))'
  BY DEF LeftInv
<1> USE DEF Idle, Chosen, Holding, Leaving
<1>1. /\ Taken \in 0 .. Len(accepted) /\ Len(accepted) \in Nat
      /\ recorded \in Seq(Frame) /\ buf \in Seq(Frame)
      /\ Len(recorded) \in Nat /\ Len(buf) \in Nat
  BY TakenStep, LenProperties DEF DataOK, IInv
<1>2. CASE worker \in Leaving
  <2>1. Taken >= 1 /\ Saved = Taken - 1 /\ ~IsOwn(accepted[Taken])
    BY <1>2, LeavesLoop DEF LeftInv
  <2>2. Taken' = Taken /\ accepted'[Taken] = accepted[Taken]
    BY <1>1, <1>2, <2>1, StepShapes, TakenStep DEF IInv, Takes, Saves
  <2>3. Saved' = Saved
    <3>1. CASE Accepts \/ Rests
      BY <3>1 DEF Accepts, Rests, Saved
    <3>2. CASE Flushes
      <4>1. recorded' = recorded \o buf /\ buf' = <<>> /\ Len(buf') = 0
        BY <3>2, EmptySeq DEF Flushes
      <4>2. Len(recorded \o buf) = Len(recorded) + Len(buf)
        BY <1>1, ConcatProperties
      <4> QED
        BY <1>1, <4>1, <4>2 DEF Saved
    <3> QED
      BY <1>2, <3>1, <3>2, StepShapes DEF Takes, Saves
  <2> QED
    BY <2>1, <2>2, <2>3 DEF IsOwn
<1>3. CASE worker \in {"check", "checkFirst"} /\ Rests /\ ~IsOwn(hand)
  <2>1. Taken >= 1 /\ hand = accepted[Taken] /\ Saved = Taken - 1
    BY <1>3 DEF IInv, HandInv, FileInv
  <2>2. Taken' = Taken /\ accepted' = accepted
    BY <1>3, TakenStep DEF IInv
  <2>3. Saved' = Saved
    BY <1>3 DEF Rests, Saved
  <2> QED
    BY <1>3, <2>1, <2>2, <2>3 DEF IsOwn
<1> QED
  BY <1>2, <1>3, LeavesLoop

(* The buffer is empty once the flush after the loop has gone well. *)
LEMMA FlushedStep ==
    ASSUME DataOK, FileInv, FlushedInv, [Next]_vars
    PROVE  FlushedInv'
<1> USE DEF flags, pollerVars, fileVars, FlushedInv
<1>1. CASE TapeNext
  BY <1>1 DEF TapeNext, TapeFirstPriority, TapeFirstBlock, TapeAcceptFirst,
     TapeCreate, TapeHeader, TapeFirstFrame, TapeAbandon,
     TapePriority, TapeBlock, TapeAccept, TapeWrite, Receive, SeesDone, GiveUpFrame
<1>2. CASE NevrCapNext
  BY <1>2 DEF NevrCapNext, NevrCapOpen, NevrCapSelect, NevrCapWrite, Receive, SeesDone,
     GiveUpFrame
<1>3. CASE EchoReplayNext
  BY <1>3 DEF EchoReplayNext, EchoReplayOpen, EchoReplaySelect, EchoReplayWrite,
     EchoReplayFlush, FlushBuffer, Receive, SeesDone, GiveUpFrame
<1>4. CASE WorkerCancels \/ WorkerStops
  BY <1>4 DEF WorkerCancels, WorkerStops, FileInv
<1>5. CASE Finish
  <2>1. /\ worker = "finish" \/ worker' = "abandoned"
        /\ buf' = buf /\ (io' = io \/ io' = "failed")
    BY <1>5, Zenon DEF Finish
  <2> QED
    BY <2>1
<1>6. CASE Poller
  BY <1>6 DEF Poller, WriteFrame, Enqueue, Refuse
<1>7. CASE \E c \in Closers : CloseCancels(c) \/ CloseStops(c)
  BY <1>7 DEF CloseCancels, CloseStops
<1>8. CASE UNCHANGED vars
  BY <1>8 DEF vars
<1> QED
  BY <1>1, <1>2, <1>3, <1>4, <1>5, <1>6, <1>7, <1>8 DEF Next, Worker

(* A worker that ends because the match changed, with no failing disk and
   nobody closing it from outside, has recorded every frame that came before
   the change, whatever the poller goes on to offer. *)
THEOREM MatchesAreComplete == Spec => []MatchIsComplete
<1>1. Init => CompleteInv
  BY DEF Init, CompleteInv, AloneInv, LeftInv, FlushedInv, Leaving
<1>2. DataOK /\ DataOK' /\ IInv /\ CompleteInv /\ [Next]_vars => CompleteInv'
  BY AloneStep, LeftStep, FlushedStep DEF IInv, CompleteInv
<1>3. DataOK /\ IInv /\ CompleteInv => MatchIsComplete
  <2> SUFFICES ASSUME DataOK, IInv, CompleteInv, worker = "done", io = "ok", Unclosed
               PROVE  Len(recorded) = OwnPrefix
    BY DEF MatchIsComplete, Unclosed
  <2> DEFINE Foreign == {i \in 1 .. Len(accepted) : ~IsOwn(accepted[i])}
  <2>1. /\ Len(recorded) \in Nat /\ Len(accepted) \in Nat /\ Len(outgoingCh) \in Nat
    BY LenProperties DEF DataOK
  <2>2. buf = <<>> /\ Len(buf) = 0
    BY EmptySeq DEF CompleteInv, FlushedInv
  <2>3. Taken >= 1 /\ Len(recorded) = Taken - 1 /\ ~IsOwn(accepted[Taken])
    BY <2>1, <2>2 DEF CompleteInv, LeftInv, Leaving, Saved
  <2>4. Taken \in 1 .. Len(accepted)
    BY <2>1, <2>3 DEF Taken
  <2>5. Taken \in Foreign
    BY <2>3, <2>4
  <2>6. \A j \in Foreign : Taken <= j
    <3> SUFFICES ASSUME NEW j \in Foreign, j < Taken PROVE FALSE
      BY <2>1, <2>4
    <3>1. j \in 1 .. Len(recorded)
      BY <2>1, <2>3, <2>4
    <3> QED
      BY <3>1 DEF IInv, FileInv
  <2>7. (CHOOSE i \in Foreign : \A j \in Foreign : i <= j) = Taken
    <3> DEFINE k == CHOOSE i \in Foreign : \A j \in Foreign : i <= j
    <3>1. k \in Foreign /\ \A j \in Foreign : k <= j
      BY <2>5, <2>6, Zenon
    <3>2. k <= Taken /\ Taken <= k /\ k \in Nat
      BY <2>5, <2>6, <3>1
    <3> QED
      BY <2>4, <3>2
  <2>8. OwnPrefix = Taken - 1
    BY <2>5, <2>7 DEF OwnPrefix
  <2> QED
    BY <2>3, <2>8
<1> QED
  BY <1>1, <1>2, <1>3, DataTyped, Invariance, PTL DEF Spec

(* A tape without a frame is there only between the creation and the first
   frame, and then the worker holds that frame: as it has saved one frame
   less than it has taken, and saved none, it has taken exactly one. *)
THEOREM TapesAreDeferred == Spec => []TapeIsDeferred
<1>1. Init => DeferredInv
  BY DEF Init, DeferredInv
<1>2. DataOK /\ DeferredInv /\ [Next]_vars => DeferredInv'
  <2> SUFFICES ASSUME DataOK, DeferredInv, [Next]_vars PROVE DeferredInv'
    OBVIOUS
  <2> USE DEF flags, pollerVars, fileVars, DeferredInv
  <2>1. Append(recorded, hand) # <<>>
    <3>1. recorded \in Seq(Frame) /\ hand \in Frame
      BY DEF DataOK
    <3> QED
      BY <3>1, AppendProperties
  <2>2. CASE TapeNext
    <3>1. CASE TapeFirstFrame \/ TapeWrite
      BY <2>1, <3>1 DEF TapeFirstFrame, TapeAbandon, TapeWrite
    <3>2. CASE TapeCreate \/ TapeHeader
      BY <3>2 DEF TapeCreate, TapeHeader, TapeAbandon
    <3>3. CASE ~(TapeFirstFrame \/ TapeWrite \/ TapeCreate \/ TapeHeader)
      BY <2>2, <3>3 DEF TapeNext, TapeFirstPriority, TapeFirstBlock, TapeAcceptFirst,
         TapePriority, TapeBlock, TapeAccept, Receive, SeesDone, GiveUpFrame
    <3> QED
      BY <3>1, <3>2, <3>3
  <2>3. CASE NevrCapNext \/ EchoReplayNext
    BY <2>3, StepShapes DEF NevrCapNext, EchoReplayNext
  <2>4. CASE WorkerCancels \/ WorkerStops
    BY <2>4 DEF WorkerCancels, WorkerStops
  <2>5. CASE Finish
    <3>1. /\ recorded' = recorded /\ format' = format /\ worker \notin {"header", "firstWrite"}
          /\ \/ disk' = (IF disk = "open" THEN "sealed" ELSE disk) /\ io' = io
             \/ io' = "failed"
      BY <2>5, Zenon DEF Finish
    <3> QED
      BY <3>1
  <2>6. CASE Poller
    BY <2>6 DEF Poller, WriteFrame, Enqueue, Refuse
  <2>7. CASE \E c \in Closers : CloseCancels(c) \/ CloseStops(c)
    BY <2>7 DEF CloseCancels, CloseStops
  <2>8. CASE UNCHANGED vars
    BY <2>8 DEF vars
  <2> QED
    BY <2>2, <2>3, <2>4, <2>5, <2>6, <2>7, <2>8 DEF Next, Worker
<1>3. DataOK /\ IInv /\ DeferredInv => TapeIsDeferred
  <2> SUFFICES ASSUME DataOK, IInv, worker \in {"header", "firstWrite"},
                      format = "tape", recorded = <<>>
               PROVE  accepted # <<>> /\ hand = accepted[1] /\ IsOwn(hand)
    BY DEF DeferredInv, TapeIsDeferred
  <2>1. /\ Len(recorded) = 0 /\ Len(buf) = 0
        /\ Len(accepted) \in Nat /\ Len(outgoingCh) \in Nat
        /\ accepted = <<>> => Len(accepted) = 0
    BY EmptySeq, LenProperties DEF DataOK, IInv, FileInv
  <2>2. Taken >= 1 /\ hand = accepted[Taken] /\ IsOwn(hand)
    BY DEF IInv, HandInv, Holding, Chosen
  <2>3. Taken - 1 = 0 /\ Taken \in Int
    BY <2>1 DEF IInv, FileInv, Holding, Chosen, Saved, Taken
  <2>4. Taken = 1 /\ Len(accepted) >= 1
    BY <2>1, <2>3 DEF Taken
  <2> QED
    BY <2>1, <2>2, <2>4
<1> QED
  BY <1>1, <1>2, <1>3, DataTyped, Invariance, PTL DEF Spec
=============================================================================
