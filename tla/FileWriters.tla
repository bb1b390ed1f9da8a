---------------------------- MODULE FileWriters ----------------------------
(***************************************************************************)
(* One log session of any of the three formats with the goroutines around  *)
(* it, the properties of a recording, and the abstract Recording it        *)
(* implements.                                                             *)
(***************************************************************************)
EXTENDS TapeWriter, NevrCapWriter, EchoReplayWriter

Worker ==
    \/ TapeNext \/ NevrCapNext \/ EchoReplayNext
    \/ WorkerCancels \/ WorkerStops \/ Finish

Poller == (\E sid \in SessionIds \cup {NoSession} : WriteFrame(sid)) \/ Enqueue \/ Refuse

Next == Worker \/ Poller \/ \E c \in Closers : CloseCancels(c) \/ CloseStops(c)

(* The goroutines are scheduled: a worker that can move does, a WriteFrame
   that is in its select (which has a default) returns, and a poller inside
   Close leaves it.  Nothing obliges the game to produce frames, the poller
   to stop or the agent to close anything. *)
Fairness ==
    /\ WF_vars(Worker)
    /\ WF_vars(Enqueue \/ Refuse)
    /\ WF_vars(CloseStops("poller"))

Spec == Init /\ [][Next]_vars /\ Fairness

----------------------------------------------------------------------------
Ended == worker \in {"done", "abandoned"}
IsOwn(frame) == frame.sid = Session

(* How many accepted frames come before the first foreign one. *)
OwnPrefix ==
    LET Foreign == {i \in 1 .. Len(accepted) : ~IsOwn(accepted[i])}
    IN  IF Foreign = {} THEN Len(accepted)
        ELSE (CHOOSE i \in Foreign : \A j \in Foreign : i <= j) - 1

Workers == {"first", "firstBlock", "checkFirst", "create", "header", "firstWrite",
            "poll", "block", "open", "select", "check", "write", "close", "closing",
            "flush", "finish", "abandon", "done", "abandoned"}

(* Every variable has the type of the field or local it stands for. *)
FlagsOK == ctxDone \in BOOLEAN /\ stopped \in BOOLEAN

DataOK ==
    /\ format \in Formats
    /\ outgoingCh \in Seq(Frame) /\ Len(outgoingCh) <= ChannelCap
    /\ offered \in 0 .. MaxFrames /\ offer \in Frame
    /\ closer \in [Closers -> {"open", "cancelled", "closed"}]
    /\ worker \in Workers
    /\ hand \in Frame /\ buf \in Seq(Frame) /\ recorded \in Seq(Frame)
    /\ disk \in {"absent", "open", "sealed", "broken"} /\ io \in {"ok", "failed"}
    /\ accepted \in Seq(Frame)
    /\ acceptedAtCancel \in Nat /\ acceptedAtStop \in Nat

TypeOK == FlagsOK /\ DataOK

(* The file never skips, repeats or reorders a frame and never holds another
   match's frame: it is an initial piece of what WriteFrame accepted
   (ProcessFrames of the three writers, whatever Close races with). *)
RecordedIsPrefix ==
    /\ Len(recorded) <= Len(accepted)
    /\ \A i \in 1 .. Len(recorded) : recorded[i] = accepted[i] /\ IsOwn(recorded[i])

(* After stopped is set, at most the one WriteFrame that had already passed
   IsStopped may still be accepted: the check and the send are not atomic,
   but nothing else gets in. *)
FewLateFrames == stopped => Len(accepted) <= acceptedAtStop + 1

(* A worker that ends because the match changed, with no failing disk and
   nobody closing it from outside, has recorded every frame that came before
   the change: nothing is left in the channel or in a buffer. *)
MatchIsComplete ==
    worker = "done" /\ io = "ok" /\ (\A c \in Closers : closer[c] = "open")
        => Len(recorded) = OwnPrefix

(* "The header is deferred until the first frame arrives" (TapeLogSession): as
   long as no operation fails, a tape file without a frame exists only while the
   worker still holds the very frame it was created for, the first one that
   was accepted, and that frame is of the right match.  So a worker that ends
   leaves no empty tape; a process killed between create and first frame does. *)
TapeIsDeferred ==
    format = "tape" /\ disk # "absent" /\ io = "ok" /\ recorded = <<>>
        => accepted # <<>> /\ hand = accepted[1] /\ IsOwn(hand)

(* A worker that has gone leaves the session stopped, so that the scan loop
   replaces it, unless it was one of the failures at the start, which return
   without Close. *)
GoneMeansStopped == Ended /\ ~stopped => worker = "abandoned" /\ io = "failed" /\ recorded = <<>>

(* The session, seen as an abstract recording. *)
R == INSTANCE Recording WITH Frames <- Frame, Own <- IsOwn, sealed <- Ended
ImplementsRecording == R!Spec

(* Once its context is cancelled the worker ends, even if the poller goes on
   offering frames. *)
CancelEndsWorker == ctxDone ~> Ended

(* A frame of another match, once accepted, makes the session stop, so that a
   new one can be opened for that match, unless the worker was abandoned. *)
NewMatchStops ==
    (\E i \in 1 .. Len(accepted) : ~IsOwn(accepted[i])) ~> (stopped \/ worker = "abandoned")

(* An accepted frame does not sit in the channel for ever: it is written, or
   the session ends. *)
FramesAreConsumed == outgoingCh # <<>> ~> (outgoingCh = <<>> \/ Ended)

(* What writer_tape.go says of the priority select of its main loop: "frames
   already in the channel at shutdown are not silently dropped".  The loop
   with a frame of its own match in hand is not left while a frame accepted
   before the context was cancelled is still in the channel. *)
ShutdownKeepsFrames ==
    [][ format = "tape" /\ worker = "check" /\ IsOwn(hand) /\ OwnPrefix = Len(accepted)
            /\ acceptedAtCancel > Len(accepted) - Len(outgoingCh)
        => worker' # "close" ]_vars
=============================================================================
