-------------------------- MODULE EchoReplayWriter --------------------------
(***************************************************************************)
(* FrameDataLogSession.ProcessFrames: frames collect in a memory buffer    *)
(* that goes to the zip entry whenever it has reached zipFileChunkSize,    *)
(* and once more after the loop.                                           *)
(***************************************************************************)
EXTENDS FileSession

(* os.Create, zw.Create and NewEchoReplayWriter; a failure returns without
   Close. *)
EchoReplayOpen ==
    /\ worker = "open"
    /\ \/ /\ worker' = "select" /\ disk' = "open"
          /\ UNCHANGED io
       \/ /\ worker' = "abandon" /\ io' = "failed"
          /\ disk' \in {"absent", "open"}
    /\ UNCHANGED <<format, flags, outgoingCh, pollerVars, closer, hand, buf, recorded>>

EchoReplaySelect == Receive("select", "check") \/ SeesDone("select")

(* Mutant: the buffer is written but not reset. *)
FlushWithoutReset(frames) ==
    /\ recorded' = recorded \o frames
    /\ buf' = frames

(* The buffer written to the zip entry and reset. *)
FlushBuffer(frames) ==
    /\ recorded' = recorded \o frames
    /\ buf' = <<>>

(* Frames differ in size, so any of them may be the one that fills a chunk.
   A failed chunk write leaves the frames in the buffer. *)
EchoReplayWrite ==
    /\ worker = "check"
    /\ ~Unwanted
    /\ hand' = NoFrame
    /\ \/ /\ buf' = Append(buf, hand)
          /\ worker' = "select"
          /\ UNCHANGED <<recorded, io>>
       \/ /\ FlushBuffer(Append(buf, hand))
          /\ worker' = "select"
          /\ UNCHANGED io
       \/ /\ buf' = Append(buf, hand)
          /\ worker' = "close"
          /\ io' = "failed"
          /\ UNCHANGED recorded
    /\ UNCHANGED <<format, flags, outgoingCh, pollerVars, closer, disk>>

(* Mutant: the data left in the buffer is not written at the end. *)
EchoReplaySkipsFlush ==
    /\ worker = "flush"
    /\ worker' = "finish"
    /\ UNCHANGED <<buf, recorded, io>>
    /\ UNCHANGED <<format, flags, outgoingCh, pollerVars, closer, hand, disk>>

(* The remaining data, after Close.  The deflate stream remembers an earlier
   error, so a flush after a failed chunk write fails too. *)
EchoReplayFlush ==
    /\ worker = "flush"
    /\ worker' = "finish"
    /\ \/ buf = <<>> /\ UNCHANGED <<buf, recorded, io>>
       \/ buf # <<>> /\ io = "ok" /\ FlushBuffer(buf) /\ UNCHANGED io
       \/ buf # <<>> /\ io' = "failed" /\ UNCHANGED <<buf, recorded>>
    /\ UNCHANGED <<format, flags, outgoingCh, pollerVars, closer, hand, disk>>

EchoReplayNext ==
    /\ format = "echoreplay"
    /\ \/ EchoReplayOpen \/ EchoReplaySelect \/ GiveUpFrame("check")
       \/ EchoReplayWrite \/ EchoReplayFlush
=============================================================================
