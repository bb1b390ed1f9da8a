----------------------------- MODULE TapeWriter -----------------------------
(***************************************************************************)
(* TapeLogSession.ProcessFrames: wait for a first frame with the right     *)
(* session ID, only then create the file, write the header and that frame, *)
(* each a file operation of its own, then loop.  Both receives are a       *)
(* priority select: look at the channel first ("first", "poll"), block on  *)
(* channel and context only if it was empty ("firstBlock", "block").       *)
(***************************************************************************)
EXTENDS FileSession

(* Mutant: the file is created before the first frame is there. *)
TapeFirstEager ==
    \/ Receive("first", "checkFirst")
    \/ /\ worker = "first" /\ outgoingCh = <<>>
       /\ worker' = "firstBlock" /\ disk' = "open"
       /\ UNCHANGED <<format, flags, outgoingCh, pollerVars, closer, hand, buf, recorded, io>>

TapeFirstPriority ==
    \/ Receive("first", "checkFirst")
    \/ /\ worker = "first" /\ outgoingCh = <<>>
       /\ worker' = "firstBlock"
       /\ UNCHANGED <<format, flags, outgoingCh, pollerVars, closer, hand, fileVars>>

TapeFirstBlock == Receive("firstBlock", "checkFirst") \/ SeesDone("firstBlock")

TapeAcceptFirst ==
    /\ worker = "checkFirst"
    /\ ~Unwanted
    /\ worker' = "create"
    /\ UNCHANGED <<format, flags, outgoingCh, pollerVars, closer, hand, fileVars>>

(* codec.NewWriter: the file is there.  Only this failure closes the session. *)
TapeCreate ==
    /\ worker = "create"
    /\ \/ worker' = "header" /\ disk' = "open" /\ UNCHANGED <<hand, io>>
       \/ worker' = "close" /\ io' = "failed" /\ hand' = NoFrame /\ UNCHANGED disk
    /\ UNCHANGED <<format, flags, outgoingCh, pollerVars, closer, buf, recorded>>

(* A failed header or first frame returns without Close. *)
TapeAbandon ==
    /\ worker' = "abandon" /\ io' = "failed" /\ hand' = NoFrame
    /\ UNCHANGED recorded

TapeHeader ==
    /\ worker = "header"
    /\ \/ TapeAbandon
       \/ worker' = "firstWrite" /\ UNCHANGED <<hand, recorded, io>>
    /\ UNCHANGED <<format, flags, outgoingCh, pollerVars, closer, buf, disk>>

TapeFirstFrame ==
    /\ worker = "firstWrite"
    /\ \/ TapeAbandon
       \/ /\ worker' = "poll" /\ hand' = NoFrame
          /\ recorded' = Append(recorded, hand)
          /\ UNCHANGED io
    /\ UNCHANGED <<format, flags, outgoingCh, pollerVars, closer, buf, disk>>

TapePriority ==
    \/ Receive("poll", "check")
    \/ /\ worker = "poll" /\ outgoingCh = <<>>
       /\ worker' = "block"
       /\ UNCHANGED <<format, flags, outgoingCh, pollerVars, closer, hand, fileVars>>

(* Mutant: the inner select waits for the context only. *)
TapeBlockDeaf == SeesDone("block")

TapeBlock == Receive("block", "check") \/ SeesDone("block")

(* stopped is read under the lock; mapping and writing are outside it. *)
TapeAccept ==
    /\ worker = "check"
    /\ ~Unwanted
    /\ worker' = "write"
    /\ UNCHANGED <<format, flags, outgoingCh, pollerVars, closer, hand, fileVars>>

TapeWrite ==
    /\ worker = "write"
    /\ hand' = NoFrame
    /\ \/ /\ recorded' = Append(recorded, hand)
          /\ worker' = "poll"
          /\ UNCHANGED io
       \/ /\ io' = "failed"
          /\ worker' = "close"
          /\ UNCHANGED recorded
    /\ UNCHANGED <<format, flags, outgoingCh, pollerVars, closer, buf, disk>>

TapeNext ==
    /\ format = "tape"
    /\ \/ TapeFirstPriority \/ TapeFirstBlock
       \/ TapeAcceptFirst \/ GiveUpFrame("checkFirst")
       \/ TapeCreate \/ TapeHeader \/ TapeFirstFrame
       \/ TapePriority \/ TapeBlock
       \/ TapeAccept \/ GiveUpFrame("check") \/ TapeWrite
=============================================================================
