---------------------------- MODULE FileSession ----------------------------
(***************************************************************************)
(* What the three file writers of internal/agent share: the struct of a    *)
(* log session (context, outgoingCh, stopped), WriteFrame, Close and       *)
(* IsStopped, which writer_tape.go, writer_nevrcap.go and                  *)
(* writer_echoreplay.go repeat word for word.  What differs, ProcessFrames, *)
(* is in TapeWriter, NevrCapWriter and EchoReplayWriter; FileWriters puts  *)
(* them together.                                                          *)
(*                                                                         *)
(* Three goroutines touch one session: the worker that runs ProcessFrames, *)
(* the poller that calls WriteFrame and, when it returns, Close, and the   *)
(* scan loop of the agent, whose context is the parent of the session's    *)
(* and which may call Close on its way out.                                *)
(***************************************************************************)
EXTENDS Naturals, Sequences

CONSTANTS SessionIds,  \* the session UUIDs a game server reports
          Session,     \* the one this writer was created for
          NoSession,   \* the empty session ID
          ChannelCap,  \* capacity of outgoingCh (1000 in the code)
          MaxFrames    \* bound: how many frames the poller offers

ASSUME SessionAssumption ==
    /\ Session \in SessionIds
    /\ NoSession \notin SessionIds
    /\ ChannelCap \in Nat \ {0}
    /\ MaxFrames \in Nat

Formats == {"tape", "nevrcap", "echoreplay"}

(* A frame is the poll that produced it and the session ID it carries. *)
Frame == [n : 0 .. MaxFrames, sid : SessionIds \cup {NoSession}]
NoFrame == [n |-> 0, sid |-> NoSession]

Closers == {"poller", "agent"}

VARIABLES
    format,      \* which writer this is; never changes
    ctxDone,     \* session context cancelled
    stopped,     \* field stopped
    outgoingCh,  \* buffered channel of frames
    offered,     \* frames the poller has offered so far
    offer,       \* frame between WriteFrame's IsStopped and its select
    closer,      \* how far each outside closer is in Close
    worker,      \* program counter of ProcessFrames
    hand,        \* frame the worker has received
    buf,         \* frames in the in-memory buffer (echoreplay only)
    recorded,    \* frames in the file
    disk,        \* the file: absent, open, sealed or broken
    io,          \* "failed" once a file operation has failed (such errors are sticky)
    accepted,    \* history: frames for which WriteFrame returned nil
    acceptedAtCancel, \* history: how many of them when the context was cancelled
    acceptedAtStop    \* history: how many of them when stopped was set

flags == <<ctxDone, stopped, acceptedAtCancel, acceptedAtStop>>
pollerVars == <<offered, offer, accepted>>
fileVars == <<buf, recorded, disk, io>>
vars == <<format, flags, outgoingCh, pollerVars, closer, worker, hand, fileVars>>

(* The struct as the constructor leaves it, and the goroutine just started. *)
Init ==
    /\ format \in Formats
    /\ ctxDone = FALSE /\ stopped = FALSE
    /\ outgoingCh = <<>>
    /\ offered = 0 /\ offer = NoFrame /\ accepted = <<>>
    /\ closer = [c \in Closers |-> "open"]
    /\ worker = (IF format = "tape" THEN "first" ELSE "open")
    /\ hand = NoFrame
    /\ buf = <<>> /\ recorded = <<>> /\ disk = "absent" /\ io = "ok"
    /\ acceptedAtCancel = 0 /\ acceptedAtStop = 0

----------------------------------------------------------------------------
(* The two halves of Close, which take effect one after the other. *)

CancelCtx ==
    /\ ctxDone' = TRUE
    /\ acceptedAtCancel' = IF ctxDone THEN acceptedAtCancel ELSE Len(accepted)
    /\ UNCHANGED <<stopped, acceptedAtStop>>

SetStopped ==
    /\ stopped' = TRUE
    /\ acceptedAtStop' = IF stopped THEN acceptedAtStop ELSE Len(accepted)
    /\ UNCHANGED <<ctxDone, acceptedAtCancel>>

(* The poller closes the session when it returns, never in the middle of a
   WriteFrame.  For the agent the first half is the cancellation of the
   parent context, and the Close that may follow finds it done. *)
CloseCancels(c) ==
    /\ closer[c] = "open"
    /\ c = "poller" => offer = NoFrame
    /\ closer' = [closer EXCEPT ![c] = "cancelled"]
    /\ CancelCtx
    /\ UNCHANGED <<format, outgoingCh, pollerVars, worker, hand, fileVars>>

CloseStops(c) ==
    /\ closer[c] = "cancelled"
    /\ closer' = [closer EXCEPT ![c] = "closed"]
    /\ SetStopped
    /\ UNCHANGED <<format, outgoingCh, pollerVars, worker, hand, fileVars>>

----------------------------------------------------------------------------
(* Mutant: WriteFrame without the IsStopped check. *)
WriteFrameUnchecked(sid) ==
    /\ closer["poller"] = "open" /\ offer = NoFrame
    /\ offered < MaxFrames
    /\ offered' = offered + 1
    /\ offer' = [n |-> offered + 1, sid |-> sid]
    /\ UNCHANGED <<format, flags, outgoingCh, accepted, closer, worker, hand, fileVars>>

(* WriteFrame: IsStopped under the lock, then, unlocked, the select. *)

WriteFrame(sid) ==
    /\ closer["poller"] = "open" /\ offer = NoFrame
    /\ offered < MaxFrames
    /\ offered' = offered + 1
    /\ offer' = IF stopped THEN NoFrame ELSE [n |-> offered + 1, sid |-> sid]
    /\ UNCHANGED <<format, flags, outgoingCh, accepted, closer, worker, hand, fileVars>>

(* Mutant: an unbounded queue instead of the channel. *)
EnqueueUnbounded ==
    /\ offer # NoFrame
    /\ outgoingCh' = Append(outgoingCh, offer)
    /\ accepted' = Append(accepted, offer)
    /\ offer' = NoFrame
    /\ UNCHANGED <<format, flags, offered, closer, worker, hand, fileVars>>

Enqueue ==
    /\ offer # NoFrame
    /\ Len(outgoingCh) < ChannelCap
    /\ outgoingCh' = Append(outgoingCh, offer)
    /\ accepted' = Append(accepted, offer)
    /\ offer' = NoFrame
    /\ UNCHANGED <<format, flags, offered, closer, worker, hand, fileVars>>

(* The context is done, or neither case is ready: an error for the poller. *)
Refuse ==
    /\ offer # NoFrame
    /\ ctxDone \/ Len(outgoingCh) = ChannelCap
    /\ offer' = NoFrame
    /\ UNCHANGED <<format, flags, outgoingCh, offered, accepted, closer, worker, hand, fileVars>>

----------------------------------------------------------------------------
(* What the workers share. *)

Receive(from, to) ==
    /\ worker = from
    /\ outgoingCh # <<>>
    /\ hand' = Head(outgoingCh)
    /\ outgoingCh' = Tail(outgoingCh)
    /\ worker' = to
    /\ UNCHANGED <<format, flags, pollerVars, closer, fileVars>>

SeesDone(from) ==
    /\ worker = from
    /\ ctxDone
    /\ worker' = "close"
    /\ UNCHANGED <<format, flags, outgoingCh, pollerVars, closer, hand, fileVars>>

(* Mutant: the comparison with the session's own ID is missing. *)
UnwantedAnyMatch == stopped \/ hand.sid = NoSession

(* The frame in hand ends the loop: stopped, no session ID, or another's. *)
Unwanted == stopped \/ hand.sid = NoSession \/ hand.sid # Session

(* Mutant: the worker returns without Close. *)
GiveUpWithoutClose(from) ==
    /\ worker = from
    /\ Unwanted
    /\ worker' = "finish"
    /\ hand' = NoFrame
    /\ UNCHANGED <<format, flags, outgoingCh, pollerVars, closer, fileVars>>

GiveUpFrame(from) ==
    /\ worker = from
    /\ Unwanted
    /\ worker' = "close"
    /\ hand' = NoFrame
    /\ UNCHANGED <<format, flags, outgoingCh, pollerVars, closer, fileVars>>

WorkerCancels ==
    /\ worker = "close"
    /\ worker' = "closing"
    /\ CancelCtx
    /\ UNCHANGED <<format, outgoingCh, pollerVars, closer, hand, fileVars>>

WorkerStops ==
    /\ worker = "closing"
    /\ worker' = IF format = "echoreplay" THEN "flush" ELSE "finish"
    /\ SetStopped
    /\ UNCHANGED <<format, outgoingCh, pollerVars, closer, hand, fileVars>>

(* The deferred writer.Close, whose error is only logged.  A return that
   never called Close ends in "abandoned". *)
Finish ==
    /\ worker \in {"finish", "abandon"}
    /\ worker' = IF worker = "finish" THEN "done" ELSE "abandoned"
    /\ \/ disk' = (IF disk = "open" THEN "sealed" ELSE disk) /\ UNCHANGED io
       \/ disk = "open" /\ disk' = "broken" /\ io' = "failed"
    /\ hand' = NoFrame
    /\ UNCHANGED <<format, flags, outgoingCh, pollerVars, closer, buf, recorded>>
=============================================================================
