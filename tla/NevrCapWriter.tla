--------------------------- MODULE NevrCapWriter ---------------------------
(***************************************************************************)
(* NevrCapLogSession.ProcessFrames: create the file and its header before  *)
(* any frame, then one plain select per iteration; a frame is checked and  *)
(* written under the session's lock.                                       *)
(***************************************************************************)
EXTENDS FileSession

(* NewLegacyWriter and WriteHeader.  Either failure returns without Close. *)
NevrCapOpen ==
    /\ worker = "open"
    /\ \/ /\ worker' = "select" /\ disk' = "open"
          /\ UNCHANGED io
       \/ /\ worker' = "abandon" /\ io' = "failed"
          /\ disk' \in {"absent", "open"}
    /\ UNCHANGED <<format, flags, outgoingCh, pollerVars, closer, hand, buf, recorded>>

(* Mutant: the select without its ctx.Done() case. *)
NevrCapSelectDeaf == Receive("select", "check")

(* Go picks at random when both cases of the select are ready. *)
NevrCapSelect == Receive("select", "check") \/ SeesDone("select")

NevrCapWrite ==
    /\ worker = "check"
    /\ ~Unwanted
    /\ hand' = NoFrame
    /\ \/ /\ recorded' = Append(recorded, hand)
          /\ worker' = "select"
          /\ UNCHANGED io
       \/ /\ io' = "failed"
          /\ worker' = "close"
          /\ UNCHANGED recorded
    /\ UNCHANGED <<format, flags, outgoingCh, pollerVars, closer, buf, disk>>

NevrCapNext ==
    /\ format = "nevrcap"
    /\ NevrCapOpen \/ NevrCapSelect \/ GiveUpFrame("check") \/ NevrCapWrite
=============================================================================
