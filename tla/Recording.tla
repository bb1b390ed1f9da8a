----------------------------- MODULE Recording -----------------------------
(***************************************************************************)
(* What a recording of one session promises, whatever the file format:     *)
(* frames are accepted in some order; the file holds an initial piece of   *)
(* that order, of this session's frames only, and only grows; once it is   *)
(* sealed it never changes.  Which accepted frames are never recorded, and *)
(* when, is left open.                                                     *)
(***************************************************************************)
EXTENDS Naturals, Sequences

CONSTANTS Frames,  \* the frames there are
          Own(_)   \* whether a frame belongs to the session recorded

VARIABLES accepted, recorded, sealed

Init == accepted = <<>> /\ recorded = <<>> /\ sealed = FALSE

Accept ==
    /\ \E f \in Frames : accepted' = Append(accepted, f)
    /\ UNCHANGED <<recorded, sealed>>

(* The file grows to the first k accepted frames. *)
Record ==
    /\ ~sealed
    /\ \E k \in Len(recorded) + 1 .. Len(accepted) :
          /\ \A i \in 1 .. k : Own(accepted[i])
          /\ recorded' = SubSeq(accepted, 1, k)
    /\ UNCHANGED <<accepted, sealed>>

Seal ==
    /\ ~sealed
    /\ sealed' = TRUE
    /\ UNCHANGED <<accepted, recorded>>

Next == Accept \/ Record \/ Seal

Spec == Init /\ [][Next]_<<accepted, recorded, sealed>>
=============================================================================
