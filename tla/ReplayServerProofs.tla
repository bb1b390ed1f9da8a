------------------------- MODULE ReplayServerProofs -------------------------
(***************************************************************************)
(* What the replay server answers is consistent, for every playlist and    *)
(* number of clients.                                                      *)
(***************************************************************************)
EXTENDS ReplayServer, SequenceTheorems, TLAPS

(* As much of the type invariant as the arithmetic needs. *)
Numbers ==
    /\ at \in Nat /\ pos \in Nat /\ frameCount \in Nat
    /\ Len(playlist) \in Nat
    /\ isPlaying \in BOOLEAN

Answers == [state : {"none", "snapshot", "answered"}, frame : Nat \X Nat,
            number : Nat, playing : BOOLEAN, flag : BOOLEAN]

Requests == currentFrame \in Nat \X Nat /\ request \in [Clients -> Answers]

(* Before the command nothing has begun. *)
DownInv ==
    /\ playback = "off" <=> server = "down"
    /\ server = "down" =>
          /\ currentFrame = NoFrame /\ frameCount = 0 /\ ~isPlaying /\ at = 1
          /\ \A c \in Clients : request[c].state = "none" /\ request[c].number = 0
    /\ server # "down" => Len(playlist) >= 1

(* How the shared variables follow playback's own.  Between two files the
   number is still that of the file before, and only a whole round ends with
   isPlaying reset. *)
PlaybackInv ==
    /\ playback \in {"read", "publish"} => at <= Len(playlist) /\ isPlaying
    /\ playback = "read" => frameCount = pos
    /\ playback = "publish" => pos = frameCount + 1
    /\ playback = "next" => at <= Len(playlist) + 1
    /\ playback = "next" /\ at > 1 => frameCount = Shown(at - 1) /\ isPlaying

SharedInv ==
    /\ frameCount > 0 => frameCount = currentFrame[2]
    /\ currentFrame # NoFrame /\ ~isPlaying => frameCount = Shown(Len(playlist))

IInv == Numbers /\ Requests /\ DownInv /\ PlaybackInv /\ SharedInv /\ SnapshotIsConsistent

LEMMA InitIInv == ReplayInit => IInv
<1> SUFFICES ASSUME ReplayInit PROVE IInv OBVIOUS
<1> USE DEF ReplayInit
<1>1. Numbers BY DEF Numbers
<1>2. NoFrame \in Nat \X Nat /\ NoRequest \in Answers
  BY DEF NoFrame, NoRequest, Answers
<1>3. Requests BY <1>2 DEF Requests
<1>4. \A c \in Clients : request[c].state = "none" /\ request[c].number = 0
  BY DEF NoRequest
<1>5. DownInv BY <1>4 DEF DownInv
<1>6. PlaybackInv BY DEF PlaybackInv
<1>7. SharedInv BY DEF SharedInv
<1>8. SnapshotIsConsistent
  <2>1. ~(NoRequest.number > 0) /\ NoRequest.state = "none"
    BY ONLY DEF NoRequest
  <2>2. \A c \in Clients : request[c] = NoRequest
    OBVIOUS
  <2> QED BY ONLY <2>1, <2>2, Zenon DEF SnapshotIsConsistent
<1> QED BY <1>1, <1>3, <1>5, <1>6, <1>7, <1>8 DEF IInv

(* The playback goroutine leaves everything else alone. *)
LEMMA PlaybackFrame ==
  ASSUME Playback
  PROVE  UNCHANGED <<server, playlist, looping, request>> /\ Serving
  BY DEF Playback, BeginFile, ReadPlayFrame, Publish, EndFile, EndPass, playbackOnly

LEMMA PlaybackKeepsType ==
  ASSUME IInv, Playback
  PROVE  Numbers' /\ Requests' /\ DownInv'
<1> USE DEF IInv, Numbers, Requests
<1>1. server # "down" BY PlaybackFrame DEF Serving
<1>2. playback' # "off" /\ at' \in Nat /\ pos' \in Nat /\ frameCount' \in Nat
      /\ isPlaying' \in BOOLEAN /\ currentFrame' \in Nat \X Nat
  <2>1. CASE BeginFile BY <2>1 DEF BeginFile
  <2>2. CASE ReadPlayFrame BY <2>2 DEF ReadPlayFrame, shared
  <2>3. CASE Publish BY <2>3 DEF Publish
  <2>4. CASE EndFile BY <2>4 DEF EndFile, shared
  <2>5. CASE EndPass BY <2>5 DEF EndPass
  <2> QED BY <2>1, <2>2, <2>3, <2>4, <2>5 DEF Playback
<1>3. Numbers' /\ Requests' BY <1>2, PlaybackFrame
<1>4. DownInv' BY <1>1, <1>2, PlaybackFrame DEF DownInv
<1> QED BY <1>3, <1>4

LEMMA PlaybackKeepsShared ==
  ASSUME IInv, Playback
  PROVE  PlaybackInv' /\ SharedInv'
<1> USE DEF IInv, Numbers, Requests, PlaybackInv, SharedInv, Shown
<1>0. Len(playlist) >= 1 BY PlaybackFrame DEF DownInv, Serving
<1>1. CASE BeginFile BY <1>1, PlaybackFrame DEF BeginFile
<1>2. CASE ReadPlayFrame BY <1>2, PlaybackFrame DEF ReadPlayFrame, shared
<1>3. CASE Publish BY <1>3, PlaybackFrame DEF Publish
<1>4. CASE EndFile BY <1>4, PlaybackFrame DEF EndFile, shared
<1>5. CASE EndPass
  <2>1. at > 1 /\ at - 1 = Len(playlist) BY <1>0, <1>5 DEF EndPass
  <2> QED BY <1>0, <1>5, <2>1, PlaybackFrame DEF EndPass
<1> QED BY <1>1, <1>2, <1>3, <1>4, <1>5 DEF Playback

LEMMA PlaybackKeepsAnswers ==
  ASSUME IInv, Playback
  PROVE  SnapshotIsConsistent'
  BY PlaybackFrame DEF IInv, SnapshotIsConsistent, Shown

LEMMA StartKeepsIInv ==
  ASSUME IInv, \/ \E list \in Playlists, loop \in BOOLEAN : RunReplayer(list, loop)
               \/ Listen
  PROVE  IInv'
<1>1. CASE Listen
  <2>1. UNCHANGED <<playlist, looping, playback, at, pos, currentFrame, isPlaying, frameCount, request>>
        /\ server # "down" /\ server' # "down"
    BY <1>1 DEF Listen, playing, shared
  <2>2. Numbers' /\ Requests' BY <2>1 DEF IInv, Numbers, Requests
  <2>3. DownInv' BY <2>1 DEF IInv, DownInv
  <2>4. PlaybackInv' /\ SharedInv' BY <2>1 DEF IInv, PlaybackInv, SharedInv, Shown
  <2>5. SnapshotIsConsistent' BY <2>1 DEF IInv, SnapshotIsConsistent, Shown
  <2> QED BY <2>2, <2>3, <2>4, <2>5 DEF IInv
<1>2. ASSUME NEW list \in Playlists, NEW loop \in BOOLEAN, RunReplayer(list, loop)
      PROVE  IInv'
  <2>1. Len(list) \in Nat /\ Len(list) >= 1
    BY ReplayAssumption DEF ReplayAssumption
  <2>2. /\ UNCHANGED <<at, pos, currentFrame, isPlaying, frameCount, request>>
        /\ playlist' = list /\ playback' = "next"
        /\ server = "down" /\ server' = "starting"
    BY <1>2 DEF RunReplayer, shared
  <2>3. Numbers' /\ Requests' BY <2>1, <2>2 DEF IInv, Numbers, Requests
  <2>4. DownInv' BY <2>1, <2>2 DEF IInv, DownInv
  <2>5. PlaybackInv' /\ SharedInv' BY <2>1, <2>2 DEF IInv, Numbers, PlaybackInv, SharedInv, DownInv
  <2>6. SnapshotIsConsistent' BY <2>2 DEF IInv, SnapshotIsConsistent, DownInv
  <2> QED BY <2>3, <2>4, <2>5, <2>6 DEF IInv
<1> QED BY <1>1, <1>2

(* The handlers only read what playback shares. *)
LEMMA HandlersKeepShared ==
  ASSUME IInv, NEW c \in Clients, Snapshot(c) \/ Respond(c)
  PROVE  Numbers' /\ DownInv' /\ PlaybackInv' /\ SharedInv'
<1>1. UNCHANGED <<server, playlist, looping, playback, at, pos, currentFrame, isPlaying, frameCount>>
      /\ server = "up"
  BY DEF Snapshot, Respond, handlerOnly, playing, shared
<1>2. Numbers' BY <1>1 DEF IInv, Numbers
<1>3. DownInv' BY <1>1 DEF IInv, DownInv
<1>4. PlaybackInv' /\ SharedInv' BY <1>1 DEF IInv, PlaybackInv, SharedInv, Shown
<1> QED BY <1>2, <1>3, <1>4

LEMMA SnapshotKeepsAnswers ==
  ASSUME IInv, NEW c \in Clients, Snapshot(c)
  PROVE  Requests' /\ SnapshotIsConsistent'
<1> DEFINE taken == [state |-> "snapshot", frame |-> currentFrame, number |-> frameCount,
                     playing |-> isPlaying, flag |-> FALSE]
<1>1. request' = [request EXCEPT ![c] = taken] /\ UNCHANGED <<playlist, currentFrame>>
  BY DEF Snapshot, handlerOnly, shared
<1>2. taken \in Answers BY DEF IInv, Numbers, Requests, Answers
<1>3. taken.frame = currentFrame /\ taken.number = frameCount /\ taken.playing = isPlaying
  OBVIOUS
<1> HIDE DEF taken
<1>4. Requests' BY <1>1, <1>2 DEF IInv, Requests
<1>5. \A d \in Clients : request'[d] = IF d = c THEN taken ELSE request[d]
  BY <1>1 DEF IInv, Requests
<1>6. /\ taken.number > 0 => taken.number = taken.frame[2]
      /\ taken.frame # NoFrame /\ ~taken.playing => taken.number = Shown(Len(playlist))
  BY <1>3 DEF IInv, SharedInv
<1>7. SnapshotIsConsistent' BY <1>1, <1>5, <1>6 DEF IInv, SnapshotIsConsistent, Shown
<1> QED BY <1>4, <1>7

LEMMA RespondKeepsAnswers ==
  ASSUME IInv, NEW c \in Clients, Respond(c)
  PROVE  Requests' /\ SnapshotIsConsistent'
<1> DEFINE flag == request[c].frame # NoFrame /\ isPlaying
           answer == [request[c] EXCEPT !.state = "answered", !.flag = flag]
<1>1. request' = [request EXCEPT ![c] = answer] /\ UNCHANGED <<playlist, currentFrame>>
      /\ request[c].state = "snapshot"
  BY DEF Respond, handlerOnly, shared, IInv, Requests
<1>2. flag \in BOOLEAN BY Zenon
<1> HIDE DEF flag
<1>3. request[c] \in Answers BY DEF IInv, Requests
<1>4. /\ answer \in Answers
      /\ answer.frame = request[c].frame /\ answer.number = request[c].number
      /\ answer.playing = request[c].playing
  BY <1>2, <1>3 DEF Answers
<1> HIDE DEF answer
<1>5. Requests' BY <1>1, <1>4 DEF IInv, Requests
<1>6. \A d \in Clients : request'[d] = IF d = c THEN answer ELSE request[d]
  BY <1>1 DEF IInv, Requests
<1>7. SnapshotIsConsistent' BY <1>1, <1>4, <1>6 DEF IInv, SnapshotIsConsistent, Shown
<1> QED BY <1>5, <1>7

LEMMA StepKeepsIInv == IInv /\ [ReplayNext]_replayVars => IInv'
<1> SUFFICES ASSUME IInv, [ReplayNext]_replayVars PROVE IInv' OBVIOUS
<1>1. CASE Playback
  BY <1>1, PlaybackKeepsType, PlaybackKeepsShared, PlaybackKeepsAnswers DEF IInv
<1>2. CASE UNCHANGED replayVars
  <2> USE <1>2 DEF replayVars, playing, shared, IInv
  <2>1. Numbers' /\ Requests' BY DEF Numbers, Requests
  <2>2. DownInv' BY DEF DownInv
  <2>3. PlaybackInv' /\ SharedInv' BY DEF PlaybackInv, SharedInv, Shown
  <2>4. SnapshotIsConsistent' BY DEF SnapshotIsConsistent, Shown
  <2> QED BY <2>1, <2>2, <2>3, <2>4
<1>3. CASE \E c \in Clients : Snapshot(c) \/ Respond(c)
  BY <1>3, HandlersKeepShared, SnapshotKeepsAnswers, RespondKeepsAnswers DEF IInv
<1> QED BY <1>1, <1>2, <1>3, StartKeepsIInv DEF ReplayNext

(* What the handlers answer was true at one moment: SnapshotIsConsistent for
   every list of files, any number of clients and any interleaving of their
   requests with the playback goroutine. *)
THEOREM AnswersAreConsistent == ReplaySpec => []SnapshotIsConsistent
<1>1. IInv => SnapshotIsConsistent BY DEF IInv
<1> QED BY InitIInv, StepKeepsIInv, <1>1, PTL DEF ReplaySpec

----------------------------------------------------------------------------
(* Type correctness: what is left of the types, the position of playback
   being one of the list or the one after. *)
PlaceInv ==
    /\ server \in {"down", "starting", "up", "exited"}
    /\ playlist \in Seq(PlayFiles) /\ looping \in BOOLEAN
    /\ playback \in {"off", "next", "read", "publish", "over"}
    /\ at >= 1 /\ (playback = "over" => at = 1)

LEMMA StepKeepsPlace ==
  ASSUME IInv, PlaceInv, [ReplayNext]_replayVars
  PROVE  PlaceInv'
<1> USE DEF PlaceInv
<1>1. at \in Nat BY DEF IInv, Numbers
<1>2. CASE UNCHANGED replayVars BY <1>2 DEF replayVars, playing
<1>3. CASE \E list \in Playlists, loop \in BOOLEAN : RunReplayer(list, loop)
  BY <1>3, ReplayAssumption DEF ReplayAssumption, RunReplayer
<1>4. CASE Listen BY <1>4 DEF Listen, playing
<1>5. CASE Playback
  <2>1. UNCHANGED <<server, playlist, looping>> BY <1>5, PlaybackFrame
  <2>2. /\ playback' \in {"off", "next", "read", "publish", "over"}
        /\ at' >= 1 /\ (playback' = "over" => at' = 1)
    <3>1. CASE BeginFile BY <3>1 DEF BeginFile
    <3>2. CASE ReadPlayFrame BY <3>2 DEF ReadPlayFrame
    <3>3. CASE Publish BY <3>3 DEF Publish
    <3>4. CASE EndFile BY <1>1, <3>4 DEF EndFile
    <3>5. CASE EndPass BY <3>5 DEF EndPass
    <3> QED BY <1>5, <3>1, <3>2, <3>3, <3>4, <3>5 DEF Playback
  <2> QED BY <2>1, <2>2
<1>6. CASE \E c \in Clients : Snapshot(c) \/ Respond(c)
  BY <1>6 DEF Snapshot, Respond, handlerOnly, playing
<1> QED BY <1>2, <1>3, <1>4, <1>5, <1>6 DEF ReplayNext

LEMMA PlaceGivesType == IInv /\ PlaceInv => ReplayTypeOK
<1> SUFFICES ASSUME IInv, PlaceInv PROVE ReplayTypeOK OBVIOUS
<1>1. /\ at \in Nat /\ pos \in Nat /\ frameCount \in Nat /\ Len(playlist) \in Nat
      /\ isPlaying \in BOOLEAN
      /\ currentFrame \in Nat \X Nat /\ request \in [Clients -> Answers]
  BY DEF IInv, Numbers, Requests
<1>2. at <= Len(playlist) + 1
  BY <1>1 DEF IInv, PlaceInv, PlaybackInv, DownInv
<1> QED BY <1>1, <1>2 DEF PlaceInv, ReplayTypeOK, Answers

(* The variables of the replay server keep their types. *)
THEOREM ReplayTypeCorrect == ReplaySpec => []ReplayTypeOK
<1>1. ReplayInit => PlaceInv
  <2> SUFFICES ASSUME ReplayInit PROVE PlaceInv OBVIOUS
  <2>1. playlist \in Seq(PlayFiles) BY EmptySeq, Zenon DEF ReplayInit
  <2>2. server = "down" /\ playback = "off" /\ looping = FALSE /\ at = 1 BY DEF ReplayInit
  <2>3. at >= 1 BY <2>2
  <2> QED BY <2>1, <2>2, <2>3, Zenon DEF PlaceInv
<1>2. IInv /\ PlaceInv /\ [ReplayNext]_replayVars => PlaceInv' BY StepKeepsPlace
<1> QED BY InitIInv, <1>1, <1>2, StepKeepsIInv, PlaceGivesType, PTL DEF ReplaySpec
=============================================================================
