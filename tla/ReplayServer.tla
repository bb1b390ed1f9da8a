---------------------------- MODULE ReplayServer ----------------------------
(***************************************************************************)
(* cmd/agent/replayer.go, `agent replay`: one goroutine plays the files,   *)
(* HTTP handlers show what it has reached.  They share the current frame,  *)
(* its number and isPlaying through a mutex, except that                   *)
(* buildFrameResponse reads isPlaying without it.                          *)
(***************************************************************************)
EXTENDS Naturals, Sequences

CONSTANTS Clients,    \* each has one request under way at a time
          Playlists,  \* bound: the lists of files that may be played
          MaxFiles    \* bound: how many files they have

(* A file by what its reader delivers: frames, then the end or an error.  A
   file that cannot be opened has no frames and is not whole. *)
PlayFiles == [ext : {"echoreplay", "other"}, frames : Nat, whole : BOOLEAN]

ASSUME ReplayAssumption ==
    Playlists \subseteq Seq(PlayFiles) /\ \A list \in Playlists : Len(list) \in 1 .. MaxFiles

VARIABLES
    server,        \* ListenAndServe: down, starting, up, or exited with an error
    playlist,      \* rs.files
    looping,       \* rs.loop
    playback,      \* where the playback goroutine is
    at, pos,       \* the file it plays, and how many of its frames it has read
    currentFrame, isPlaying, frameCount,
    request        \* the last request of each client

playing == <<playback, at, pos>>
shared == <<currentFrame, isPlaying, frameCount>>
replayVars == <<server, playlist, looping, playing, shared, request>>

NoFrame == <<0, 0>>          \* a frame is its file and its number
NoRequest == [state |-> "none", frame |-> NoFrame, number |-> 0, playing |-> FALSE, flag |-> FALSE]

ReplayInit ==
    /\ playlist = <<>> /\ looping = FALSE
    /\ server = "down" /\ playback = "off" /\ at = 1 /\ pos = 0
    /\ currentFrame = NoFrame /\ isPlaying = FALSE /\ frameCount = 0
    /\ request = [c \in Clients |-> NoRequest]

----------------------------------------------------------------------------
(* The start: playback runs before the server listens. *)

RunReplayer(list, loop) ==
    /\ server = "down"
    /\ server' = "starting" /\ playback' = "next"
    /\ playlist' = list /\ looping' = loop
    /\ UNCHANGED <<at, pos, shared, request>>

Listen ==
    /\ server = "starting"
    /\ server' \in {"up", "exited"}
    /\ UNCHANGED <<playlist, looping, playing, shared, request>>

----------------------------------------------------------------------------
(* The playback goroutine *)

Serving == server \in {"starting", "up"}
playbackOnly == <<server, playlist, looping, request>>

(* Mutant: the number goes on counting from file to file. *)
BeginFileKeepsCount ==
    /\ Serving /\ playback = "next" /\ at <= Len(playlist)
    /\ isPlaying' = TRUE
    /\ playback' = "read" /\ pos' = 0
    /\ UNCHANGED <<at, currentFrame, frameCount, playbackOnly>>

(* The frame shown stays that of the file before. *)
BeginFile ==
    /\ Serving /\ playback = "next" /\ at <= Len(playlist)
    /\ isPlaying' = TRUE /\ frameCount' = 0
    /\ playback' = "read" /\ pos' = 0
    /\ UNCHANGED <<at, currentFrame, playbackOnly>>

(* What playFile gets out of a file: only one format can be played. *)
Shown(i) == IF playlist[i].ext = "echoreplay" THEN playlist[i].frames ELSE 0

(* Then it sleeps until the frame is due. *)
ReadPlayFrame ==
    /\ Serving /\ playback = "read" /\ pos < Shown(at)
    /\ pos' = pos + 1 /\ playback' = "publish"
    /\ UNCHANGED <<at, shared, playbackOnly>>

Publish ==
    /\ Serving /\ playback = "publish"
    /\ currentFrame' = <<at, pos>> /\ frameCount' = frameCount + 1
    /\ playback' = "read"
    /\ UNCHANGED <<at, pos, isPlaying, playbackOnly>>

(* Mutant: an error ends the playback. *)
EndFileGivesUp ==
    /\ Serving /\ playback = "read" /\ pos = Shown(at)
    /\ IF playlist[at].ext = "echoreplay" /\ playlist[at].whole
       THEN at' = at + 1 /\ playback' = "next" ELSE playback' = "over" /\ UNCHANGED at
    /\ UNCHANGED <<pos, shared, playbackOnly>>

(* The end of the file, an error, or a format that cannot be played: an
   error is logged, and the next file follows. *)
EndFile ==
    /\ Serving /\ playback = "read" /\ pos = Shown(at)
    /\ at' = at + 1 /\ playback' = "next"
    /\ UNCHANGED <<pos, shared, playbackOnly>>

(* A second of sleep before the next round is left out. *)
EndPass ==
    /\ Serving /\ playback = "next" /\ at > Len(playlist)
    /\ isPlaying' = FALSE
    /\ at' = 1 /\ playback' = IF looping THEN "next" ELSE "over"
    /\ UNCHANGED <<pos, currentFrame, frameCount, playbackOnly>>

Playback == BeginFile \/ ReadPlayFrame \/ Publish \/ EndFile \/ EndPass

----------------------------------------------------------------------------
(* The handlers *)

handlerOnly == <<server, playlist, looping, playing, shared>>

(* Every handler takes its snapshot under RLock; /session and /player_bones
   use only the frame, /status all but the frame. *)
Snapshot(c) ==
    /\ server = "up" /\ request[c].state # "snapshot"
    /\ request' = [request EXCEPT ![c] =
          [state |-> "snapshot", frame |-> currentFrame, number |-> frameCount,
           playing |-> isPlaying, flag |-> FALSE]]
    /\ UNCHANGED handlerOnly

(* buildFrameResponse, for / and /frame, reads isPlaying again.  No frame: 204. *)
Respond(c) ==
    /\ server = "up" /\ request[c].state = "snapshot"
    /\ request' = [request EXCEPT ![c].state = "answered",
                                  ![c].flag = request[c].frame # NoFrame /\ isPlaying]
    /\ UNCHANGED handlerOnly

----------------------------------------------------------------------------
ReplayNext ==
    \/ \E list \in Playlists, loop \in BOOLEAN : RunReplayer(list, loop)
    \/ Listen \/ Playback
    \/ \E c \in Clients : Snapshot(c) \/ Respond(c)

ReplaySpec == ReplayInit /\ [][ReplayNext]_replayVars /\ WF_replayVars(Playback)

(* Every variable has the type of the field or local it stands for. *)
ReplayTypeOK ==
    /\ server \in {"down", "starting", "up", "exited"}
    /\ playlist \in Seq(PlayFiles) /\ looping \in BOOLEAN
    /\ playback \in {"off", "next", "read", "publish", "over"}
    /\ at \in 1 .. Len(playlist) + 1 /\ pos \in Nat
    /\ currentFrame \in Nat \X Nat /\ isPlaying \in BOOLEAN /\ frameCount \in Nat
    /\ request \in [Clients -> [state : {"none", "snapshot", "answered"}, frame : Nat \X Nat,
                                number : Nat, playing : BOOLEAN, flag : BOOLEAN]]

(* What an answer says was true at one moment, however far playback has gone
   meanwhile: a frame that has a number is that number of its file, and an
   answer that says "stopped" after playback began counts the frames of the
   last file. *)
SnapshotIsConsistent ==
    \A c \in Clients : LET r == request[c] IN
        /\ r.number > 0 => r.number = r.frame[2]
        /\ r.state # "none" /\ r.frame # NoFrame /\ ~r.playing => r.number = Shown(Len(playlist))

Due(i) ==
    /\ i <= Len(playlist) /\ Shown(i) > 0
    /\ looping \/ (playback = "next" /\ at = 1 /\ ~isPlaying /\ currentFrame = NoFrame)

(* Every file that has a frame is played to its end, whatever is wrong with
   the files around it: once, and with --loop again and again. *)
EveryFileIsPlayed ==
    \A i \in 1 .. MaxFiles :
        Due(i) ~> server = "exited" \/ (i <= Len(playlist) /\ currentFrame = <<i, Shown(i)>>)
=============================================================================
