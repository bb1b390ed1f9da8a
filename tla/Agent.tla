------------------------------- MODULE Agent -------------------------------
(***************************************************************************)
(* The agent: the scan loop of cmd/agent/agent.go that opens a session for *)
(* every game server playing a match, the pollers of                       *)
(* internal/agent/poller.go that feed the sessions, and the FrameWriters   *)
(* of a session, alone or behind a MultiWriter (internal/agent/writer.go). *)
(*                                                                         *)
(* A file writer is reduced to what the agent sees of it, its stopped flag *)
(* and what makes it stop (FileWriters is the detailed model), and so is   *)
(* the WebSocket writer, which only Close stops (WebSocketWriter).  A game *)
(* server answers with the match it plays or not at all: no connection, an *)
(* HTTP error and 404 lead to the same steps.                              *)
(***************************************************************************)
EXTENDS Naturals, FiniteSets

CONSTANTS Targets,     \* the base URLs scanned
          Choices,     \* the outputs a user may ask for: sets of writer kinds
          MaxMatches,  \* bound: how many matches a server plays
          MaxFailures, \* bound: how many file operations fail
          Slots        \* bound: how many sessions are alive at a time

Kinds == {"tape", "nevrcap", "echoreplay", "ws"}

ASSUME AgentAssumption ==
    /\ Choices \subseteq (SUBSET Kinds) \ {{}}
    /\ MaxMatches \in Nat /\ MaxFailures \in Nat
    /\ IsFiniteSet(Targets) /\ IsFiniteSet(Slots)
    /\ "none" \notin Targets \cup Slots

(* Match 0 is no match; target and slot "none" are nobody's. *)
None == "none"
NoMatch == 0
Matches == 1 .. MaxMatches

VARIABLES
    outputs,   \* the formats and the stream asked for on the command line
    ctxDone,   \* the agent's context is cancelled: an interrupt
    game,      \* what each server plays now
    latest,    \* the last match each server has played
    failures,  \* file operations that have failed
    loop,      \* where the scan loop is
    todo,      \* targets left in this round
    cur,       \* the target whose metadata is being fetched
    sessions,  \* the map from base URL to session
    ses        \* the sessions and their pollers

env == <<outputs, game, latest, failures>>
vars == <<env, ctxDone, loop, todo, cur, sessions, ses>>

Closed == [target |-> None, match |-> NoMatch, kinds |-> {}, running |-> {}, abandoned |-> {},
           foreign |-> {}, multiStopped |-> FALSE, poller |-> "gone", frame |-> NoMatch,
           silent |-> FALSE]

Init ==
    /\ outputs \in Choices
    /\ ctxDone = FALSE
    /\ game = [t \in Targets |-> NoMatch] /\ latest = game
    /\ failures = 0
    /\ loop = "wait" /\ todo = {} /\ cur = None
    /\ sessions = [t \in Targets |-> None]
    /\ ses = [s \in Slots |-> Closed]

----------------------------------------------------------------------------
(* The writers of a session: running and abandoned ones are not stopped. *)

Multi(s) == Cardinality(ses[s].kinds) > 1

(* Mutant: a session is stopped as soon as one of its writers is. *)
IsStoppedAny(s) == ses[s].running # ses[s].kinds

IsStopped(s) ==
    IF Multi(s) THEN ses[s].multiStopped ELSE ses[s].running \cup ses[s].abandoned = {}

(* A MultiWriter's context comes from Background, and so does a WebSocket
   writer's; a file writer's is a child of the agent's. *)
ContextDone(s) == IsStopped(s) \/ (~Multi(s) /\ ses[s].kinds # {"ws"} /\ ctxDone)

(* Mutant: the file writers' contexts do not come from the agent's. *)
WorkerStopsForForeign(s) ==
    /\ \E k \in ses[s].running :
          /\ k # "ws"
          /\ k \in ses[s].foreign
          /\ ses' = [ses EXCEPT ![s].running = @ \ {k}]
    /\ UNCHANGED <<env, ctxDone, loop, todo, cur, sessions>>

(* A worker that finds a frame of another match, or its context cancelled,
   closes its writer. *)
WorkerStops(s) ==
    /\ \E k \in ses[s].running :
          /\ k # "ws"
          /\ k \in ses[s].foreign \/ ctxDone
          /\ ses' = [ses EXCEPT ![s].running = @ \ {k}]
    /\ UNCHANGED <<env, ctxDone, loop, todo, cur, sessions>>

(* After a failing file operation a worker closes its writer, or, at the
   start, returns without. *)
WorkerFails(s) ==
    /\ failures < MaxFailures
    /\ failures' = failures + 1
    /\ \E k \in ses[s].running \ {"ws"} :
          \/ ses' = [ses EXCEPT ![s].running = @ \ {k}]
          \/ ses' = [ses EXCEPT ![s].running = @ \ {k}, ![s].abandoned = @ \cup {k}]
    /\ UNCHANGED <<outputs, game, latest, ctxDone, loop, todo, cur, sessions>>

----------------------------------------------------------------------------
(* The poller of a session *)

pollerOnly == <<env, ctxDone, loop, todo, cur, sessions>>

(* Mutant: the timer is reset before the check for an empty answer. *)
PollCountsNothing(s) ==
    /\ ses[s].poller = "tick" /\ ~ContextDone(s)
    /\ game[ses[s].target] = NoMatch
    /\ ses' = [ses EXCEPT ![s].silent = FALSE]
    /\ UNCHANGED pollerOnly

(* A tick, both requests and the check of the context after them.  A frame
   that the filters drop, or that cannot be processed, still counts as data. *)
PollGetsNothing(s) ==
    /\ ses[s].poller = "tick" /\ ~ContextDone(s)
    /\ game[ses[s].target] = NoMatch
    /\ ses' = [ses EXCEPT ![s].silent = TRUE]
    /\ UNCHANGED pollerOnly

PollDrops(s) ==
    /\ ses[s].poller = "tick" /\ ~ContextDone(s)
    /\ game[ses[s].target] # NoMatch
    /\ ses' = [ses EXCEPT ![s].silent = FALSE]
    /\ UNCHANGED pollerOnly

PollFetches(s) ==
    /\ ses[s].poller = "tick" /\ ~ContextDone(s)
    /\ game[ses[s].target] # NoMatch
    /\ ses' = [ses EXCEPT ![s].silent = FALSE, ![s].poller = "frame",
                          ![s].frame = game[ses[s].target]]
    /\ UNCHANGED pollerOnly

(* Mutant: the poller itself drops the frames of another match. *)
PollWritesOwn(s) ==
    /\ ses[s].poller = "frame"
    /\ ses' = [ses EXCEPT ![s].poller = "tick", ![s].frame = NoMatch]
    /\ UNCHANGED pollerOnly

(* WriteFrame of the session: a MultiWriter offers the frame to every writer
   that is not stopped.  The worker of a running file writer will find out
   that the frame is of another match; nobody reads an abandoned one's channel. *)
PollWrites(s) ==
    /\ ses[s].poller = "frame"
    /\ ses' = [ses EXCEPT ![s].poller = "tick", ![s].frame = NoMatch,
                  ![s].foreign = IF ses[s].frame # ses[s].match /\ ~ses[s].multiStopped
                                 THEN @ \cup (ses[s].running \ {"ws"}) ELSE @]
    /\ UNCHANGED pollerOnly

(* The poller returns: the context, or five seconds without data, so that
   the last poll got none.  The deferred Close stops the only writer, or, for
   a MultiWriter, sets its flag and cancels its context before it closes its
   writers, and does nothing the second time. *)
PollerReturns(s) ==
    /\ ses[s].poller = "tick"
    /\ ContextDone(s) \/ ses[s].silent
    /\ ses' = [ses EXCEPT ![s] =
          IF ~Multi(s) THEN [@ EXCEPT !.running = {}, !.abandoned = {}, !.poller = "gone"]
          ELSE IF @.multiStopped THEN [@ EXCEPT !.poller = "gone"]
          ELSE [@ EXCEPT !.multiStopped = TRUE, !.poller = "closing"]]
    /\ UNCHANGED pollerOnly

PollerClosesWriters(s) ==
    /\ ses[s].poller = "closing"
    /\ ses' = [ses EXCEPT ![s].running = {}, ![s].abandoned = {}, ![s].poller = "gone"]
    /\ UNCHANGED pollerOnly

----------------------------------------------------------------------------
(* The scan loop *)

loopOnly == <<env, ctxDone>>

(* Mutant: an empty target after a trailing separator. *)
CycleBeginsWithNone ==
    /\ loop = "wait"
    /\ loop' = "scan" /\ todo' = Targets \cup {None}
    /\ UNCHANGED <<loopOnly, cur, sessions, ses>>

(* Between two rounds the loop waits twice: three seconds, where the context
   takes it to the end of the function, and for the cycle ticker, where the
   context makes it return and no session is closed. *)
CycleBegins ==
    /\ loop = "wait"
    /\ loop' = "scan" /\ todo' = Targets
    /\ UNCHANGED <<loopOnly, cur, sessions, ses>>

CycleStops ==
    /\ loop = "wait" /\ ctxDone
    /\ \/ loop' = "over" /\ UNCHANGED todo
       \/ loop' = "close" /\ todo' = Targets
    /\ UNCHANGED <<loopOnly, cur, sessions, ses>>

(* Mutant: a session in the map is replaced without asking whether it runs. *)
ScanTargetBlindly ==
    /\ loop = "scan" /\ ~ctxDone
    /\ \E t \in todo :
          /\ todo' = todo \ {t}
          /\ loop' = "meta" /\ cur' = t /\ sessions' = [sessions EXCEPT ![t] = None]
    /\ UNCHANGED <<loopOnly, ses>>

(* One port: the context, and a session that is still active. *)
ScanTarget ==
    /\ loop = "scan" /\ ~ctxDone
    /\ \E t \in todo :
          /\ todo' = todo \ {t}
          /\ IF sessions[t] # None /\ ~IsStopped(sessions[t])
             THEN UNCHANGED <<loop, cur, sessions>>
             ELSE loop' = "meta" /\ cur' = t /\ sessions' = [sessions EXCEPT ![t] = None]
    /\ UNCHANGED <<loopOnly, ses>>

(* The match, if the answer is 200 and names one.  404 and a refused
   connection mean none, all else is an error: the caller goes on alike. *)
GetSessionMeta == game[cur]

(* GetSessionMeta has failed, or there is no match, or no writer came up. *)
NoSession ==
    /\ loop = "meta"
    /\ GetSessionMeta = NoMatch \/ outputs = {"ws"}
    /\ loop' = "scan" /\ cur' = None
    /\ UNCHANGED <<loopOnly, todo, sessions, ses>>

Free(s) == ses[s].poller = "gone" /\ \A t \in Targets : sessions[t] # s

(* The match reported gets its writers, a WebSocket writer only if it
   connects, and a poller. *)
OpenSession ==
    /\ loop = "meta" /\ GetSessionMeta # NoMatch
    /\ \E s \in Slots : Free(s)
    /\ \E kinds \in {outputs, outputs \ {"ws"}} \ {{}} :
          LET s == CHOOSE s \in Slots : Free(s) IN
          /\ ses' = [ses EXCEPT ![s] =
                [Closed EXCEPT !.target = cur, !.match = GetSessionMeta, !.kinds = kinds,
                               !.running = kinds, !.poller = "tick"]]
          /\ sessions' = [sessions EXCEPT ![cur] = s]
    /\ loop' = "scan" /\ cur' = None
    /\ UNCHANGED <<loopOnly, todo>>

(* The end of the targets, or the context found done at the next port. *)
ScanEnds ==
    /\ loop = "scan"
    /\ \/ todo = {} /\ loop' = "wait" /\ UNCHANGED todo
       \/ todo # {} /\ ctxDone /\ loop' = "close" /\ todo' = Targets
    /\ UNCHANGED <<loopOnly, cur, sessions, ses>>

CloseSessions ==
    /\ loop = "close"
    /\ \/ \E t \in todo :
             /\ todo' = todo \ {t}
             /\ ses' = IF sessions[t] = None THEN ses
                       ELSE [ses EXCEPT ![sessions[t]].running = {},
                                        ![sessions[t]].abandoned = {},
                                        ![sessions[t]].multiStopped = Multi(sessions[t])]
             /\ UNCHANGED loop
       \/ todo = {} /\ loop' = "over" /\ UNCHANGED <<todo, ses>>
    /\ UNCHANGED <<loopOnly, cur, sessions>>

----------------------------------------------------------------------------
(* The user and the game servers *)

Interrupt ==
    /\ ~ctxDone
    /\ ctxDone' = TRUE
    /\ UNCHANGED <<env, loop, todo, cur, sessions, ses>>

(* A server starts its next match, falls silent or comes back. *)
GameChanges(t) ==
    /\ \E m \in {NoMatch, latest[t], latest[t] + 1} :
          /\ m <= MaxMatches /\ m # game[t]
          /\ game' = [game EXCEPT ![t] = m]
          /\ latest' = [latest EXCEPT ![t] = IF m = NoMatch THEN @ ELSE m]
    /\ UNCHANGED <<outputs, failures, ctxDone, loop, todo, cur, sessions, ses>>

Poller(s) ==
    \/ PollGetsNothing(s) \/ PollDrops(s) \/ PollFetches(s) \/ PollWrites(s)
    \/ PollerReturns(s) \/ PollerClosesWriters(s)

Scan ==
    \/ CycleBegins \/ CycleStops \/ ScanTarget \/ NoSession \/ OpenSession \/ ScanEnds
    \/ CloseSessions

Next ==
    \/ Scan \/ Interrupt
    \/ \E t \in Targets : GameChanges(t)
    \/ \E s \in Slots : Poller(s) \/ WorkerStops(s) \/ WorkerFails(s)

(* Every goroutine goes on.  The filters let a frame of every match through
   now and then, and a stream server accepts a connection now and then.  A
   select that finds ctx.Done() again and again takes it in the end. *)
Fairness ==
    /\ WF_vars(Scan) /\ SF_vars(OpenSession) /\ SF_vars(CycleStops)
    /\ \A s \in Slots :
          /\ WF_vars(WorkerStops(s)) /\ SF_vars(PollFetches(s))
          /\ WF_vars(PollWrites(s) \/ PollerClosesWriters(s))
          /\ WF_vars(PollGetsNothing(s)) /\ WF_vars(PollerReturns(s))

Spec == Init /\ [][Next]_vars /\ Fairness

----------------------------------------------------------------------------
(* Every variable has the type of the field or local it stands for. *)
TypeOK ==
    /\ outputs \in Choices /\ ctxDone \in BOOLEAN
    /\ game \in [Targets -> 0 .. MaxMatches] /\ latest \in [Targets -> 0 .. MaxMatches]
    /\ failures \in 0 .. MaxFailures
    /\ loop \in {"wait", "scan", "meta", "close", "over"}
    /\ todo \subseteq Targets /\ cur \in Targets \cup {None}
    /\ sessions \in [Targets -> Slots \cup {None}]
    /\ ses \in [Slots -> [target : Targets \cup {None}, match : 0 .. MaxMatches,
                          kinds : SUBSET Kinds, running : SUBSET Kinds, abandoned : SUBSET Kinds,
                          foreign : SUBSET Kinds, multiStopped : BOOLEAN,
                          poller : {"tick", "frame", "closing", "gone"},
                          frame : 0 .. MaxMatches, silent : BOOLEAN]]

(* A session whose poller may still hand a frame to a writer that takes it. *)
Delivers(s) ==
    /\ ses[s].poller \in {"tick", "frame"}
    /\ ~ses[s].multiStopped /\ ses[s].running # {}

(* No frame of a server is recorded or streamed twice: although pollers
   outlive their sessions, the scan loop never opens a second session for a
   server while the first can still take frames. *)
OneRecorder ==
    \A s, r \in Slots :
        s # r /\ Delivers(s) /\ Delivers(r) => ses[s].target # ses[r].target

(* A session the scan loop has let go of is one it found stopped: the map
   never loses a session that still runs. *)
OnlyStoppedAreForgotten ==
    \A s \in Slots : ses[s].kinds # {} /\ ~IsStopped(s) => sessions[ses[s].target] = s

(* A server that stays silent is let go: no session of it remains active. *)
SilentServerIsDropped ==
    \A t \in Targets :
        <>[](game[t] = NoMatch) =>
            <>[](\A s \in Slots : ses[s].target = t => IsStopped(s) /\ ses[s].poller = "gone")

(* After an interrupt the scan loop ends, and no file writer goes on: their
   contexts are children of the agent's. *)
InterruptEndsFiles ==
    ctxDone ~> loop = "over" /\ \A s \in Slots : ses[s].running \subseteq {"ws"}

Recording(t, m) ==
    /\ sessions[t] # None
    /\ ses[sessions[t]].match = m
    /\ ses[sessions[t]].running \ {"ws"} # {}

Abandoned == \E s \in Slots : ses[s].abandoned # {}

(* A match that is played on is recorded, and stays so, whatever matches,
   silences and failures this server had before; but for one kind of failure:
   no writer may have failed at its start, where the worker returns without
   Close (see FailedStartIsSurvived). *)
MatchIsRecorded ==
    \A t \in Targets, m \in Matches :
        <>[](game[t] = m /\ ~ctxDone /\ ~Abandoned) => <>[]Recording(t, m)

(* That holds when one file format is all the user asked for. *)
SingleFile == outputs \in {{"tape"}, {"nevrcap"}, {"echoreplay"}}
SingleFileIsRecorded == SingleFile => MatchIsRecorded

(* "The stream command regularly scans specified ports and starts polling
   [...], storing output to files": also when a writer failed at its start, and
   everything has worked since. *)
FailedStartIsSurvived ==
    SingleFile => \A t \in Targets, m \in Matches :
        <>[](game[t] = m /\ ~ctxDone) => <>[]Recording(t, m)

(* "The stream command regularly scans specified ports and starts polling
   [...], storing output to files": also when frames go to a file and to the
   events API. *)
FileOfManyIsRecorded == outputs # {"ws"} => MatchIsRecorded
=============================================================================
