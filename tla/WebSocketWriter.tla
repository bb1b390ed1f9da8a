--------------------------- MODULE WebSocketWriter ---------------------------
(***************************************************************************)
(* internal/agent/writer_websocket.go: the writer that streams frames to   *)
(* the API server and reconnects by itself.  Every connection that is      *)
(* established starts a readLoop, a writeLoop and a reconnectLoop, and     *)
(* every reconnection a drainDiskBuffer; none of them is tied to the       *)
(* connection it was started with, they read the field conn when they need *)
(* it.  Readers, writers and drains are therefore indexed by the           *)
(* connection that started them; the reconnectLoops have no state but      *)
(* their place in the code, and are counted.                               *)
(*                                                                         *)
(* Steps are the sections under mu or diskBufferMu, the channel operations *)
(* and the socket operations.  Receiving a frame and taking the snapshot   *)
(* of conn, connected and disconnectedAt is one step.  The writer's        *)
(* context is cancelled only by Close, under mu, so ctx.Done() is stopped. *)
(***************************************************************************)
EXTENDS Naturals, Sequences

CONSTANTS MaxConns,    \* bound: how many dials succeed
          MaxBreaks,   \* bound: how many failures of the network
          MaxFrames,   \* bound: how many frames are offered
          BadFrames,   \* the frames that protojson cannot marshal
          ChannelCap   \* memoryBufferSize (1000 in the code)

ASSUME WebSocketAssumption ==
    /\ MaxConns \in Nat \ {0} /\ ChannelCap \in Nat \ {0}
    /\ MaxBreaks \in Nat /\ MaxFrames \in Nat
    /\ BadFrames \subseteq 1 .. MaxFrames

Conns == 1 .. MaxConns
Frames == 1 .. MaxFrames

VARIABLES
    conn, connected, stopped,  \* the fields; conn is 0 for nil
    link,            \* each connection: "none", "live", "failing" in writes only, "broken" by
                     \* the network, "closed" by us
    breaks,          \* how often the network has failed
    reconnectCh,     \* tokens in reconnectCh
    disconnectedAt,  \* "zero" or "set"; how long ago is left open
    outgoingCh,
    offered, offer,  \* the poller: frames offered, and the one inside WriteFrame
    accepted,        \* history: frames WriteFrame returned nil for
    received,        \* history: frames the server got, in order
    reader, writer, drain,  \* the goroutines of each connection
    waiting,         \* reconnectLoops that wait for a token
    attempting,      \* reconnectLoops that sleep before they dial
    disk,            \* the disk buffer: handle, number of the temporary file, lines
    files,           \* temporary files created so far
    cleaner          \* the cleanup goroutine Close starts

connVars == <<conn, connected, link, breaks, disconnectedAt>>
reconnectVars == <<reconnectCh, waiting, attempting>>
pollerVars == <<offered, offer, accepted>>
diskVars == <<disk, files>>
traffic == <<outgoingCh, pollerVars, received>>
loops == <<reader, writer, drain>>
vars == <<connVars, stopped, reconnectVars, traffic, loops, diskVars, cleaner>>

(* What steps of one kind leave alone. *)
pollerOnly == <<connVars, stopped, reconnectVars, received, loops, diskVars, cleaner>>
reconnectOnly == <<stopped, traffic, loops, diskVars, cleaner>>
readOnly == <<stopped, waiting, attempting, traffic, writer, drain, diskVars, cleaner>>
writerOnly == <<stopped, waiting, attempting, pollerVars, reader, drain, cleaner>>
drainOnly == <<stopped, waiting, attempting, outgoingCh, pollerVars, reader, writer, files, cleaner>>

NoDisk == [handle |-> "nil", file |-> 0, lines |-> <<>>]
DrainAt(pc) == [pc |-> pc, conn |-> 0, file |-> 0, todo |-> <<>>]

Init ==
    /\ conn = 0 /\ connected = FALSE /\ stopped = FALSE
    /\ link = [g \in Conns |-> "none"] /\ breaks = 0
    /\ reconnectCh = 0 /\ waiting = 0 /\ attempting = 0 /\ disconnectedAt = "zero"
    /\ outgoingCh = <<>>
    /\ offered = 0 /\ offer = 0 /\ accepted = <<>> /\ received = <<>>
    /\ reader = [g \in Conns |-> [pc |-> "none", conn |-> 0]]
    /\ writer = [g \in Conns |-> [pc |-> "none", conn |-> 0, frame |-> 0]]
    /\ drain = [g \in Conns |-> DrainAt("none")]
    /\ disk = NoDisk /\ files = 0
    /\ cleaner = "none"

----------------------------------------------------------------------------
(* Connections *)

Established == {g \in Conns : link[g] # "none"}

(* connectLocked when the dial succeeds: the next connection, its three
   loops and n more reconnectLoops waiting; l is link as the caller leaves it. *)
ConnectLocked(l, n) ==
    \E g \in Conns :
        /\ l[g] = "none" /\ \A h \in Conns : h < g => l[h] # "none"
        /\ conn' = g /\ connected' = TRUE
        /\ link' = [l EXCEPT ![g] = "live"]
        /\ reader' = [reader EXCEPT ![g] = [pc |-> "read", conn |-> g]]
        /\ writer' = [writer EXCEPT ![g].pc = "select"]
        /\ waiting' = waiting + n
        /\ UNCHANGED <<breaks, disconnectedAt, stopped, reconnectCh, cleaner, traffic, diskVars>>

(* The scan loop connects once; if that fails the writer is not used. *)
Connect ==
    /\ Established = {}
    /\ ConnectLocked(link, 1)
    /\ UNCHANGED <<attempting, drain>>

(* The network or the server ends a connection. *)
Break(g) ==
    /\ link[g] \in {"live", "failing"} /\ breaks < MaxBreaks
    /\ link' = [link EXCEPT ![g] = "broken"]
    /\ breaks' = breaks + 1
    /\ UNCHANGED <<conn, connected, disconnectedAt, reconnectOnly, reconnectVars>>

(* WriteMessage on c returns an error, and its caller marks the writer as
   disconnected under mu.  A write can fail on a connection that is up: the
   deadline of ten seconds passes, or a ping meets the deadline of the last
   frame, which is over.  The library keeps the error, so every later write
   on that connection fails too, while reads go on. *)
WriteError(c) ==
    /\ \/ link[c] # "live" /\ UNCHANGED <<link, breaks>>
       \/ /\ link[c] = "live" /\ breaks < MaxBreaks
          /\ link' = [link EXCEPT ![c] = "failing"]
          /\ breaks' = breaks + 1
    /\ connected' = FALSE
    /\ disconnectedAt' = "set"
    /\ UNCHANGED conn

(* Mutant: a channel with more than one slot. *)
triggerReconnectCounts == reconnectCh' = reconnectCh + 1

triggerReconnect == reconnectCh' = 1

----------------------------------------------------------------------------
(* WriteFrame and Close *)

(* IsStopped; a call that finds the writer stopped leaves nothing changed. *)
WriteFrame ==
    /\ Established # {} /\ offer = 0 /\ offered < MaxFrames
    /\ ~stopped
    /\ offered' = offered + 1 /\ offer' = offered + 1
    /\ UNCHANGED <<outgoingCh, accepted, pollerOnly>>

Enqueue ==
    /\ offer # 0 /\ Len(outgoingCh) < ChannelCap
    /\ outgoingCh' = Append(outgoingCh, offer)
    /\ accepted' = Append(accepted, offer)
    /\ offer' = 0
    /\ UNCHANGED <<offered, pollerOnly>>

(* Mutant: the default branch drops the frame and returns nil. *)
RefuseSilently ==
    /\ offer # 0 /\ (stopped \/ Len(outgoingCh) = ChannelCap)
    /\ accepted' = Append(accepted, offer)
    /\ offer' = 0
    /\ UNCHANGED <<outgoingCh, offered, pollerOnly>>

Refuse ==
    /\ offer # 0 /\ (stopped \/ Len(outgoingCh) = ChannelCap)
    /\ offer' = 0
    /\ UNCHANGED <<outgoingCh, offered, accepted, pollerOnly>>

CloseLink(l) == [g \in Conns |-> IF g = conn THEN "closed" ELSE l[g]]

Close ==
    /\ Established # {} /\ ~stopped
    /\ stopped' = TRUE
    /\ link' = CloseLink(link)
    /\ cleaner' = "pending"
    /\ UNCHANGED <<conn, connected, breaks, disconnectedAt, reconnectVars, traffic, loops, diskVars>>

(* cleanupDiskBuffer closes and removes whatever file is current. *)
cleanupDiskBuffer == disk' = NoDisk /\ UNCHANGED files

CloseCleansUp ==
    /\ cleaner = "pending"
    /\ cleaner' = "done"
    /\ cleanupDiskBuffer
    /\ UNCHANGED <<stopped, connVars, reconnectVars, traffic, loops>>

----------------------------------------------------------------------------
(* reconnectLoop: wait for a token, then sleep and try until it works. *)

ReconnectToken ==
    /\ waiting > 0 /\ reconnectCh = 1
    /\ reconnectCh' = 0
    /\ waiting' = waiting - 1 /\ attempting' = attempting + 1
    /\ UNCHANGED <<reconnectOnly, connVars>>

(* Mutant: the retry loop does not look at ctx.Done() or stopped. *)
ReconnectDoneOnlyWaiting ==
    /\ stopped
    /\ waiting > 0 /\ waiting' = waiting - 1 /\ UNCHANGED attempting
    /\ UNCHANGED <<reconnectCh, reconnectOnly, connVars>>

ReconnectDone ==
    /\ stopped
    /\ \/ waiting > 0 /\ waiting' = waiting - 1 /\ UNCHANGED attempting
       \/ attempting > 0 /\ attempting' = attempting - 1 /\ UNCHANGED waiting
    /\ UNCHANGED <<reconnectCh, reconnectOnly, connVars>>

(* Mutant: stopped is not looked at again after the sleep. *)
ReconnectAfterClose ==
    /\ attempting > 0
    /\ ConnectLocked(CloseLink(link), 2)
    /\ attempting' = attempting - 1
    /\ drain' = [drain EXCEPT ![conn'].pc = "start"]

(* Under mu: close what is there, whatever its state, and dial.  The loop
   goes back to waiting, next to the one the new connection has started. *)
Reconnect ==
    /\ attempting > 0 /\ ~stopped
    /\ ConnectLocked(CloseLink(link), 2)
    /\ attempting' = attempting - 1
    /\ drain' = [drain EXCEPT ![conn'].pc = "start"]

(* Mutant: one failed dial and the loop goes back to waiting. *)
ReconnectGivesUp ==
    /\ attempting > 0 /\ ~stopped
    /\ link' = CloseLink(link)
    /\ conn' = 0 /\ connected' = FALSE
    /\ attempting' = attempting - 1 /\ waiting' = waiting + 1
    /\ UNCHANGED <<breaks, disconnectedAt, reconnectCh, reconnectOnly>>

ReconnectFails ==
    /\ attempting > 0 /\ ~stopped
    /\ link' = CloseLink(link)
    /\ conn' = 0 /\ connected' = FALSE
    /\ UNCHANGED <<breaks, disconnectedAt, reconnectOnly, reconnectVars>>

----------------------------------------------------------------------------
(* readLoop: snapshot conn, read, and on an error declare the writer
   disconnected, whichever connection it read from. *)

(* Round the loop: there was no connection to read from, or a message that
   had arrived on it has been read. *)
ReaderLooks(g) ==
    /\ reader[g].pc = "read"
    /\ reader' = [reader EXCEPT ![g] = IF stopped THEN [pc |-> "gone", conn |-> 0]
                                       ELSE [pc |-> "read", conn |-> conn]]
    /\ UNCHANGED <<reconnectCh, readOnly, connVars>>

(* Mutant: the error is logged and nothing is triggered. *)
ReaderOnlyLogs(g) ==
    /\ reader[g].pc = "read"
    /\ reader[g].conn # 0 /\ link[reader[g].conn] \in {"broken", "closed"}
    /\ reader' = [reader EXCEPT ![g] = [pc |-> "gone", conn |-> 0]]
    /\ connected' = FALSE
    /\ UNCHANGED <<conn, link, breaks, disconnectedAt, reconnectCh, readOnly>>

ReaderFails(g) ==
    /\ reader[g].pc = "read"
    /\ reader[g].conn # 0 /\ link[reader[g].conn] \in {"broken", "closed"}
    /\ reader' = [reader EXCEPT ![g] = [pc |-> "trigger", conn |-> 0]]
    /\ connected' = FALSE
    /\ UNCHANGED <<conn, link, breaks, disconnectedAt, reconnectCh, readOnly>>

ReaderTriggers(g) ==
    /\ reader[g].pc = "trigger"
    /\ triggerReconnect
    /\ reader' = [reader EXCEPT ![g].pc = "gone"]
    /\ UNCHANGED <<readOnly, connVars>>

----------------------------------------------------------------------------
(* writeLoop *)

SetWriter(g, pc) == writer' = [writer EXCEPT ![g] = [pc |-> pc, conn |-> 0, frame |-> 0]]

(* A frame and a snapshot: send it, or put it back, or, once the failure that
   set disconnectedAt is older than diskBufferThreshold, put it on disk. *)
WriterTakes(g) ==
    /\ writer[g].pc = "select" /\ outgoingCh # <<>>
    /\ outgoingCh' = Tail(outgoingCh)
    /\ \E pc \in IF connected /\ conn # 0 THEN {"send"}
                 ELSE IF disconnectedAt = "zero" THEN {"requeue"} ELSE {"requeue", "disk"} :
          writer' = [writer EXCEPT ![g] =
              [pc |-> pc, conn |-> IF pc = "send" THEN conn ELSE 0, frame |-> Head(outgoingCh)]]
    /\ UNCHANGED <<reconnectCh, received, writerOnly, connVars, diskVars>>

(* Mutant: the deferred cleanup is missing on this way out. *)
WriterDoneWithoutCleanup(g) ==
    /\ writer[g].pc = "select" /\ stopped
    /\ SetWriter(g, "gone")
    /\ UNCHANGED <<reconnectCh, outgoingCh, received, writerOnly, connVars, diskVars>>

WriterDone(g) ==
    /\ writer[g].pc = "select" /\ stopped
    /\ SetWriter(g, "cleanup")
    /\ UNCHANGED <<reconnectCh, outgoingCh, received, writerOnly, connVars, diskVars>>

(* Into the back of the channel, or dropped if it is full. *)
WriterRequeues(g) ==
    /\ writer[g].pc = "requeue"
    /\ outgoingCh' = IF Len(outgoingCh) < ChannelCap THEN Append(outgoingCh, writer[g].frame)
                     ELSE outgoingCh
    /\ SetWriter(g, "select")
    /\ UNCHANGED <<reconnectCh, received, writerOnly, connVars, diskVars>>

(* bufferToDisk: a new file if there is none.  The frame is lost, with the
   file there or not, if creating, marshalling or writing fails (half a line
   counts as none), and if a drain has closed the handle that is still there. *)
WriterBuffers(g) ==
    /\ writer[g].pc = "disk"
    /\ \/ \E line \in {<<>>} \cup {<<f>> : f \in {writer[g].frame} \ BadFrames} :
             \/ /\ disk.handle = "nil"
                /\ files' = files + 1
                /\ disk' = [handle |-> "open", file |-> files + 1, lines |-> line]
             \/ /\ disk.handle = "open"
                /\ disk' = [disk EXCEPT !.lines = @ \o line]
                /\ UNCHANGED files
       \/ disk.handle # "open" /\ UNCHANGED diskVars
    /\ SetWriter(g, "select")
    /\ UNCHANGED <<reconnectCh, outgoingCh, received, writerOnly, connVars>>

(* A frame that cannot be marshalled is dropped and the loop goes on. *)
WriterDrops(g) ==
    /\ writer[g].pc = "send" /\ writer[g].frame \in BadFrames
    /\ SetWriter(g, "select")
    /\ UNCHANGED <<reconnectCh, outgoingCh, received, writerOnly, connVars, diskVars>>

(* WriteMessage on the connection of the snapshot.  Into a broken one it may
   also succeed, and the frame never arrives. *)
WriterSends(g) ==
    /\ writer[g].pc = "send" /\ writer[g].frame \notin BadFrames
    /\ link[writer[g].conn] \in {"live", "broken"}
    /\ received' = IF link[writer[g].conn] = "live" THEN Append(received, writer[g].frame)
                   ELSE received
    /\ SetWriter(g, "select")
    /\ UNCHANGED <<reconnectCh, outgoingCh, writerOnly, connVars, diskVars>>

WriterFails(g) ==
    /\ writer[g].pc = "send" /\ writer[g].frame \notin BadFrames
    /\ WriteError(writer[g].conn)
    /\ SetWriter(g, "trigger")
    /\ UNCHANGED <<reconnectCh, outgoingCh, received, writerOnly, diskVars>>

(* The keep-alive ping fails; one that succeeds changes nothing. *)
PingFails(g) ==
    /\ writer[g].pc = "select"
    /\ connected /\ conn # 0
    /\ WriteError(conn)
    /\ SetWriter(g, "trigger")
    /\ UNCHANGED <<reconnectCh, outgoingCh, received, writerOnly, diskVars>>

WriterTriggers(g) ==
    /\ writer[g].pc = "trigger"
    /\ triggerReconnect
    /\ SetWriter(g, "cleanup")
    /\ UNCHANGED <<outgoingCh, received, writerOnly, connVars, diskVars>>

(* The deferred cleanup, however the loop ended. *)
WriterCleansUp(g) ==
    /\ writer[g].pc = "cleanup"
    /\ cleanupDiskBuffer
    /\ SetWriter(g, "gone")
    /\ UNCHANGED <<reconnectCh, outgoingCh, received, writerOnly, connVars>>

----------------------------------------------------------------------------
(* drainDiskBuffer *)

DrainStarts(g) ==
    /\ drain[g].pc = "start"
    /\ IF disk.handle = "nil"
       THEN drain' = [drain EXCEPT ![g] = DrainAt("gone")] /\ UNCHANGED disk
       ELSE /\ drain' = [drain EXCEPT ![g].pc = "open", ![g].file = disk.file]
            /\ disk' = [disk EXCEPT !.handle = "closed"]
    /\ UNCHANGED <<reconnectCh, received, drainOnly, connVars>>

(* os.Open by path: the file is there unless somebody has cleaned up. *)
DrainOpens(g) ==
    /\ drain[g].pc = "open"
    /\ drain' = IF disk.file = drain[g].file
                THEN [drain EXCEPT ![g].pc = "scan", ![g].todo = disk.lines]
                ELSE [drain EXCEPT ![g] = DrainAt("cleanup")]
    /\ UNCHANGED <<reconnectCh, received, disk, drainOnly, connVars>>

(* One scanner.Scan, and the checks before the line is sent.  A drain that
   finds the connection gone returns without cleaning up. *)
DrainScans(g) ==
    /\ drain[g].pc = "scan"
    /\ drain' = IF drain[g].todo = <<>> \/ stopped THEN [drain EXCEPT ![g] = DrainAt("cleanup")]
                ELSE IF ~connected \/ conn = 0 THEN [drain EXCEPT ![g] = DrainAt("gone")]
                ELSE [drain EXCEPT ![g].pc = "send", ![g].conn = conn]
    /\ UNCHANGED <<reconnectCh, received, disk, drainOnly, connVars>>

DrainSends(g) ==
    /\ drain[g].pc = "send"
    /\ link[drain[g].conn] \in {"live", "broken"}
    /\ received' = IF link[drain[g].conn] = "live" THEN Append(received, Head(drain[g].todo))
                   ELSE received
    /\ drain' = [drain EXCEPT ![g].pc = "scan", ![g].conn = 0, ![g].todo = Tail(@)]
    /\ UNCHANGED <<reconnectCh, disk, drainOnly, connVars>>

DrainFails(g) ==
    /\ drain[g].pc = "send"
    /\ WriteError(drain[g].conn)
    /\ drain' = [drain EXCEPT ![g] = DrainAt("trigger")]
    /\ UNCHANGED <<reconnectCh, received, disk, drainOnly>>

DrainTriggers(g) ==
    /\ drain[g].pc = "trigger"
    /\ triggerReconnect
    /\ drain' = [drain EXCEPT ![g] = DrainAt("gone")]
    /\ UNCHANGED <<received, disk, drainOnly, connVars>>

DrainCleansUp(g) ==
    /\ drain[g].pc = "cleanup"
    /\ disk' = NoDisk
    /\ drain' = [drain EXCEPT ![g] = DrainAt("gone")]
    /\ UNCHANGED <<reconnectCh, received, drainOnly, connVars>>

----------------------------------------------------------------------------
Reader(g) == ReaderLooks(g) \/ ReaderFails(g) \/ ReaderTriggers(g)

Writer(g) ==
    \/ WriterTakes(g) \/ WriterRequeues(g) \/ WriterBuffers(g)
    \/ WriterDrops(g) \/ WriterSends(g) \/ WriterFails(g)
    \/ WriterTriggers(g) \/ WriterCleansUp(g)

Reconnector == ReconnectToken \/ ReconnectDone \/ Reconnect \/ ReconnectFails

Drain(g) ==
    \/ DrainStarts(g) \/ DrainOpens(g) \/ DrainScans(g) \/ DrainSends(g) \/ DrainFails(g)
    \/ DrainTriggers(g) \/ DrainCleansUp(g)

Next ==
    \/ Connect \/ Reconnector
    \/ WriteFrame \/ Enqueue \/ Refuse
    \/ Close \/ CloseCleansUp
    \/ \E g \in Conns :
          \/ Break(g) \/ Reader(g)
          \/ Writer(g) \/ WriterDone(g) \/ PingFails(g)
          \/ Drain(g)

(* Goroutines are scheduled, so every loop that can move does.  The select
   of a writeLoop picks at random among its ready cases, so ctx.Done() is
   taken in the end even while frames keep coming back into the channel:
   strong fairness.  Nothing makes a dial succeed. *)
Fairness ==
    /\ WF_vars(Enqueue \/ Refuse) /\ WF_vars(CloseCleansUp)
    /\ WF_vars(ReconnectDone) /\ WF_vars(ReconnectToken) /\ WF_vars(Reconnect \/ ReconnectFails)
    /\ \A g \in Conns :
          /\ WF_vars(ReaderFails(g) \/ ReaderTriggers(g) \/ (reader[g].conn = 0 /\ ReaderLooks(g)))
          /\ WF_vars(Writer(g)) /\ SF_vars(WriterDone(g)) /\ WF_vars(Drain(g))

Spec == Init /\ [][Next]_vars /\ Fairness

----------------------------------------------------------------------------
(* Every variable has the type of the field or local it stands for. *)
TypeOK ==
    /\ conn \in 0 .. MaxConns /\ connected \in BOOLEAN /\ stopped \in BOOLEAN
    /\ link \in [Conns -> {"none", "live", "failing", "broken", "closed"}]
    /\ breaks \in 0 .. MaxBreaks
    /\ reconnectCh \in 0 .. 1 /\ waiting \in Nat /\ attempting \in Nat /\ disconnectedAt \in {"zero", "set"}
    /\ outgoingCh \in Seq(Frames) /\ Len(outgoingCh) <= ChannelCap
    /\ offered \in 0 .. MaxFrames /\ offer \in 0 .. MaxFrames
    /\ accepted \in Seq(Frames) /\ received \in Seq(Frames)
    /\ \A g \in Conns :
          /\ reader[g] \in [pc : {"none", "read", "trigger", "gone"}, conn : 0 .. MaxConns]
          /\ writer[g] \in [pc : {"none", "select", "send", "requeue", "disk", "trigger",
                                  "cleanup", "gone"},
                            conn : 0 .. MaxConns, frame : 0 .. MaxFrames]
          /\ drain[g].pc \in {"none", "start", "open", "scan", "send", "trigger", "cleanup", "gone"}
          /\ drain[g].todo \in Seq(Frames)
    /\ disk.handle \in {"nil", "open", "closed"} /\ disk.lines \in Seq(Frames)
    /\ disk.file \in 0 .. files /\ files \in Nat
    /\ cleaner \in {"none", "pending", "done"}

(* As long as no write on the first connection has failed and it is up, every
   frame WriteFrame has accepted is with the server, in the hand of the one
   writeLoop or in the channel, once and in the order it was accepted.  Only
   a frame that cannot be marshalled may be missing, and it takes no other
   with it. *)
FirstConnectionIsLossless ==
    link[1] = "live" =>
        LET hand == IF writer[1].pc = "send" THEN <<writer[1].frame>> ELSE <<>>
            underway == received \o hand \o outgoingCh
            InIt(s) == {s[i] : i \in 1 .. Len(s)}
        IN  /\ InIt(accepted) \ BadFrames \subseteq InIt(underway)
            /\ InIt(underway) \subseteq InIt(accepted)
            /\ \A i, j \in 1 .. Len(underway) : i < j => underway[i] < underway[j]

(* connectLocked replaces a connection only after closing it, and no
   reconnectLoop that was asleep during Close dials afterwards: a connection
   that is not closed, in whatever state, is the current one, and none is
   left once the writer is closed. *)
NoLeakedConnection ==
    \A g \in Conns : link[g] \notin {"none", "closed"} => g = conn /\ ~stopped

(* No wake-up is lost in the one-slot reconnectCh: whenever the writer is
   marked disconnected, a token is there, or a loop is about to put one
   there, or a reconnectLoop is trying. *)
DisconnectIsPending ==
    Established # {} /\ ~connected /\ ~stopped =>
        \/ reconnectCh = 1 \/ attempting > 0
        \/ \E g \in Conns : "trigger" \in {reader[g].pc, writer[g].pc, drain[g].pc}

Over(pc) == pc \in {"none", "gone"}
AllGone ==
    /\ waiting = 0 /\ attempting = 0
    /\ \A g \in Conns : Over(reader[g].pc) /\ Over(writer[g].pc) /\ Over(drain[g].pc)

(* A closed writer leaves no temporary file behind, although a writeLoop may
   open a new one after Close's own cleanup has run. *)
NoFileLeftBehind == stopped /\ AllGone /\ cleaner = "done" => disk = NoDisk

(* Close ends every goroutine the writer ever started. *)
CloseEndsLoops == stopped ~> AllGone /\ cleaner = "done"

(* A connection the network has ended is noticed and closed, by a reconnect
   or by Close, even if no frame is ever written to it, and so is one that is
   up but refuses a write. *)
BrokenIsClosed ==
    \A g \in Conns : link[g] \in {"failing", "broken"} ~> link[g] = "closed"

(* reconnectLoop acts when the "connection [is] lost": only Close ends a
   connection that is up. *)
LiveConnectionsSurvive ==
    [][\A g \in Conns : link[g] = "live" /\ link'[g] = "closed" => stopped']_vars

(* A drain that loses its connection returns without cleaning up, "keep the
   buffer for next reconnect": when a drain has been aborted and none is
   running, nothing but Close removes the file. *)
AbortedDrain ==
    /\ disk.handle = "closed"
    /\ \A g \in Conns : drain[g].pc \notin {"open", "scan", "send", "cleanup"}

BufferIsKept == [][AbortedDrain /\ ~stopped /\ ~stopped' => disk' # NoDisk]_vars
=============================================================================
