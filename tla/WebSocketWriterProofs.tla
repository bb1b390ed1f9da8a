------------------------ MODULE WebSocketWriterProofs ------------------------
(***************************************************************************)
(* Proofs about WebSocketWriter for every number of connections, network   *)
(* failures and frames and every size of the channel.                      *)
(***************************************************************************)
EXTENDS WebSocketWriter, SequenceTheorems, TLAPS

Readers == [pc : {"none", "read", "trigger", "gone"}, conn : 0 .. MaxConns]
Writers == [pc : {"none", "select", "send", "requeue", "disk", "trigger", "cleanup", "gone"},
            conn : 0 .. MaxConns, frame : 0 .. MaxFrames]
Drains == [pc : {"none", "start", "open", "scan", "send", "trigger", "cleanup", "gone"},
           conn : 0 .. MaxConns, file : Nat, todo : Seq(Frames)]
Disks == [handle : {"nil", "open", "closed"}, file : Nat, lines : Seq(Frames)]
Links == [Conns -> {"none", "live", "failing", "broken", "closed"}]

(* The types, group by group as the steps leave them alone. *)
ConnOK ==
    /\ conn \in 0 .. MaxConns /\ connected \in BOOLEAN /\ link \in Links
    /\ breaks \in 0 .. MaxBreaks /\ disconnectedAt \in {"zero", "set"}
    /\ stopped \in BOOLEAN /\ cleaner \in {"none", "pending", "done"}
ReconnectOK == reconnectCh \in 0 .. 1 /\ waiting \in Nat /\ attempting \in Nat
PollerOK ==
    /\ offered \in 0 .. MaxFrames /\ offer \in 0 .. MaxFrames
    /\ accepted \in Seq(Frames)
ChannelOK == outgoingCh \in Seq(Frames) /\ Len(outgoingCh) <= ChannelCap /\ received \in Seq(Frames)
LoopsOK ==
    /\ reader \in [Conns -> Readers] /\ writer \in [Conns -> Writers]
    /\ drain \in [Conns -> Drains]
DiskOK == disk \in Disks /\ files \in Nat /\ disk.file \in 0 .. files

(* A writeLoop holds a frame while it deals with it, and a drain a line. *)
HandOK ==
    \A g \in Conns :
        /\ writer[g].pc \in {"send", "requeue", "disk"} => writer[g].frame \in Frames
        /\ drain[g].pc = "send" => drain[g].todo # <<>>

Typed == ConnOK /\ ReconnectOK /\ PollerOK /\ ChannelOK /\ LoopsOK /\ DiskOK /\ HandOK

(* Connections are numbered as they are established, a writer that was never
   connected has not been used, and Close comes after a connection. *)
Unused ==
    link[1] = "none" =>
        /\ Established = {} /\ ~stopped
        /\ conn = 0 /\ reconnectCh = 0 /\ waiting = 0 /\ attempting = 0
        /\ outgoingCh = <<>> /\ offer = 0 /\ accepted = <<>> /\ received = <<>>
        /\ \A g \in Conns : reader[g].pc = "none" /\ writer[g].pc = "none" /\ drain[g].pc = "none"

(* As long as the first connection is up its three loops are the only ones,
   none of them has failed, and the writeLoop sends on that connection. *)
OnlyFirst ==
    link[1] = "live" =>
        /\ connected /\ reconnectCh = 0 /\ attempting = 0
        /\ \A g \in Conns : drain[g].pc = "none"
        /\ \A g \in Conns \ {1} : reader[g].pc = "none" /\ writer[g].pc = "none"
        /\ reader[1].pc = "read" /\ reader[1].conn = 1
        /\ writer[1].pc \in {"select", "send"}
        /\ writer[1].pc = "send" => writer[1].conn = 1

(* A file on disk has a writeLoop that will remove it when it ends. *)
SomeoneCleansUp == disk # NoDisk => \E g \in Conns : ~Over(writer[g].pc)

(* Frames are numbered as they are offered. *)
OfferOrder ==
    /\ offer # 0 => offer = offered
    /\ \A i \in 1 .. Len(accepted) :
          accepted[i] <= offered /\ (offer # 0 => accepted[i] < offer)

IInv ==
    /\ Typed
    /\ NoLeakedConnection /\ DisconnectIsPending
    /\ Unused /\ OnlyFirst /\ SomeoneCleansUp /\ OfferOrder
    /\ FirstConnectionIsLossless

----------------------------------------------------------------------------
(* Types *)

LEMMA FirstConn == 1 \in Conns /\ Conns \subseteq 1 .. MaxConns /\ 0 \notin Conns
  BY WebSocketAssumption DEF WebSocketAssumption, Conns

LEMMA ConnSame ==
    ASSUME ConnOK, connVars' = connVars, stopped' = stopped, cleaner' = cleaner
    PROVE  ConnOK'
  BY Zenon DEF ConnOK, connVars

LEMMA ConnLost ==
    ASSUME ConnOK, connected' = FALSE, disconnectedAt' \in {"zero", "set"},
           conn' = conn, link' = link, breaks' = breaks, stopped' = stopped, cleaner' = cleaner
    PROVE  ConnOK'
  BY Zenon DEF ConnOK

(* A write error changes at most the state of a connection that is up. *)
LEMMA WriteErrorShape ==
    ASSUME ConnOK, NEW c, WriteError(c)
    PROVE  /\ link' \in Links
           /\ \/ link' = link
              \/ \E g \in Conns : link[g] = "live" /\ link' = [link EXCEPT ![g] = "failing"]
           /\ breaks' \in 0 .. MaxBreaks
<1>1. link \in Links /\ breaks \in 0 .. MaxBreaks BY DEF ConnOK
<1>2. CASE UNCHANGED <<link, breaks>> BY <1>1, <1>2
<1>3. CASE /\ link[c] = "live" /\ breaks < MaxBreaks
           /\ link' = [link EXCEPT ![c] = "failing"] /\ breaks' = breaks + 1
  <2>1. breaks' \in 0 .. MaxBreaks
    BY <1>1, <1>3, WebSocketAssumption DEF WebSocketAssumption
  <2>2. CASE c \in Conns BY <1>1, <1>3, <2>1, <2>2 DEF Links
  <2>3. CASE c \notin Conns
    <3>1. link' = link BY <1>1, <1>3, <2>3 DEF Links
    <3> QED BY <1>1, <2>1, <3>1
  <2> QED BY <2>2, <2>3
<1> QED BY <1>2, <1>3 DEF WriteError

LEMMA WriteErrorTyped ==
    ASSUME ConnOK, NEW c, WriteError(c), stopped' = stopped, cleaner' = cleaner
    PROVE  ConnOK'
<1>1. link' \in Links /\ breaks' \in 0 .. MaxBreaks BY WriteErrorShape
<1>2. connected' = FALSE /\ disconnectedAt' = "set" /\ conn' = conn
  BY Zenon DEF WriteError
<1> QED BY <1>1, <1>2, Zenon DEF ConnOK

LEMMA CloseLinkTyped ==
    ASSUME link \in Links
    PROVE  /\ CloseLink(link) \in Links
           /\ \A g \in Conns : CloseLink(link)[g] = IF g = conn THEN "closed" ELSE link[g]
  BY DEF Links, CloseLink

(* What connectLocked does, with the links as the caller leaves them. *)
Connected(l, g) ==
    /\ l[g] = "none" /\ \A h \in Conns : h < g => l[h] # "none"
    /\ conn' = g /\ connected' = TRUE
    /\ link' \in Links /\ link'[g] = "live" /\ \A h \in Conns \ {g} : link'[h] = l[h]
    /\ reader' \in [Conns -> Readers]
    /\ reader'[g].pc = "read" /\ reader'[g].conn = g
    /\ \A h \in Conns \ {g} : reader'[h] = reader[h]
    /\ writer' \in [Conns -> Writers]
    /\ writer'[g].pc = "select" /\ \A h \in Conns \ {g} : writer'[h] = writer[h]
    /\ UNCHANGED <<breaks, disconnectedAt, stopped, reconnectCh, cleaner, traffic, diskVars>>

LEMMA ConnectShape ==
    ASSUME LoopsOK, NEW l \in Links, NEW n \in Nat, ConnectLocked(l, n)
    PROVE  (\E g \in Conns : Connected(l, g)) /\ waiting' = waiting + n
<1>1. PICK g \in Conns :
        /\ l[g] = "none" /\ \A h \in Conns : h < g => l[h] # "none"
        /\ conn' = g /\ connected' = TRUE
        /\ link' = [l EXCEPT ![g] = "live"]
        /\ reader' = [reader EXCEPT ![g] = [pc |-> "read", conn |-> g]]
        /\ writer' = [writer EXCEPT ![g].pc = "select"]
        /\ waiting' = waiting + n
        /\ UNCHANGED <<breaks, disconnectedAt, stopped, reconnectCh, cleaner, traffic, diskVars>>
  BY Zenon DEF ConnectLocked
<1>2. link' \in Links /\ link'[g] = "live" /\ \A h \in Conns \ {g} : link'[h] = l[h]
  BY <1>1 DEF Links
<1>3. [pc |-> "read", conn |-> g] \in Readers BY FirstConn DEF Readers, Conns
<1>4. /\ reader' \in [Conns -> Readers]
      /\ reader'[g].pc = "read" /\ reader'[g].conn = g
      /\ \A h \in Conns \ {g} : reader'[h] = reader[h]
  BY <1>1, <1>3 DEF LoopsOK
<1>5. /\ writer' \in [Conns -> Writers]
      /\ writer'[g].pc = "select" /\ \A h \in Conns \ {g} : writer'[h] = writer[h]
  BY <1>1 DEF LoopsOK, Writers
<1> QED BY <1>1, <1>2, <1>4, <1>5 DEF Connected

LEMMA ConnectedTyped ==
    ASSUME Typed, NEW l \in Links, NEW g \in Conns, Connected(l, g)
    PROVE  /\ ConnOK' /\ reconnectCh' \in 0 .. 1 /\ PollerOK' /\ ChannelOK' /\ DiskOK'
           /\ reader' \in [Conns -> Readers] /\ writer' \in [Conns -> Writers]
           /\ \A h \in Conns :
                 writer'[h].pc \in {"send", "requeue", "disk"} => writer'[h].frame \in Frames
<1> USE DEF Connected, Typed
<1>1. ConnOK' BY FirstConn DEF ConnOK, Conns
<1>2. PollerOK' /\ ChannelOK' /\ reconnectCh' \in 0 .. 1
  BY DEF traffic, pollerVars, PollerOK, ChannelOK, ReconnectOK
<1>3. DiskOK' BY DEF diskVars, DiskOK
<1>4. \A h \in Conns :
         writer'[h].pc \in {"send", "requeue", "disk"} => writer'[h].frame \in Frames
  BY DEF HandOK
<1> QED BY <1>1, <1>2, <1>3, <1>4

LEMMA ConnectTyped == ASSUME Typed, Connect PROVE Typed'
<1>1. PICK g \in Conns : Connected(link, g)
  BY ConnectShape DEF Connect, Typed, ConnOK
<1>2. waiting' = waiting + 1 /\ UNCHANGED <<attempting, drain>>
  BY ConnectShape DEF Connect, Typed, ConnOK
<1>3. ReconnectOK' BY <1>2, <1>1, ConnectedTyped DEF ReconnectOK, Typed, ConnOK
<1>4. LoopsOK' /\ HandOK'
  BY <1>1, <1>2, ConnectedTyped DEF LoopsOK, HandOK, Typed, ConnOK
<1> QED BY <1>1, <1>3, <1>4, ConnectedTyped DEF Typed, ConnOK

(* What Reconnect does to the connections and to the drains. *)
LEMMA ReconnectShape ==
    ASSUME Typed, Reconnect
    PROVE  \E g \in Conns :
              /\ Connected(CloseLink(link), g)
              /\ drain' \in [Conns -> Drains]
              /\ drain'[g].pc = "start" /\ \A h \in Conns \ {g} : drain'[h] = drain[h]
              /\ waiting' = waiting + 2 /\ attempting' = attempting - 1
              /\ attempting > 0 /\ ~stopped
<1>1. CloseLink(link) \in Links BY CloseLinkTyped DEF Typed, ConnOK
<1>2. PICK g \in Conns : Connected(CloseLink(link), g)
  BY <1>1, ConnectShape DEF Reconnect, Typed
<1>3. waiting' = waiting + 2
  BY <1>1, ConnectShape DEF Reconnect, Typed
<1>4. drain' = [drain EXCEPT ![g].pc = "start"]
  BY <1>2 DEF Reconnect, Connected
<1>5. [drain[g] EXCEPT !.pc = "start"] \in Drains
  BY DEF Typed, LoopsOK, Drains
<1>6. /\ drain' \in [Conns -> Drains]
      /\ drain'[g].pc = "start" /\ \A h \in Conns \ {g} : drain'[h] = drain[h]
  <2>1. drain' = [drain EXCEPT ![g] = [drain[g] EXCEPT !.pc = "start"]]
    BY <1>4, Zenon
  <2>2. [drain[g] EXCEPT !.pc = "start"].pc = "start"
    BY DEF Typed, LoopsOK, Drains
  <2> QED BY <1>5, <2>1, <2>2 DEF Typed, LoopsOK
<1> QED BY <1>2, <1>3, <1>6 DEF Reconnect

LEMMA ReconnectTyped == ASSUME Typed, Reconnect PROVE Typed'
<1>1. CloseLink(link) \in Links BY CloseLinkTyped DEF Typed, ConnOK
<1>2. PICK g \in Conns :
              /\ Connected(CloseLink(link), g)
              /\ drain' \in [Conns -> Drains]
              /\ drain'[g].pc = "start" /\ \A h \in Conns \ {g} : drain'[h] = drain[h]
              /\ waiting' = waiting + 2 /\ attempting' = attempting - 1
              /\ attempting > 0 /\ ~stopped
  BY ReconnectShape
<1>3. ReconnectOK' BY <1>1, <1>2, ConnectedTyped DEF ReconnectOK, Typed
<1>4. LoopsOK' /\ HandOK'
  BY <1>1, <1>2, ConnectedTyped DEF LoopsOK, HandOK, Typed
<1> QED BY <1>1, <1>2, <1>3, <1>4, ConnectedTyped DEF Typed

(* The poller, Close, the network and a reconnectLoop that does not connect
   leave the loops of the connections alone. *)
LEMMA CallsTyped ==
    ASSUME Typed, WriteFrame \/ Enqueue \/ Refuse
    PROVE  Typed'
<1> USE DEF Typed
<1>1. ConnOK' /\ ReconnectOK' /\ LoopsOK' /\ DiskOK' /\ HandOK'
  BY DEF WriteFrame, Enqueue, Refuse, pollerOnly, connVars, reconnectVars, loops, diskVars, ConnOK,
     ReconnectOK, LoopsOK, DiskOK, HandOK
<1>2. CASE WriteFrame
  BY <1>1, <1>2, WebSocketAssumption DEF WebSocketAssumption, WriteFrame, pollerOnly, PollerOK,
     ChannelOK
<1>3. CASE Enqueue
  <2>1. offer \in Frames BY <1>3 DEF Enqueue, PollerOK, Frames
  <2>2. outgoingCh' \in Seq(Frames) /\ Len(outgoingCh') <= ChannelCap /\ accepted' \in Seq(Frames)
    BY <1>3, <2>1, AppendProperties, WebSocketAssumption DEF WebSocketAssumption, Enqueue, PollerOK,
       ChannelOK
  <2> QED BY <1>1, <1>3, <2>2, WebSocketAssumption DEF WebSocketAssumption, Enqueue, pollerOnly,
        PollerOK, ChannelOK
<1>4. CASE Refuse
  BY <1>1, <1>4, WebSocketAssumption DEF WebSocketAssumption, Refuse, pollerOnly, PollerOK, ChannelOK
<1> QED BY <1>2, <1>3, <1>4

LEMMA OtherTyped ==
    ASSUME Typed,
           \/ Close \/ CloseCleansUp \/ ReconnectToken \/ ReconnectDone \/ ReconnectFails
           \/ \E g \in Conns : Break(g)
           \/ UNCHANGED vars
    PROVE  Typed'
<1> USE DEF Typed
<1>1. PollerOK' /\ ChannelOK' /\ LoopsOK' /\ HandOK'
  BY DEF Close, CloseCleansUp, ReconnectToken, ReconnectDone, ReconnectFails, Break, reconnectOnly,
     vars, traffic, pollerVars, loops, PollerOK, ChannelOK, LoopsOK, HandOK
<1>2. ReconnectOK'
  BY DEF Close, CloseCleansUp, ReconnectToken, ReconnectDone, ReconnectFails, Break, reconnectVars,
     vars, ReconnectOK
<1>3. DiskOK'
  <2>1. NoDisk \in Disks /\ NoDisk.file = 0 BY DEF NoDisk, Disks
  <2> QED BY <2>1 DEF Close, CloseCleansUp, ReconnectToken, ReconnectDone, ReconnectFails, Break,
        reconnectOnly, vars, diskVars, cleanupDiskBuffer, DiskOK
<1>4. ConnOK'
  <2>1. CASE Close \/ ReconnectFails
    <3>1. link' \in Links BY <2>1, CloseLinkTyped DEF ConnOK, Close, ReconnectFails
    <3>2. /\ conn' \in {conn, 0} /\ UNCHANGED <<breaks, disconnectedAt>>
          /\ connected' = connected \/ connected' = FALSE
          /\ stopped' = stopped \/ stopped' = TRUE
          /\ cleaner' = cleaner \/ cleaner' = "pending"
      BY <2>1, Zenon DEF Close, ReconnectFails, reconnectOnly
    <3>3. connected' \in BOOLEAN /\ stopped' \in BOOLEAN BY <3>2, Zenon DEF ConnOK
    <3>4. conn' \in 0 .. MaxConns BY <3>2, WebSocketAssumption DEF WebSocketAssumption, ConnOK
    <3> QED BY <3>1, <3>2, <3>3, <3>4, Zenon DEF ConnOK
  <2>2. CASE \E g \in Conns : Break(g)
    BY <2>2, WebSocketAssumption DEF WebSocketAssumption, ConnOK, Break, Links, reconnectOnly
  <2>3. CASE ReconnectToken \/ ReconnectDone \/ UNCHANGED vars
    BY <2>3, ConnSame, Zenon DEF ReconnectToken, ReconnectDone, vars, reconnectOnly
  <2>4. CASE CloseCleansUp
    BY <2>4, Zenon DEF CloseCleansUp, connVars, ConnOK
  <2> QED BY <2>1, <2>2, <2>3, <2>4
<1> QED BY <1>1, <1>2, <1>3, <1>4

LEMMA ReaderTyped ==
    ASSUME Typed, NEW g \in Conns, Reader(g)
    PROVE  Typed'
<1> USE DEF Typed
<1>1. PollerOK' /\ ChannelOK' /\ DiskOK'
  BY DEF Reader, ReaderLooks, ReaderFails, ReaderTriggers, readOnly, traffic, pollerVars, diskVars,
     PollerOK, ChannelOK, DiskOK
<1>2. ConnOK'
  <2>1. CASE ReaderFails(g)
    <3>1. disconnectedAt' \in {"zero", "set"} BY <2>1, Zenon DEF ReaderFails, ConnOK
    <3> QED BY <2>1, <3>1, ConnLost, Zenon DEF ReaderFails, readOnly
  <2>2. CASE ~ReaderFails(g)
    BY <2>2, ConnSame, Zenon DEF Reader, ReaderLooks, ReaderTriggers, readOnly
  <2> QED BY <2>1, <2>2
<1>5. ReconnectOK'
  BY DEF Reader, ReaderLooks, ReaderFails, ReaderTriggers, triggerReconnect, readOnly, ReconnectOK
<1>3. UNCHANGED <<writer, drain>>
  BY DEF Reader, ReaderLooks, ReaderFails, ReaderTriggers, readOnly
<1>4. reader' \in [Conns -> Readers]
  <2>1. CASE ReaderLooks(g)
    BY <2>1, WebSocketAssumption DEF WebSocketAssumption, ReaderLooks, LoopsOK, Readers, ConnOK
  <2>2. CASE ReaderFails(g)
    BY <2>2, WebSocketAssumption DEF WebSocketAssumption, ReaderFails, LoopsOK, Readers
  <2>3. CASE ReaderTriggers(g) BY <2>3 DEF ReaderTriggers, LoopsOK, Readers
  <2> QED BY <2>1, <2>2, <2>3 DEF Reader
<1> QED BY <1>1, <1>2, <1>3, <1>4, <1>5 DEF LoopsOK, HandOK

(* The whole of a writeLoop, with the select's other cases. *)
WriteLoop(g) == Writer(g) \/ WriterDone(g) \/ PingFails(g)

LEMMA SetWriterTyped ==
    ASSUME LoopsOK, HandOK, NEW g \in Conns, UNCHANGED <<reader, drain>>,
           NEW x \in Writers, writer' = [writer EXCEPT ![g] = x],
           x.pc \in {"send", "requeue", "disk"} => x.frame \in Frames
    PROVE  LoopsOK' /\ HandOK'
<1>1. writer' \in [Conns -> Writers] BY DEF LoopsOK
<1>2. writer'[g] = x /\ \A h \in Conns \ {g} : writer'[h] = writer[h] BY DEF LoopsOK
<1> QED BY <1>1, <1>2 DEF LoopsOK, HandOK

LEMMA WriterTyped ==
    ASSUME Typed, NEW g \in Conns, WriteLoop(g)
    PROVE  Typed'
<1> USE DEF Typed
<1>a. 0 \in 0 .. MaxConns /\ 0 \in 0 .. MaxFrames
  BY WebSocketAssumption DEF WebSocketAssumption
<1>b. writer[g] \in Writers BY DEF LoopsOK
<1>1. ASSUME NEW pc \in {"select", "trigger", "cleanup", "gone"}, SetWriter(g, pc),
             UNCHANGED <<reader, drain>>
      PROVE  LoopsOK' /\ HandOK'
  <2> DEFINE x == [pc |-> pc, conn |-> 0, frame |-> 0]
  <2>1. x \in Writers /\ x.pc \notin {"send", "requeue", "disk"} BY <1>a DEF Writers
  <2> QED BY <1>1, <2>1, SetWriterTyped DEF SetWriter
<1>2. PollerOK'
  BY DEF WriteLoop, Writer, WriterTakes, WriterRequeues, WriterBuffers, WriterDrops, WriterSends, WriterFails,
     WriterTriggers, WriterCleansUp, WriterDone, PingFails, writerOnly, pollerVars, PollerOK
<1>3. UNCHANGED <<reader, drain>>
  BY DEF WriteLoop, Writer, WriterTakes, WriterRequeues, WriterBuffers, WriterDrops, WriterSends, WriterFails,
     WriterTriggers, WriterCleansUp, WriterDone, PingFails, writerOnly
<1>c. ReconnectOK'
  BY DEF WriteLoop, Writer, WriterTakes, WriterRequeues, WriterBuffers, WriterDrops, WriterSends, WriterFails,
     WriterTriggers, WriterCleansUp, WriterDone, PingFails, writerOnly, triggerReconnect,
     ReconnectOK
<1>d. ConnOK'
  <2>1. CASE WriterFails(g) \/ PingFails(g)
    BY <2>1, WriteErrorTyped, Zenon DEF WriterFails, PingFails, writerOnly
  <2>2. CASE ~(WriterFails(g) \/ PingFails(g))
    BY <2>2, ConnSame, Zenon DEF WriteLoop, Writer, WriterTakes, WriterRequeues, WriterBuffers,
       WriterDrops, WriterSends, WriterTriggers, WriterCleansUp, WriterDone, writerOnly
  <2> QED BY <2>1, <2>2
<1>4. ConnOK' /\ ReconnectOK' BY <1>c, <1>d
<1>5. CASE WriterTakes(g)
  <2>1. PICK pc \in {"send", "requeue", "disk"} :
            writer' = [writer EXCEPT ![g] = [pc |-> pc, conn |-> IF pc = "send" THEN conn ELSE 0,
                                             frame |-> Head(outgoingCh)]]
    BY <1>5, Zenon DEF WriterTakes
  <2> DEFINE x == [pc |-> pc, conn |-> IF pc = "send" THEN conn ELSE 0, frame |-> Head(outgoingCh)]
  <2>2. outgoingCh # <<>> BY <1>5 DEF WriterTakes
  <2>3. /\ Head(outgoingCh) \in Frames /\ Tail(outgoingCh) \in Seq(Frames)
        /\ Len(Tail(outgoingCh)) = Len(outgoingCh) - 1
    BY <2>2, HeadTailProperties DEF ChannelOK
  <2>4. x \in Writers BY <2>3, <1>a DEF Writers, ConnOK, Frames
  <2>5. LoopsOK' /\ HandOK' BY <1>3, <2>1, <2>3, <2>4, SetWriterTyped
  <2>6. ChannelOK'
    <3>1. Len(outgoingCh) \in Nat BY LenProperties DEF ChannelOK
    <3> QED BY <1>5, <2>3, <3>1, WebSocketAssumption DEF WebSocketAssumption, WriterTakes, ChannelOK
  <2>7. DiskOK' BY <1>5 DEF WriterTakes, diskVars, DiskOK
  <2> QED BY <1>2, <1>4, <2>5, <2>6, <2>7
<1>6. CASE WriterRequeues(g)
  <2>1. writer[g].frame \in Frames BY <1>6 DEF WriterRequeues, HandOK
  <2>2. ChannelOK'
    BY <1>6, <2>1, AppendProperties, WebSocketAssumption DEF WebSocketAssumption, WriterRequeues,
       ChannelOK
  <2>3. DiskOK' BY <1>6 DEF WriterRequeues, diskVars, DiskOK
  <2> QED BY <1>1, <1>2, <1>3, <1>4, <1>6, <2>2, <2>3 DEF WriterRequeues
<1>7. CASE WriterBuffers(g)
  <2>1. writer[g].frame \in Frames BY <1>7 DEF WriterBuffers, HandOK
  <2>2. ChannelOK' BY <1>7 DEF WriterBuffers, ChannelOK
  <2>3. DiskOK'
    <3>1. ASSUME NEW line \in {<<>>} \cup {<<f>> : f \in {writer[g].frame} \ BadFrames},
                 \/ /\ files' = files + 1
                    /\ disk' = [handle |-> "open", file |-> files + 1, lines |-> line]
                 \/ disk' = [disk EXCEPT !.lines = @ \o line] /\ UNCHANGED files
          PROVE  DiskOK'
      <4>1. line \in Seq(Frames)
        <5>1. <<>> \in Seq(Frames) /\ <<writer[g].frame>> \in Seq(Frames) BY <2>1, EmptySeq
        <5> QED BY <5>1
      <4>2. disk.lines \o line \in Seq(Frames)
        BY <4>1, ConcatProperties DEF DiskOK, Disks
      <4>3. CASE /\ files' = files + 1
                 /\ disk' = [handle |-> "open", file |-> files + 1, lines |-> line]
        BY <4>1, <4>3 DEF DiskOK, Disks
      <4>4. CASE disk' = [disk EXCEPT !.lines = @ \o line] /\ UNCHANGED files
        BY <4>2, <4>4 DEF DiskOK, Disks
      <4> QED BY <3>1, <4>3, <4>4
    <3>3. CASE UNCHANGED diskVars BY <3>3 DEF diskVars, DiskOK
    <3> QED BY <1>7, <3>1, <3>3, Zenon DEF WriterBuffers
  <2> QED BY <1>1, <1>2, <1>3, <1>4, <1>7, <2>2, <2>3 DEF WriterBuffers
<1>8. CASE WriterSends(g)
  <2>1. writer[g].frame \in Frames BY <1>8 DEF WriterSends, HandOK
  <2>2. ChannelOK' BY <1>8, <2>1, AppendProperties DEF WriterSends, ChannelOK
  <2>3. DiskOK' BY <1>8 DEF WriterSends, diskVars, DiskOK
  <2> QED BY <1>1, <1>2, <1>3, <1>4, <1>8, <2>2, <2>3 DEF WriterSends
<1>9. CASE WriterDrops(g) \/ WriterFails(g) \/ WriterTriggers(g) \/ WriterDone(g) \/ PingFails(g)
  <2>1. ChannelOK' /\ DiskOK'
    BY <1>9 DEF WriterDrops, WriterFails, WriterTriggers, WriterDone, PingFails, diskVars, ChannelOK,
       DiskOK
  <2> QED BY <1>1, <1>2, <1>3, <1>4, <1>9, <2>1 DEF WriterDrops, WriterFails, WriterTriggers,
        WriterDone, PingFails
<1>10. CASE WriterCleansUp(g)
  <2>1. NoDisk \in Disks /\ NoDisk.file = 0 BY DEF NoDisk, Disks
  <2>2. ChannelOK' /\ DiskOK'
    BY <1>10, <2>1 DEF WriterCleansUp, cleanupDiskBuffer, ChannelOK, DiskOK
  <2> QED BY <1>1, <1>2, <1>3, <1>4, <1>10, <2>2 DEF WriterCleansUp
<1> QED BY <1>5, <1>6, <1>7, <1>8, <1>9, <1>10 DEF WriteLoop, Writer

LEMMA DrainTyped ==
    ASSUME Typed, NEW g \in Conns, Drain(g)
    PROVE  Typed'
<1> USE DEF Typed
<1>a. drain[g] \in Drains BY DEF LoopsOK
<1>e. 0 \in 0 .. MaxConns BY WebSocketAssumption DEF WebSocketAssumption
<1>b. \A pc \in {"cleanup", "gone", "trigger"} : DrainAt(pc) \in Drains
  BY WebSocketAssumption DEF WebSocketAssumption, DrainAt, Drains
<1>c. disk.file \in Nat /\ disk.lines \in Seq(Frames) BY DEF DiskOK, Disks
<1>1. PollerOK' /\ UNCHANGED <<reader, writer>>
  BY DEF Drain, DrainStarts, DrainOpens, DrainScans, DrainSends, DrainFails, DrainTriggers,
     DrainCleansUp, drainOnly, pollerVars, PollerOK
<1>d. ReconnectOK'
  BY DEF Drain, DrainStarts, DrainOpens, DrainScans, DrainSends, DrainFails, DrainTriggers,
     DrainCleansUp, drainOnly, triggerReconnect, ReconnectOK
<1>2. ConnOK'
  <2>1. CASE DrainFails(g)
    BY <2>1, WriteErrorTyped, Zenon DEF DrainFails, drainOnly
  <2>2. CASE ~DrainFails(g)
    BY <2>2, ConnSame, Zenon DEF Drain, DrainStarts, DrainOpens, DrainScans, DrainSends,
       DrainTriggers, DrainCleansUp, drainOnly
  <2> QED BY <2>1, <2>2
<1>3. DiskOK'
  <2>1. NoDisk \in Disks /\ NoDisk.file = 0 BY DEF NoDisk, Disks
  <2>2. disk' \in {disk, NoDisk, [disk EXCEPT !.handle = "closed"]} /\ files' = files
    BY DEF Drain, DrainStarts, DrainOpens, DrainScans, DrainSends, DrainFails, DrainTriggers,
       DrainCleansUp, drainOnly
  <2> QED BY <2>1, <2>2 DEF DiskOK, Disks
<1>4. ChannelOK'
  <2>1. CASE DrainSends(g)
    <3>1. drain[g].todo # <<>> /\ drain[g].todo \in Seq(Frames)
      BY <1>a, <2>1 DEF DrainSends, HandOK, Drains
    <3>2. Append(received, Head(drain[g].todo)) \in Seq(Frames)
      BY <3>1, HeadTailProperties, AppendProperties DEF ChannelOK
    <3> QED BY <2>1, <3>2 DEF DrainSends, drainOnly, ChannelOK
  <2>2. CASE ~DrainSends(g)
    BY <2>2 DEF Drain, DrainStarts, DrainOpens, DrainScans, DrainFails, DrainTriggers,
     DrainCleansUp, drainOnly, ChannelOK
  <2> QED BY <2>1, <2>2
<1>5. \E x \in Drains : /\ drain' = [drain EXCEPT ![g] = x]
                        /\ x.pc = "send" => x.todo # <<>>
  <2> DEFINE Good(x) == x \in Drains /\ (x.pc = "send" => x.todo # <<>>)
  <2>1. \A pc \in {"cleanup", "gone", "trigger"} : Good(DrainAt(pc))
    BY <1>b DEF DrainAt
  <2>2. CASE DrainStarts(g)
    <3> DEFINE y == [drain[g] EXCEPT !.pc = "open", !.file = disk.file]
    <3>1. Good(y) BY <1>a, <1>c DEF Drains
    <3>2. drain' = [drain EXCEPT ![g] = y] \/ drain' = [drain EXCEPT ![g] = DrainAt("gone")]
      BY <2>2, Zenon DEF DrainStarts
    <3> QED BY ONLY <2>1, <3>1, <3>2
  <2>3. CASE DrainOpens(g)
    <3> DEFINE y == [drain[g] EXCEPT !.pc = "scan", !.todo = disk.lines]
    <3>1. Good(y) BY <1>a, <1>c DEF Drains
    <3>2. drain' = [drain EXCEPT ![g] = y] \/ drain' = [drain EXCEPT ![g] = DrainAt("cleanup")]
      BY <2>3, Zenon DEF DrainOpens
    <3> QED BY ONLY <2>1, <3>1, <3>2
  <2>4. CASE DrainScans(g)
    <3> DEFINE y == [drain[g] EXCEPT !.pc = "send", !.conn = conn]
    <3>1. y \in Drains BY <1>a DEF Drains, ConnOK
    <3>2. y.todo = drain[g].todo BY <1>a DEF Drains
    <3>3. \/ drain' = [drain EXCEPT ![g] = y] /\ drain[g].todo # <<>>
          \/ drain' = [drain EXCEPT ![g] = DrainAt("cleanup")]
          \/ drain' = [drain EXCEPT ![g] = DrainAt("gone")]
      BY <2>4, Zenon DEF DrainScans
    <3> HIDE DEF y
    <3> QED BY ONLY <2>1, <3>1, <3>2, <3>3
  <2>5. CASE DrainSends(g)
    <3> DEFINE y == [drain[g] EXCEPT !.pc = "scan", !.conn = 0, !.todo = Tail(@)]
    <3>1. Tail(drain[g].todo) \in Seq(Frames)
      BY <1>a, <2>5, HeadTailProperties DEF DrainSends, HandOK, Drains
    <3>2. y \in Drains
      <4>1. \A d \in Drains, t \in Seq(Frames) :
               [d EXCEPT !.pc = "scan", !.conn = 0, !.todo = t] \in Drains
        BY <1>e DEF Drains
      <4> QED BY <1>a, <3>1, <4>1, Zenon
    <3>3. y.pc = "scan" BY <1>a, Zenon DEF Drains
    <3>4. drain' = [drain EXCEPT ![g] = y] BY <2>5, Zenon DEF DrainSends
    <3> HIDE DEF y
    <3> QED BY ONLY <3>2, <3>3, <3>4
  <2>6. CASE DrainFails(g) \/ DrainTriggers(g) \/ DrainCleansUp(g)
    BY <2>1, <2>6 DEF DrainFails, DrainTriggers, DrainCleansUp
  <2> QED BY <2>2, <2>3, <2>4, <2>5, <2>6 DEF Drain
<1>6. LoopsOK' /\ HandOK'
  <2>1. PICK x \in Drains : /\ drain' = [drain EXCEPT ![g] = x]
                            /\ x.pc = "send" => x.todo # <<>>
    BY <1>5
  <2>2. drain' \in [Conns -> Drains] BY <2>1 DEF LoopsOK
  <2>3. drain'[g] = x /\ \A h \in Conns \ {g} : drain'[h] = drain[h] BY <2>1 DEF LoopsOK
  <2> QED BY <1>1, <2>1, <2>2, <2>3 DEF LoopsOK, HandOK
<1> QED BY <1>1, <1>2, <1>3, <1>4, <1>6, <1>d

LEMMA StepTyped == ASSUME Typed, [Next]_vars PROVE Typed'
<1>1. CASE Connect BY <1>1, ConnectTyped
<1>2. CASE Reconnect BY <1>2, ReconnectTyped
<1>3. CASE WriteFrame \/ Enqueue \/ Refuse BY <1>3, CallsTyped
<1>4. CASE \/ Close \/ CloseCleansUp \/ ReconnectToken \/ ReconnectDone \/ ReconnectFails
           \/ \E g \in Conns : Break(g)
           \/ UNCHANGED vars
  BY <1>4, OtherTyped
<1>5. ASSUME NEW g \in Conns, Reader(g) \/ WriteLoop(g) \/ Drain(g) PROVE Typed'
  BY <1>5, ReaderTyped, WriterTyped, DrainTyped
<1> QED BY <1>1, <1>2, <1>3, <1>4, <1>5 DEF Next, Reconnector, WriteLoop

LEMMA InitTyped == Init => Typed
<1> SUFFICES ASSUME Init PROVE Typed OBVIOUS
<1> USE WebSocketAssumption DEF WebSocketAssumption
<1>1. ConnOK
  <2>1. conn \in 0 .. MaxConns /\ link \in Links /\ breaks \in 0 .. MaxBreaks
    BY DEF Init, Links
  <2> QED BY <2>1, Zenon DEF Init, ConnOK
<1>2. ReconnectOK /\ PollerOK /\ ChannelOK
  BY EmptySeq DEF Init, ReconnectOK, PollerOK, ChannelOK
<1>3. /\ [pc |-> "none", conn |-> 0] \in Readers
      /\ [pc |-> "none", conn |-> 0, frame |-> 0] \in Writers
      /\ DrainAt("none") \in Drains
  BY EmptySeq DEF Readers, Writers, Drains, DrainAt
<1>4. LoopsOK BY <1>3 DEF Init, LoopsOK
<1>5. HandOK BY DEF Init, HandOK, DrainAt
<1>6. DiskOK BY EmptySeq DEF Init, DiskOK, Disks, NoDisk
<1> QED BY <1>1, <1>2, <1>4, <1>5, <1>6 DEF Typed

LEMMA TypedIsTypeOK == Typed => TypeOK
<1> SUFFICES ASSUME Typed PROVE TypeOK OBVIOUS
<1>1. /\ ConnOK /\ ReconnectOK /\ PollerOK /\ ChannelOK /\ DiskOK
      /\ \A g \in Conns : reader[g] \in Readers /\ writer[g] \in Writers /\ drain[g] \in Drains
  BY DEF Typed, LoopsOK
<1>2. \A g \in Conns : /\ drain[g].pc \in {"none", "start", "open", "scan", "send", "trigger",
                                          "cleanup", "gone"}
                       /\ drain[g].todo \in Seq(Frames)
  BY <1>1 DEF Drains
<1>3. disk.handle \in {"nil", "open", "closed"} /\ disk.lines \in Seq(Frames)
  BY <1>1 DEF DiskOK, Disks
<1> QED BY <1>1, <1>2, <1>3, Zenon DEF TypeOK, ConnOK, ReconnectOK, PollerOK, ChannelOK, DiskOK,
      Readers, Writers, Links

----------------------------------------------------------------------------
(* One connection at a time *)

Fails(g) == WriterFails(g) \/ PingFails(g) \/ DrainFails(g)

Rewires ==
    \/ Connect \/ Reconnect \/ ReconnectFails \/ Close
    \/ \E g \in Conns : Break(g) \/ Fails(g)

(* What the network does to the connections. *)
LEMMA NetworkShape ==
    ASSUME ConnOK, NEW g \in Conns, Break(g) \/ Fails(g)
    PROVE  /\ UNCHANGED <<conn, stopped>>
           /\ \/ link' = link
              \/ \E h \in Conns : /\ link[h] \in {"live", "failing"}
                                 /\ link' \in {[link EXCEPT ![h] = "broken"],
                                               [link EXCEPT ![h] = "failing"]}
<1>1. CASE Break(g) BY <1>1 DEF Break, reconnectOnly
<1>2. CASE Fails(g)
  <2>1. UNCHANGED <<conn, stopped>> /\ \E c : WriteError(c)
    BY <1>2, Zenon DEF Fails, WriterFails, PingFails, DrainFails, WriteError, writerOnly, drainOnly
  <2>2. \/ link' = link
        \/ \E h \in Conns : link[h] = "live" /\ link' = [link EXCEPT ![h] = "failing"]
    BY <2>1, WriteErrorShape
  <2> QED BY <2>1, <2>2
<1> QED BY <1>1, <1>2

(* Every other step leaves the connections and the stopped flag alone. *)
LEMMA OthersKeepLinks ==
    ASSUME [Next]_vars, ~Rewires
    PROVE  UNCHANGED <<conn, link, stopped>>
<1>1. CASE WriteFrame \/ Enqueue \/ Refuse
  BY <1>1 DEF WriteFrame, Enqueue, Refuse, pollerOnly, connVars
<1>2. CASE CloseCleansUp \/ ReconnectToken \/ ReconnectDone \/ UNCHANGED vars
  BY <1>2 DEF CloseCleansUp, ReconnectToken, ReconnectDone, reconnectOnly, vars, connVars
<1>3. ASSUME NEW g \in Conns, Reader(g) PROVE UNCHANGED <<conn, link, stopped>>
  BY <1>3 DEF Reader, ReaderLooks, ReaderFails, ReaderTriggers, readOnly, connVars
<1>4. ASSUME NEW g \in Conns, WriteLoop(g), ~Fails(g) PROVE UNCHANGED <<conn, link, stopped>>
  BY <1>4 DEF WriteLoop, Fails, Writer, WriterTakes, WriterRequeues, WriterBuffers, WriterDrops,
     WriterSends, WriterTriggers, WriterCleansUp, WriterDone, writerOnly, connVars
<1>5. ASSUME NEW g \in Conns, Drain(g), ~Fails(g) PROVE UNCHANGED <<conn, link, stopped>>
  BY <1>5 DEF Drain, Fails, DrainStarts, DrainOpens, DrainScans, DrainSends, DrainTriggers,
     DrainCleansUp, drainOnly, connVars
<1> QED BY <1>1, <1>2, <1>3, <1>4, <1>5 DEF Next, Reconnector, WriteLoop, Rewires

LEMMA StepUnused ==
    ASSUME Typed, Unused, [Next]_vars
    PROVE  Unused'
<1> USE FirstConn
<1>1. CASE Connect \/ Reconnect
  <2>1. PICK l \in Links : \E g \in Conns : Connected(l, g)
    <3>1. CASE Connect
      <4>1. link \in Links BY DEF Typed, ConnOK
      <4>2. \E g \in Conns : Connected(link, g) BY <3>1, <4>1, ConnectShape DEF Connect, Typed
      <4> QED BY <4>1, <4>2
    <3>2. CASE Reconnect
      <4>1. CloseLink(link) \in Links BY CloseLinkTyped DEF Typed, ConnOK
      <4>2. \E g \in Conns : Connected(CloseLink(link), g) BY <3>2, ReconnectShape
      <4> QED BY <4>1, <4>2
    <3> QED BY <1>1, <3>1, <3>2
  <2> PICK g \in Conns : Connected(l, g) BY <2>1
  <2>2. link'[1] # "none"
    <3>1. CASE g = 1 BY <3>1 DEF Connected
    <3>2. CASE g # 1
      <4>1. 1 < g BY <3>2, WebSocketAssumption DEF WebSocketAssumption, Conns
      <4> QED BY <3>2, <4>1 DEF Connected
    <3> QED BY <3>1, <3>2
  <2> QED BY <2>2 DEF Unused
<1> SUFFICES ASSUME link[1] = "none", ~Connect, ~Reconnect PROVE Unused'
  <2>1. ASSUME link'[1] = "none", ~Connect, ~Reconnect PROVE link[1] = "none"
    <3>1. CASE Close \/ ReconnectFails
      BY <2>1, <3>1, CloseLinkTyped DEF Close, ReconnectFails, Typed, ConnOK
    <3>2. CASE \E g \in Conns : Break(g) \/ Fails(g)
      BY <2>1, <3>2, NetworkShape DEF Typed, ConnOK, Links
    <3>3. CASE ~Rewires BY <2>1, <3>3, OthersKeepLinks
    <3> QED BY <2>1, <3>1, <3>2, <3>3 DEF Rewires
  <2> QED BY <1>1, <2>1 DEF Unused
<1>2. Established = {} /\ \A g \in Conns : link[g] = "none" BY DEF Unused, Established
<1>3. CASE UNCHANGED vars
  BY <1>3, <1>2 DEF vars, connVars, reconnectVars, traffic, pollerVars, loops, Unused, Established
<1>4. CASE CloseCleansUp
  BY <1>4, <1>2 DEF CloseCleansUp, connVars, reconnectVars, traffic, pollerVars, loops, Unused,
     Established
<1>5. ~(WriteFrame \/ Enqueue \/ Refuse \/ Close \/ \E g \in Conns : Break(g))
  BY <1>2 DEF WriteFrame, Enqueue, Refuse, Close, Break, Unused
<1>6. ~(ReconnectToken \/ ReconnectDone \/ ReconnectFails)
  BY DEF ReconnectToken, ReconnectDone, ReconnectFails, Unused
<1>7. \A g \in Conns : ~Reader(g) /\ ~WriteLoop(g) /\ ~Drain(g)
  BY DEF Reader, ReaderLooks, ReaderFails, ReaderTriggers, WriteLoop, Writer, WriterTakes,
     WriterRequeues, WriterBuffers, WriterDrops, WriterSends, WriterFails, WriterTriggers, WriterCleansUp,
     WriterDone, PingFails, Drain, DrainStarts, DrainOpens, DrainScans, DrainSends, DrainFails,
     DrainTriggers, DrainCleansUp, Unused
<1> QED BY <1>3, <1>4, <1>5, <1>6, <1>7 DEF Next, Reconnector, WriteLoop

LEMMA StepNoLeak ==
    ASSUME Typed, Unused, NoLeakedConnection, [Next]_vars
    PROVE  NoLeakedConnection'
<1> USE FirstConn
<1>1. CASE Connect
  <2>1. PICK g \in Conns : Connected(link, g)
    BY <1>1, ConnectShape DEF Connect, Typed, ConnOK
  <2>2. \A h \in Conns : link[h] = "none" BY <1>1 DEF Connect, Established
  <2>3. ~stopped BY <2>2 DEF Unused
  <2> QED BY <2>1, <2>2, <2>3 DEF Connected, NoLeakedConnection
<1>2. CASE Reconnect
  <2>1. PICK g \in Conns : Connected(CloseLink(link), g) /\ ~stopped
    BY <1>2, ReconnectShape
  <2>2. \A h \in Conns : CloseLink(link)[h] \in {"none", "closed"}
    BY CloseLinkTyped DEF NoLeakedConnection, Typed, ConnOK
  <2> QED BY <2>1, <2>2 DEF Connected, NoLeakedConnection
<1>3. CASE Close \/ ReconnectFails
  <2>1. \A h \in Conns : CloseLink(link)[h] \in {"none", "closed"}
    BY CloseLinkTyped DEF NoLeakedConnection, Typed, ConnOK
  <2> QED BY <1>3, <2>1 DEF Close, ReconnectFails, NoLeakedConnection
<1>4. CASE \E g \in Conns : Break(g) \/ Fails(g)
  BY <1>4, NetworkShape DEF Typed, ConnOK, Links, NoLeakedConnection
<1>5. CASE ~Rewires
  BY <1>5, OthersKeepLinks DEF NoLeakedConnection
<1> QED BY <1>1, <1>2, <1>3, <1>4, <1>5 DEF Rewires

----------------------------------------------------------------------------
(* No wake-up is lost. *)

Triggered == \E g \in Conns : "trigger" \in {reader[g].pc, writer[g].pc, drain[g].pc}

LEMMA StepPending ==
    ASSUME Typed, DisconnectIsPending, [Next]_vars
    PROVE  DisconnectIsPending'
<1> USE FirstConn
<1>a. DisconnectIsPending =
        (Established # {} /\ ~connected /\ ~stopped =>
            reconnectCh = 1 \/ attempting > 0 \/ Triggered)
  BY DEF DisconnectIsPending, Triggered
<1>b. DisconnectIsPending' =
        (Established' # {} /\ ~connected' /\ ~stopped' =>
            reconnectCh' = 1 \/ attempting' > 0 \/ Triggered')
  BY DEF DisconnectIsPending, Triggered
<1>1. CASE Connect \/ Reconnect
  <2>1. connected' = TRUE BY <1>1 DEF Connect, Reconnect, ConnectLocked
  <2> QED BY <2>1, <1>b
<1>2. CASE ReconnectFails
  <2>1. attempting' > 0 BY <1>2 DEF ReconnectFails, reconnectVars
  <2> QED BY <2>1, <1>b
<1>3. CASE Close \/ ReconnectDone
  <2>1. stopped' BY <1>3 DEF Close, ReconnectDone, reconnectOnly
  <2> QED BY <2>1, <1>b
<1>4. CASE ReconnectToken
  <2>1. attempting' > 0 BY <1>4 DEF ReconnectToken, Typed, ReconnectOK
  <2> QED BY <2>1, <1>b
<1>5. CASE \E g \in Conns : ReaderTriggers(g) \/ WriterTriggers(g) \/ DrainTriggers(g)
  <2>1. reconnectCh' = 1
    BY <1>5 DEF ReaderTriggers, WriterTriggers, DrainTriggers, triggerReconnect
  <2> QED BY <2>1, <1>b
<1>6. ASSUME NEW g \in Conns, ReaderFails(g) \/ WriterFails(g) \/ PingFails(g) \/ DrainFails(g)
      PROVE  DisconnectIsPending'
  <2>1. "trigger" \in {reader'[g].pc, writer'[g].pc, drain'[g].pc}
    BY <1>6 DEF ReaderFails, WriterFails, PingFails, DrainFails, SetWriter, DrainAt, Typed, LoopsOK
  <2> QED BY <2>1, <1>b DEF Triggered
<1>7. ASSUME Established' # {} => Established # {}, connected' = connected, stopped' = stopped,
             reconnectCh' = reconnectCh, attempting' = attempting, Triggered => Triggered'
      PROVE  DisconnectIsPending'
  BY <1>7, <1>a, <1>b, Zenon
<1>8. CASE \E g \in Conns : Break(g)
  <2>1. Established' # {} => Established # {} BY <1>8 DEF Break, Established
  <2>2. UNCHANGED <<reader, writer, drain>> BY <1>8 DEF Break, reconnectOnly, loops
  <2>3. connected' = connected /\ stopped' = stopped /\ reconnectCh' = reconnectCh
        /\ attempting' = attempting
    BY <1>8, Zenon DEF Break, reconnectOnly, reconnectVars
  <2> QED BY <1>7, <2>1, <2>2, <2>3, Zenon DEF Triggered
<1>9. CASE WriteFrame \/ Enqueue \/ Refuse \/ CloseCleansUp \/ UNCHANGED vars
  <2>1. UNCHANGED <<link, reader, writer, drain>>
    BY <1>9 DEF WriteFrame, Enqueue, Refuse, CloseCleansUp, pollerOnly, vars, connVars, loops
  <2>2. connected' = connected /\ stopped' = stopped /\ reconnectCh' = reconnectCh
        /\ attempting' = attempting
    BY <1>9, Zenon DEF WriteFrame, Enqueue, Refuse, CloseCleansUp, pollerOnly, vars, connVars,
       reconnectVars
  <2> QED BY <1>7, <2>1, <2>2, Zenon DEF Triggered, Established
<1>10. ASSUME NEW g \in Conns, ReaderLooks(g) PROVE DisconnectIsPending'
  <2>1. UNCHANGED <<link, writer, drain>> BY <1>10 DEF ReaderLooks, readOnly, connVars
  <2>2. connected' = connected /\ stopped' = stopped /\ reconnectCh' = reconnectCh
        /\ attempting' = attempting
    BY <1>10, Zenon DEF ReaderLooks, readOnly, connVars
  <2>3. \A h \in Conns : reader[h].pc = "trigger" => reader'[h] = reader[h]
    BY <1>10 DEF ReaderLooks, Typed, LoopsOK
  <2>4. Triggered => Triggered' BY <2>1, <2>3 DEF Triggered
  <2>5. Established' = Established BY <2>1 DEF Established
  <2> QED BY <1>7, <2>2, <2>4, <2>5, Zenon
<1>11. ASSUME NEW g \in Conns,
              \/ WriterTakes(g) \/ WriterRequeues(g) \/ WriterBuffers(g) \/ WriterDrops(g)
              \/ WriterSends(g) \/ WriterCleansUp(g) \/ WriterDone(g)
       PROVE  DisconnectIsPending'
  <2>1. UNCHANGED <<link, reader, drain>>
    BY <1>11 DEF WriterTakes, WriterRequeues, WriterBuffers, WriterDrops, WriterSends, WriterCleansUp, WriterDone,
       writerOnly, connVars
  <2>2. connected' = connected /\ stopped' = stopped /\ reconnectCh' = reconnectCh
        /\ attempting' = attempting
    BY <1>11, Zenon DEF WriterTakes, WriterRequeues, WriterBuffers, WriterDrops, WriterSends, WriterCleansUp,
       WriterDone, writerOnly, connVars
  <2>3. \A h \in Conns : writer[h].pc = "trigger" => writer'[h] = writer[h]
    BY <1>11 DEF WriterTakes, WriterRequeues, WriterBuffers, WriterDrops, WriterSends, WriterCleansUp,
       WriterDone, SetWriter, Typed, LoopsOK
  <2>4. Triggered => Triggered' BY <2>1, <2>3 DEF Triggered
  <2>5. Established' = Established BY <2>1 DEF Established
  <2> QED BY <1>7, <2>2, <2>4, <2>5, Zenon
<1>12. ASSUME NEW g \in Conns,
              \/ DrainStarts(g) \/ DrainOpens(g) \/ DrainScans(g) \/ DrainSends(g)
              \/ DrainCleansUp(g)
       PROVE  DisconnectIsPending'
  <2>1. UNCHANGED <<link, reader, writer>>
    BY <1>12 DEF DrainStarts, DrainOpens, DrainScans, DrainSends, DrainCleansUp, drainOnly, connVars
  <2>2. connected' = connected /\ stopped' = stopped /\ reconnectCh' = reconnectCh
        /\ attempting' = attempting
    BY <1>12, Zenon DEF DrainStarts, DrainOpens, DrainScans, DrainSends, DrainCleansUp, drainOnly,
       connVars
  <2>3. \A h \in Conns : drain[h].pc = "trigger" => drain'[h] = drain[h]
    BY <1>12 DEF DrainStarts, DrainOpens, DrainScans, DrainSends, DrainCleansUp, Typed, LoopsOK
  <2>4. Triggered => Triggered' BY <2>1, <2>3 DEF Triggered
  <2>5. Established' = Established BY <2>1 DEF Established
  <2> QED BY <1>7, <2>2, <2>4, <2>5, Zenon
<1> QED BY <1>1, <1>2, <1>3, <1>4, <1>5, <1>6, <1>8, <1>9, <1>10, <1>11, <1>12
        DEF Next, Reconnector, Reader, Writer, Drain

----------------------------------------------------------------------------
(* The disk buffer always has a writeLoop that will remove it. *)

LEMMA StepSomeoneCleansUp ==
    ASSUME Typed, SomeoneCleansUp, [Next]_vars
    PROVE  SomeoneCleansUp'
<1> USE FirstConn
<1>1. CASE Connect \/ Reconnect
  <2>1. \E g \in Conns : writer'[g].pc = "select"
    BY <1>1, ConnectShape, ReconnectShape DEF Connect, Connected, Typed, ConnOK
  <2> QED BY <2>1 DEF SomeoneCleansUp, Over
<1>2. ASSUME NEW g \in Conns, WriteLoop(g) PROVE SomeoneCleansUp'
  <2>1. CASE WriterCleansUp(g) BY <2>1 DEF WriterCleansUp, cleanupDiskBuffer, SomeoneCleansUp
  <2>2. CASE ~WriterCleansUp(g)
    <3>1. writer'[g].pc \in {"send", "requeue", "disk", "select", "trigger", "cleanup"}
      BY <1>2, <2>2 DEF WriteLoop, Writer, WriterTakes, WriterRequeues, WriterBuffers, WriterDrops, WriterSends,
         WriterFails, WriterTriggers, WriterDone, PingFails, SetWriter, Typed, LoopsOK
    <3> QED BY <3>1 DEF SomeoneCleansUp, Over
  <2> QED BY <2>1, <2>2
<1>3. ASSUME writer' = writer, disk' # NoDisk => disk # NoDisk PROVE SomeoneCleansUp'
  BY <1>3 DEF SomeoneCleansUp, Over
<1>4. ASSUME NEW g \in Conns, Drain(g) PROVE SomeoneCleansUp'
  <2>1. writer' = writer
    BY <1>4 DEF Drain, DrainStarts, DrainOpens, DrainScans, DrainSends, DrainFails, DrainTriggers,
       DrainCleansUp, drainOnly
  <2>2. disk' # NoDisk => disk # NoDisk
    BY <1>4 DEF Drain, DrainStarts, DrainOpens, DrainScans, DrainSends, DrainFails, DrainTriggers,
       DrainCleansUp, NoDisk
  <2> QED BY <1>3, <2>1, <2>2
<1>5. ASSUME NEW g \in Conns, Reader(g) \/ Break(g) PROVE SomeoneCleansUp'
  BY <1>3, <1>5 DEF Reader, ReaderLooks, ReaderFails, ReaderTriggers, readOnly, Break, reconnectOnly,
     loops, diskVars
<1>6. CASE \/ WriteFrame \/ Enqueue \/ Refuse \/ Close \/ CloseCleansUp \/ ReconnectToken
           \/ ReconnectDone \/ ReconnectFails \/ UNCHANGED vars
  BY <1>3, <1>6 DEF WriteFrame, Enqueue, Refuse, Close, CloseCleansUp, cleanupDiskBuffer,
     ReconnectToken, ReconnectDone, ReconnectFails, pollerOnly, reconnectOnly, loops, diskVars, vars
<1> QED BY <1>1, <1>2, <1>4, <1>5, <1>6 DEF Next, Reconnector, WriteLoop

----------------------------------------------------------------------------
(* The first connection *)

(* Only Connect brings it up, and while it is up nothing takes it down but
   Close and the network. *)
LEMMA FirstUp ==
    ASSUME Typed, Unused, NoLeakedConnection, OnlyFirst, [Next]_vars, link'[1] = "live"
    PROVE  \/ Connect /\ Connected(link, 1) /\ UNCHANGED <<attempting, drain>> /\ link[1] = "none"
           \/ /\ link[1] = "live" /\ conn = 1 /\ ~stopped
              /\ ~Connect /\ ~Reconnect /\ ~ReconnectFails /\ ~Close /\ ~ReconnectToken
              /\ ~ReconnectDone /\ \A g \in Conns : ~Break(g) /\ ~Fails(g)
<1> USE FirstConn
<1>1. CASE Connect
  <2>1. PICK g \in Conns : Connected(link, g)
    BY <1>1, ConnectShape DEF Connect, Typed, ConnOK
  <2>2. \A h \in Conns : link[h] = "none" BY <1>1 DEF Connect, Established
  <2>3. g = 1
    <3>1. CASE 1 < g BY <2>1, <2>2, <3>1 DEF Connected
    <3>2. CASE ~(1 < g) BY <3>2, WebSocketAssumption DEF WebSocketAssumption, Conns
    <3> QED BY <3>1, <3>2
  <2> QED BY <1>1, <2>1, <2>2, <2>3 DEF Connect
<1>2. link[1] = "live" => conn = 1 /\ ~stopped /\ attempting = 0 /\ reconnectCh = 0
  BY DEF NoLeakedConnection, OnlyFirst
<1>3. ~Reconnect
  <2> SUFFICES ASSUME Reconnect PROVE FALSE OBVIOUS
  <2>1. PICK g \in Conns : Connected(CloseLink(link), g) /\ attempting > 0
    BY ReconnectShape
  <2>2. link[1] # "none" /\ link[1] # "live" BY <1>2, <2>1 DEF Unused
  <2>3. CloseLink(link)[1] # "none" /\ CloseLink(link)[1] # "live"
    BY <2>2, CloseLinkTyped DEF Typed, ConnOK
  <2> QED BY <2>1, <2>3 DEF Connected
<1>4. ~Close /\ ~ReconnectFails
  <2> SUFFICES ASSUME Close \/ ReconnectFails PROVE FALSE OBVIOUS
  <2>1. link' = CloseLink(link) BY DEF Close, ReconnectFails
  <2>2. link[1] = "live" /\ conn # 1 BY <2>1, CloseLinkTyped DEF Typed, ConnOK
  <2> QED BY <1>2, <2>2
<1>5. \A g \in Conns : ~Break(g)
  <2> SUFFICES ASSUME NEW g \in Conns, Break(g) PROVE FALSE OBVIOUS
  <2>1. link[g] \in {"live", "failing"} /\ link' = [link EXCEPT ![g] = "broken"] BY DEF Break
  <2>2. g # 1 /\ link[1] = "live" BY <2>1 DEF Typed, ConnOK, Links
  <2> QED BY <2>1, <2>2 DEF NoLeakedConnection
<1>7. \A g \in Conns : ~Fails(g)
  <2> SUFFICES ASSUME NEW g \in Conns, Fails(g) PROVE FALSE OBVIOUS
  <2>1. link[1] = "live" BY NetworkShape DEF Typed, ConnOK, Links
  <2>2. PICK c : c = 1 /\ WriteError(c)
    <3>1. conn = 1 BY <1>2, <2>1
    <3>2. drain[g].pc = "none" /\ (writer[g].pc = "send" => writer[g].conn = 1)
      BY <2>1 DEF OnlyFirst
    <3> QED BY <3>1, <3>2 DEF Fails, WriterFails, PingFails, DrainFails
  <2>3. link' = [link EXCEPT ![1] = "failing"] BY <2>1, <2>2 DEF WriteError
  <2>4. link'[1] = "failing" BY <2>3 DEF Typed, ConnOK, Links
  <2> QED BY <2>4
<1>6. CASE ~Connect
  <2>1. ~Rewires BY <1>3, <1>4, <1>5, <1>6, <1>7 DEF Rewires
  <2>2. link[1] = "live" BY <2>1, OthersKeepLinks
  <2>3. ~ReconnectToken /\ ~ReconnectDone
    BY <1>2, <2>2 DEF ReconnectToken, ReconnectDone
  <2> QED BY <1>2, <1>3, <1>4, <1>5, <1>6, <1>7, <2>2, <2>3
<1> QED BY <1>1, <1>6

(* What else happens while it is up. *)
LEMMA WhileFirstUp ==
    ASSUME Typed, OnlyFirst, [Next]_vars, link[1] = "live", conn = 1, ~stopped,
           ~Connect, ~Reconnect, ~ReconnectFails, ~Close, ~ReconnectToken, ~ReconnectDone,
           \A g \in Conns : ~Break(g) /\ ~Fails(g)
    PROVE  \/ WriteFrame \/ Enqueue \/ Refuse \/ CloseCleansUp \/ UNCHANGED vars
           \/ ReaderLooks(1) \/ WriterTakes(1) \/ WriterDrops(1) \/ WriterSends(1)
<1> USE FirstConn
<1>1. ASSUME NEW g \in Conns, Reader(g) PROVE ReaderLooks(1)
  <2>1. g = 1
    BY <1>1 DEF OnlyFirst, Reader, ReaderLooks, ReaderFails, ReaderTriggers
  <2> QED BY <1>1, <2>1 DEF OnlyFirst, Reader, ReaderFails, ReaderTriggers
<1>2. ASSUME NEW g \in Conns, WriteLoop(g) PROVE WriterTakes(1) \/ WriterDrops(1) \/ WriterSends(1)
  <2>1. g = 1
    BY <1>2 DEF OnlyFirst, WriteLoop, Writer, WriterTakes, WriterRequeues, WriterBuffers,
       WriterDrops, WriterSends, WriterFails, WriterTriggers, WriterCleansUp, WriterDone, PingFails
  <2> QED BY <1>2, <2>1 DEF OnlyFirst, WriteLoop, Writer, WriterRequeues, WriterBuffers,
        Fails, WriterTriggers, WriterCleansUp, WriterDone
<1>3. \A g \in Conns : ~Drain(g)
  BY DEF OnlyFirst, Drain, DrainStarts, DrainOpens, DrainScans, DrainSends, DrainFails,
     DrainTriggers, DrainCleansUp
<1> QED BY <1>1, <1>2, <1>3 DEF Next, Reconnector, WriteLoop

(* The writeLoop of the first connection always sends what it takes. *)
LEMMA FirstTakes ==
    ASSUME Typed, OnlyFirst, link[1] = "live", conn = 1, WriterTakes(1)
    PROVE  /\ outgoingCh # <<>> /\ outgoingCh' = Tail(outgoingCh)
           /\ writer' = [writer EXCEPT ![1] =
                  [pc |-> "send", conn |-> 1, frame |-> Head(outgoingCh)]]
<1>1. connected /\ conn # 0 BY DEF OnlyFirst
<1>2. PICK pc \in {"send"} :
          writer' = [writer EXCEPT ![1] =
              [pc |-> pc, conn |-> IF pc = "send" THEN conn ELSE 0, frame |-> Head(outgoingCh)]]
  BY <1>1, Zenon DEF WriterTakes
<1> QED BY <1>2 DEF WriterTakes

LEMMA StepOnlyFirst ==
    ASSUME Typed, Unused, NoLeakedConnection, OnlyFirst, [Next]_vars
    PROVE  OnlyFirst'
<1> USE FirstConn
<1> SUFFICES ASSUME link'[1] = "live" PROVE OnlyFirst' BY DEF OnlyFirst
<1>1. CASE Connect /\ Connected(link, 1) /\ UNCHANGED <<attempting, drain>> /\ link[1] = "none"
  <2>1. connected' = TRUE /\ reconnectCh' = reconnectCh BY <1>1, Zenon DEF Connected
  <2>2. reconnectCh' = 0 /\ attempting' = 0 /\ \A g \in Conns : drain'[g].pc = "none"
    BY <1>1, <2>1 DEF Unused
  <2>3. /\ \A g \in Conns \ {1} : reader'[g].pc = "none" /\ writer'[g].pc = "none"
        /\ reader'[1].pc = "read" /\ reader'[1].conn = 1 /\ writer'[1].pc = "select"
    BY <1>1 DEF Connected, Unused
  <2> QED BY <2>1, <2>2, <2>3 DEF OnlyFirst
<1>2. CASE /\ link[1] = "live" /\ conn = 1 /\ ~stopped
           /\ ~Connect /\ ~Reconnect /\ ~ReconnectFails /\ ~Close /\ ~ReconnectToken
           /\ ~ReconnectDone /\ \A g \in Conns : ~Break(g) /\ ~Fails(g)
  <2>1. CASE WriteFrame \/ Enqueue \/ Refuse \/ CloseCleansUp \/ UNCHANGED vars
    <3>1. UNCHANGED <<loops, reconnectVars>> /\ connected' = connected
      BY <2>1, Zenon DEF WriteFrame, Enqueue, Refuse, CloseCleansUp, pollerOnly, vars, connVars
    <3> QED BY <1>2, <3>1 DEF OnlyFirst, loops, reconnectVars
  <2>2. CASE ReaderLooks(1)
    <3>1. reader'[1] = [pc |-> "read", conn |-> 1] /\ \A g \in Conns \ {1} : reader'[g] = reader[g]
      BY <1>2, <2>2 DEF ReaderLooks, Typed, LoopsOK
    <3>2. UNCHANGED <<writer, drain, reconnectCh, attempting>> /\ connected' = connected
      BY <2>2, Zenon DEF ReaderLooks, readOnly, connVars
    <3>3. reader'[1].pc = "read" /\ reader'[1].conn = 1 BY <3>1
    <3>4. \A g \in Conns \ {1} : reader'[g].pc = "none" /\ writer'[g].pc = "none"
      BY <1>2, <3>1, <3>2 DEF OnlyFirst
    <3> QED BY <1>2, <3>2, <3>3, <3>4 DEF OnlyFirst
  <2>3. CASE WriterTakes(1) \/ WriterDrops(1) \/ WriterSends(1)
    <3>1. /\ writer'[1].pc \in {"select", "send"} /\ (writer'[1].pc = "send" => writer'[1].conn = 1)
          /\ \A g \in Conns \ {1} : writer'[g] = writer[g]
      BY <1>2, <2>3, FirstTakes DEF WriterDrops, WriterSends, SetWriter, Typed, LoopsOK
    <3>2. UNCHANGED <<reader, drain, reconnectCh, attempting>> /\ connected' = connected
      BY <2>3, Zenon DEF WriterTakes, WriterDrops, WriterSends, writerOnly, connVars
    <3>3. \A g \in Conns \ {1} : writer'[g].pc = "none"
      BY <1>2, <3>1 DEF OnlyFirst
    <3> QED BY <1>2, <3>1, <3>2, <3>3 DEF OnlyFirst
  <2> QED BY <1>2, <2>1, <2>2, <2>3, WhileFirstUp
<1> QED BY <1>1, <1>2, FirstUp

Hand == IF writer[1].pc = "send" THEN <<writer[1].frame>> ELSE <<>>

LEMMA AppendMoves ==
    \A r, h, o \in Seq(Frames), x \in Frames :
        /\ r \o h \o Append(o, x) = Append(r \o h \o o, x)
        /\ r \o <<x>> \o o = Append(r, x) \o <<>> \o o
<1> SUFFICES ASSUME NEW r \in Seq(Frames), NEW h \in Seq(Frames), NEW o \in Seq(Frames),
                    NEW x \in Frames
             PROVE  /\ r \o h \o Append(o, x) = Append(r \o h \o o, x)
                    /\ r \o <<x>> \o o = Append(r, x) \o <<>> \o o
  OBVIOUS
<1>1. /\ <<x>> \in Seq(Frames) /\ <<>> \in Seq(Frames) /\ r \o h \in Seq(Frames)
      /\ Append(r, x) \in Seq(Frames)
  BY ConcatProperties, AppendProperties
<1>2. Append(o, x) = o \o <<x>> /\ r \o h \o o \in Seq(Frames)
  BY <1>1, AppendIsConcat, ConcatProperties
<1>3. Append(r \o h \o o, x) = (r \o h \o o) \o <<x>> BY <1>2, AppendIsConcat
<1>4. (r \o h) \o (o \o <<x>>) = ((r \o h) \o o) \o <<x>> BY <1>1, ConcatAssociative
<1>5. Append(r, x) = r \o <<x>> /\ Append(r, x) \o <<>> = Append(r, x)
  BY <1>1, AppendIsConcat, ConcatEmptySeq
<1> QED BY <1>2, <1>3, <1>4, <1>5

LEMMA HeadMoves ==
    ASSUME NEW S, NEW r \in Seq(S), NEW o \in Seq(S), o # <<>>
    PROVE  r \o <<>> \o o = r \o <<Head(o)>> \o Tail(o)
<1>1. Head(o) \in S /\ Tail(o) \in Seq(S) /\ o = <<Head(o)>> \o Tail(o)
  <2>1. Head(o) \in S /\ Tail(o) \in Seq(S) BY HeadTailProperties
  <2>2. <<Head(o)>> \o Tail(o) \in Seq(S) BY <2>1, ConcatProperties
  <2>3. /\ Len(Tail(o)) = Len(o) - 1 /\ Len(o) \in Nat
        /\ \A i \in 1 .. Len(Tail(o)) : Tail(o)[i] = o[i + 1]
    BY HeadTailProperties, LenProperties
  <2>4. /\ Len(<<Head(o)>> \o Tail(o)) = 1 + Len(Tail(o))
        /\ \A i \in 1 .. 1 + Len(Tail(o)) : (<<Head(o)>> \o Tail(o))[i] =
               IF i <= 1 THEN Head(o) ELSE Tail(o)[i - 1]
    BY <2>1, ConcatProperties
  <2>5. \A i \in 1 .. Len(o) : (<<Head(o)>> \o Tail(o))[i] = o[i]
    BY <2>3, <2>4
  <2> QED BY <2>1, <2>2, <2>3, <2>4, <2>5, SeqEqual
<1>2. <<Head(o)>> \in Seq(S) BY <1>1
<1>3. (r \o <<Head(o)>>) \o Tail(o) = r \o (<<Head(o)>> \o Tail(o))
  BY <1>1, <1>2, ConcatAssociative
<1>4. r \o <<>> = r BY ConcatEmptySeq
<1> QED BY <1>1, <1>3, <1>4

Elements(s) == {s[i] : i \in 1 .. Len(s)}

(* What is under way is what was accepted, in ascending order; only frames
   that cannot be marshalled may be missing. *)
Lossless(u, a) ==
    /\ Elements(a) \ BadFrames \subseteq Elements(u)
    /\ Elements(u) \subseteq Elements(a)
    /\ \A i, j \in 1 .. Len(u) : i < j => u[i] < u[j]

LEMMA LosslessAppend ==
    ASSUME NEW u \in Seq(Frames), NEW a \in Seq(Frames), NEW x \in Frames,
           Lossless(u, a), \A i \in 1 .. Len(a) : a[i] < x
    PROVE  Lossless(Append(u, x), Append(a, x))
<1> DEFINE v == Append(u, x)
           b == Append(a, x)
<1>1. /\ Len(u) \in Nat /\ Len(a) \in Nat
      /\ Len(v) = Len(u) + 1 /\ Len(b) = Len(a) + 1
      /\ \A i \in 1 .. Len(u) : v[i] = u[i]
      /\ \A i \in 1 .. Len(a) : b[i] = a[i]
      /\ v[Len(u) + 1] = x /\ b[Len(a) + 1] = x
  BY AppendProperties, LenProperties
<1> HIDE DEF v, b
<1>2. Elements(v) = Elements(u) \cup {x}
  <2>1. \A i \in 1 .. Len(v) : i \in 1 .. Len(u) \/ i = Len(u) + 1 BY <1>1
  <2>2. 1 .. Len(u) \subseteq 1 .. Len(v) /\ Len(u) + 1 \in 1 .. Len(v) BY <1>1
  <2> QED BY <1>1, <2>1, <2>2 DEF Elements
<1>3. Elements(b) = Elements(a) \cup {x}
  <2>1. \A i \in 1 .. Len(b) : i \in 1 .. Len(a) \/ i = Len(a) + 1 BY <1>1
  <2>2. 1 .. Len(a) \subseteq 1 .. Len(b) /\ Len(a) + 1 \in 1 .. Len(b) BY <1>1
  <2> QED BY <1>1, <2>1, <2>2 DEF Elements
<1>4. \A i \in 1 .. Len(u) : u[i] < x
  BY DEF Lossless, Elements
<1>5. ASSUME NEW i \in 1 .. Len(v), NEW j \in 1 .. Len(v), i < j PROVE v[i] < v[j]
  <2>1. i \in 1 .. Len(u) BY <1>1, <1>5
  <2>2. CASE j = Len(u) + 1 BY <1>1, <1>4, <2>1, <2>2
  <2>3. CASE j # Len(u) + 1
    <3>1. j \in 1 .. Len(u) BY <1>1, <2>3
    <3> QED BY <1>1, <1>5, <2>1, <3>1 DEF Lossless
  <2> QED BY <2>2, <2>3
<1> QED BY <1>2, <1>3, <1>5 DEF Lossless, v, b

LEMMA LosslessDrop ==
    ASSUME NEW r \in Seq(Frames), NEW o \in Seq(Frames), NEW a, NEW x \in Frames \cap BadFrames,
           Lossless(r \o <<x>> \o o, a)
    PROVE  Lossless(r \o <<>> \o o, a)
<1> DEFINE u == r \o <<x>> \o o
           v == r \o <<>> \o o
           n == Len(r)
<1>1. /\ n \in Nat /\ Len(o) \in Nat /\ Len(u) = n + 1 + Len(o) /\ Len(v) = n + Len(o)
      /\ \A i \in 1 .. Len(u) :
            u[i] = IF i <= n THEN r[i] ELSE IF i = n + 1 THEN x ELSE o[i - n - 1]
      /\ \A i \in 1 .. Len(v) : v[i] = IF i <= n THEN r[i] ELSE o[i - n]
  <2>1. <<x>> \in Seq(Frames) /\ Len(<<x>>) = 1 /\ <<x>>[1] = x OBVIOUS
  <2>2. /\ r \o <<x>> \in Seq(Frames) /\ Len(r \o <<x>>) = n + 1
        /\ \A i \in 1 .. n + 1 : (r \o <<x>>)[i] = IF i <= n THEN r[i] ELSE x
    <3>1. n \in Nat BY LenProperties
    <3>2. /\ r \o <<x>> \in Seq(Frames) /\ Len(r \o <<x>>) = n + Len(<<x>>)
          /\ \A i \in 1 .. n + Len(<<x>>) :
                (r \o <<x>>)[i] = IF i <= n THEN r[i] ELSE <<x>>[i - n]
      BY <2>1, ConcatProperties
    <3>3. \A i \in 1 .. n + 1 : ~(i <= n) => i - n = 1 BY <3>1
    <3> QED BY <2>1, <3>1, <3>2, <3>3
  <2>3. r \o <<>> = r BY ConcatEmptySeq
  <2>4. n \in Nat /\ Len(o) \in Nat BY LenProperties
  <2>5. /\ Len((r \o <<x>>) \o o) = n + 1 + Len(o)
        /\ \A i \in 1 .. n + 1 + Len(o) : ((r \o <<x>>) \o o)[i] =
              IF i <= n + 1 THEN (r \o <<x>>)[i] ELSE o[i - (n + 1)]
    BY <2>2, ConcatProperties
  <2>6. /\ Len(r \o o) = n + Len(o)
        /\ \A i \in 1 .. n + Len(o) : (r \o o)[i] = IF i <= n THEN r[i] ELSE o[i - n]
    BY ConcatProperties
  <2>7. ASSUME NEW i \in 1 .. Len(u)
        PROVE  u[i] = IF i <= n THEN r[i] ELSE IF i = n + 1 THEN x ELSE o[i - n - 1]
    BY <2>2, <2>4, <2>5
  <2> QED BY <2>3, <2>4, <2>5, <2>6, <2>7
<1> HIDE DEF u, v, n
<1>2. \A i \in 1 .. Len(v) :
         LET k == IF i <= n THEN i ELSE i + 1 IN k \in 1 .. Len(u) /\ v[i] = u[k]
  <2>1. ASSUME NEW i \in 1 .. Len(v), i <= n PROVE i \in 1 .. Len(u) /\ v[i] = u[i]
    BY <1>1, <2>1
  <2>2. ASSUME NEW i \in 1 .. Len(v), ~(i <= n) PROVE i + 1 \in 1 .. Len(u) /\ v[i] = u[i + 1]
    <3>1. i + 1 \in 1 .. Len(u) /\ ~(i + 1 <= n) /\ i + 1 # n + 1 /\ i + 1 - n - 1 = i - n
      BY <1>1, <2>2
    <3>2. v[i] = o[i - n] BY <1>1, <2>2
    <3>3. u[i + 1] = o[i + 1 - n - 1] BY <1>1, <3>1
    <3> QED BY <3>1, <3>2, <3>3
  <2> QED BY <2>1, <2>2
<1>3. \A k \in 1 .. Len(u) :
         k = n + 1 \/ (LET i == IF k <= n THEN k ELSE k - 1 IN i \in 1 .. Len(v) /\ u[k] = v[i])
  <2>1. ASSUME NEW k \in 1 .. Len(u), k <= n PROVE k \in 1 .. Len(v) /\ u[k] = v[k]
    BY <1>1, <2>1
  <2>2. ASSUME NEW k \in 1 .. Len(u), ~(k <= n), k # n + 1
        PROVE  k - 1 \in 1 .. Len(v) /\ u[k] = v[k - 1]
    <3>1. k - 1 \in 1 .. Len(v) /\ ~(k - 1 <= n) /\ k - 1 - n = k - n - 1
      BY <1>1, <2>2
    <3>2. u[k] = o[k - n - 1] BY <1>1, <2>2
    <3>3. v[k - 1] = o[k - 1 - n] BY <1>1, <3>1
    <3> QED BY <3>1, <3>2, <3>3
  <2> QED BY <2>1, <2>2
<1>4. u[n + 1] = x BY <1>1
<1>5. Elements(v) \subseteq Elements(u) BY <1>2 DEF Elements
<1>6. Elements(u) \ BadFrames \subseteq Elements(v)
  <2> SUFFICES ASSUME NEW k \in 1 .. Len(u), u[k] \notin BadFrames PROVE u[k] \in Elements(v)
    BY DEF Elements
  <2>1. k # n + 1 BY <1>4
  <2> QED BY <1>3, <2>1 DEF Elements
<1>7. ASSUME NEW i \in 1 .. Len(v), NEW j \in 1 .. Len(v), i < j PROVE v[i] < v[j]
  <2>1. PICK k \in 1 .. Len(u), l \in 1 .. Len(u) : k < l /\ v[i] = u[k] /\ v[j] = u[l]
    <3> DEFINE kk == IF i <= n THEN i ELSE i + 1
               ll == IF j <= n THEN j ELSE j + 1
    <3>1. kk \in 1 .. Len(u) /\ v[i] = u[kk] /\ ll \in 1 .. Len(u) /\ v[j] = u[ll]
      BY <1>2
    <3>2. kk < ll BY <1>1, <1>7
    <3> HIDE DEF kk, ll
    <3> QED BY <3>1, <3>2
  <2> QED BY <2>1 DEF Lossless, u
<1>8. Elements(a) \ BadFrames \subseteq Elements(u) /\ Elements(u) \subseteq Elements(a)
  BY DEF Lossless, u
<1> QED BY <1>5, <1>6, <1>7, <1>8 DEF Lossless, v

(* The poller offers each frame once, in order. *)
LEMMA StepOfferOrder ==
    ASSUME Typed, OfferOrder, [Next]_vars
    PROVE  OfferOrder'
<1>1. /\ offered \in Nat /\ offer \in Nat /\ accepted \in Seq(Frames) /\ Len(accepted) \in Nat
      /\ \A i \in 1 .. Len(accepted) : accepted[i] \in Nat
  <2>1. accepted \in Seq(Frames) /\ Len(accepted) \in Nat
    BY LenProperties DEF Typed, PollerOK
  <2>2. \A i \in 1 .. Len(accepted) : accepted[i] \in Frames BY <2>1, ElementOfSeq
  <2> QED BY <2>1, <2>2, WebSocketAssumption DEF WebSocketAssumption, Typed, PollerOK, Frames
<1>2. CASE WriteFrame
  BY <1>1, <1>2 DEF WriteFrame, OfferOrder
<1>3. CASE Enqueue
  <2>1. /\ offer \in Frames /\ offered' = offered /\ offer' = 0
        /\ accepted' = Append(accepted, offer) /\ offer = offered
    BY <1>3 DEF Enqueue, Typed, PollerOK, Frames, OfferOrder
  <2>2. /\ Len(accepted') = Len(accepted) + 1 /\ accepted'[Len(accepted) + 1] = offer
        /\ \A i \in 1 .. Len(accepted) : accepted'[i] = accepted[i]
    BY <1>1, <2>1, AppendProperties
  <2>3. ASSUME NEW i \in 1 .. Len(accepted') PROVE accepted'[i] <= offered'
    <3>1. CASE i = Len(accepted) + 1 BY <1>1, <2>1, <2>2, <3>1
    <3>2. CASE i # Len(accepted) + 1
      <4>1. i \in 1 .. Len(accepted) BY <1>1, <2>2, <3>2
      <4> QED BY <2>1, <2>2, <4>1 DEF OfferOrder
    <3> QED BY <3>1, <3>2
  <2> QED BY <2>1, <2>3 DEF OfferOrder
<1>4. CASE Refuse
  BY <1>4 DEF Refuse, OfferOrder
<1>5. CASE ~(WriteFrame \/ Enqueue \/ Refuse)
  <2>1. UNCHANGED pollerVars
    <3>1. CASE Connect \/ Reconnect
      <4>1. UNCHANGED traffic BY <3>1, Zenon DEF Connect, Reconnect, ConnectLocked
      <4> QED BY <4>1 DEF traffic
    <3>2. CASE \/ Close \/ CloseCleansUp \/ ReconnectToken \/ ReconnectDone \/ ReconnectFails
               \/ UNCHANGED vars
      BY <3>2 DEF Close, CloseCleansUp, ReconnectToken, ReconnectDone, ReconnectFails,
         reconnectOnly, traffic, vars
    <3>3. ASSUME NEW g \in Conns, Break(g) \/ Reader(g) PROVE UNCHANGED pollerVars
      BY <3>3 DEF Break, Reader, ReaderLooks, ReaderFails, ReaderTriggers, readOnly, reconnectOnly,
         traffic
    <3>4. ASSUME NEW g \in Conns, WriteLoop(g) \/ Drain(g) PROVE UNCHANGED pollerVars
      BY <3>4 DEF WriteLoop, Writer, WriterTakes, WriterRequeues, WriterBuffers, WriterDrops,
         WriterSends, WriterFails, WriterTriggers, WriterCleansUp, WriterDone, PingFails,
         writerOnly, Drain, DrainStarts, DrainOpens, DrainScans, DrainSends, DrainFails,
         DrainTriggers, DrainCleansUp, drainOnly
    <3> QED BY <1>5, <3>1, <3>2, <3>3, <3>4 DEF Next, Reconnector, WriteLoop
  <2> QED BY <2>1 DEF pollerVars, OfferOrder
<1> QED BY <1>2, <1>3, <1>4, <1>5

LEMMA StepLossless ==
    ASSUME Typed, Unused, NoLeakedConnection, OnlyFirst, OfferOrder,
           FirstConnectionIsLossless, [Next]_vars
    PROVE  FirstConnectionIsLossless'
<1> USE FirstConn
<1>a. FirstConnectionIsLossless =
          (link[1] = "live" => Lossless(received \o Hand \o outgoingCh, accepted))
  BY Zenon DEF FirstConnectionIsLossless, Hand, Lossless, Elements
<1>b. FirstConnectionIsLossless' =
          (link'[1] = "live" => Lossless(received' \o Hand' \o outgoingCh', accepted'))
  BY Zenon DEF FirstConnectionIsLossless, Hand, Lossless, Elements
<1> SUFFICES ASSUME link'[1] = "live"
             PROVE  Lossless(received' \o Hand' \o outgoingCh', accepted')
  BY <1>b
<1>c. /\ received \in Seq(Frames) /\ outgoingCh \in Seq(Frames) /\ accepted \in Seq(Frames)
      /\ Hand \in Seq(Frames)
  <2>1. writer[1].pc = "send" => writer[1].frame \in Frames BY DEF Typed, HandOK
  <2> QED BY <2>1, EmptySeq DEF Typed, ChannelOK, PollerOK, Hand
<1>1. CASE Connect /\ Connected(link, 1) /\ UNCHANGED <<attempting, drain>> /\ link[1] = "none"
  <2>1. received' = <<>> /\ outgoingCh' = <<>> /\ accepted' = <<>>
    BY <1>1 DEF Connected, traffic, pollerVars, Unused
  <2>2. Hand' = <<>> BY <1>1 DEF Connected, Hand
  <2>3. <<>> \o <<>> \o <<>> = <<>> BY ConcatEmptySeq, EmptySeq
  <2>4. Lossless(<<>>, <<>>) BY DEF Lossless, Elements
  <2> QED BY <2>1, <2>2, <2>3, <2>4
<1>2. CASE /\ link[1] = "live" /\ conn = 1 /\ ~stopped
           /\ ~Connect /\ ~Reconnect /\ ~ReconnectFails /\ ~Close /\ ~ReconnectToken
           /\ ~ReconnectDone /\ \A g \in Conns : ~Break(g) /\ ~Fails(g)
  <2>1. Lossless(received \o Hand \o outgoingCh, accepted) BY <1>2, <1>a
  <2>2. CASE UNCHANGED <<received, writer, outgoingCh, accepted>>
    BY <2>1, <2>2 DEF Hand
  <2>3. CASE WriteFrame \/ Refuse \/ CloseCleansUp \/ UNCHANGED vars \/ ReaderLooks(1)
    BY <2>2, <2>3 DEF WriteFrame, Refuse, CloseCleansUp, ReaderLooks, pollerOnly, readOnly, loops,
       traffic, pollerVars, vars
  <2>4. CASE Enqueue
    <3>1. /\ offer \in Frames /\ \A i \in 1 .. Len(accepted) : accepted[i] < offer
      BY <2>4 DEF Enqueue, Typed, PollerOK, Frames, OfferOrder
    <3>2. /\ outgoingCh' = Append(outgoingCh, offer) /\ accepted' = Append(accepted, offer)
          /\ received' = received /\ writer' = writer
      BY <2>4 DEF Enqueue, pollerOnly, loops
    <3>3. Hand' = Hand BY <3>2 DEF Hand
    <3>4. received \o Hand \o Append(outgoingCh, offer) = Append(received \o Hand \o outgoingCh, offer)
      <4>1. offer \in Frames BY <3>1
      <4> QED BY <1>c, <4>1, AppendMoves
    <3>5. received \o Hand \o outgoingCh \in Seq(Frames) BY <1>c, ConcatProperties
    <3>6. Lossless(Append(received \o Hand \o outgoingCh, offer), Append(accepted, offer))
      BY <1>c, <2>1, <3>1, <3>5, LosslessAppend
    <3> QED BY <3>2, <3>3, <3>4, <3>6
  <2>5. CASE WriterTakes(1)
    <3>1. Hand = <<>> BY <2>5 DEF WriterTakes, Hand
    <3>2. Hand' = <<Head(outgoingCh)>>
      BY <1>2, <2>5, FirstTakes DEF Hand, Typed, LoopsOK
    <3>3. outgoingCh # <<>> /\ outgoingCh' = Tail(outgoingCh) BY <1>2, <2>5, FirstTakes
    <3>4. received' = received /\ accepted' = accepted
      BY <2>5 DEF WriterTakes, writerOnly, pollerVars
    <3>5. received \o <<>> \o outgoingCh = received \o <<Head(outgoingCh)>> \o Tail(outgoingCh)
      BY <1>c, <3>3, HeadMoves
    <3> QED BY <2>1, <3>1, <3>2, <3>3, <3>4, <3>5
  <2>6. ASSUME WriterDrops(1) \/ WriterSends(1)
        PROVE  /\ writer[1].pc = "send" /\ writer[1].conn = 1 /\ writer[1].frame \in Frames
               /\ outgoingCh' = outgoingCh /\ accepted' = accepted
               /\ Hand = <<writer[1].frame>> /\ Hand' = <<>>
    <3>1. writer[1].pc = "send" /\ writer[1].conn = 1 /\ writer[1].frame \in Frames
      BY <1>2, <2>6 DEF WriterDrops, WriterSends, OnlyFirst, Typed, HandOK
    <3>2. outgoingCh' = outgoingCh /\ accepted' = accepted
      BY <2>6 DEF WriterDrops, WriterSends, writerOnly, pollerVars
    <3>3. Hand = <<writer[1].frame>> BY <3>1 DEF Hand
    <3>4. Hand' = <<>> BY <2>6 DEF WriterDrops, WriterSends, SetWriter, Hand, Typed, LoopsOK
    <3> QED BY <3>1, <3>2, <3>3, <3>4
  <2>7. CASE WriterSends(1)
    <3>1. received' = Append(received, writer[1].frame)
      BY <1>2, <2>6, <2>7 DEF WriterSends
    <3>2. writer[1].frame \in Frames BY <2>6, <2>7
    <3>3. received \o <<writer[1].frame>> \o outgoingCh =
              Append(received, writer[1].frame) \o <<>> \o outgoingCh
      BY <1>c, <3>2, AppendMoves
    <3> QED BY <2>1, <2>6, <2>7, <3>1, <3>3
  <2>8. CASE WriterDrops(1)
    <3>1. received' = received /\ writer[1].frame \in Frames \cap BadFrames
      BY <2>6, <2>8 DEF WriterDrops
    <3>2. Lossless(received \o <<>> \o outgoingCh, accepted)
      <4>1. Lossless(received \o <<writer[1].frame>> \o outgoingCh, accepted)
        BY <2>1, <2>6, <2>8
      <4> QED BY <1>c, <3>1, <4>1, LosslessDrop
    <3> QED BY <2>6, <2>8, <3>1, <3>2
  <2> QED BY <1>2, <2>3, <2>4, <2>5, <2>7, <2>8, WhileFirstUp
<1> QED BY <1>1, <1>2, FirstUp

----------------------------------------------------------------------------
LEMMA InitIInv == Init => IInv
<1> SUFFICES ASSUME Init PROVE IInv OBVIOUS
<1>1. /\ Established = {} /\ \A g \in Conns : link[g] = "none"
      /\ ~stopped
  BY DEF Init, Established
<1>2. Typed BY InitTyped
<1>3. Unused BY <1>1, FirstConn DEF Init, Unused, DrainAt
<1>4. /\ NoLeakedConnection /\ DisconnectIsPending /\ OnlyFirst /\ FirstConnectionIsLossless
  BY <1>1, FirstConn DEF NoLeakedConnection, DisconnectIsPending, OnlyFirst,
     FirstConnectionIsLossless
<1>5. SomeoneCleansUp BY DEF Init, SomeoneCleansUp
<1>6. OfferOrder BY EmptySeq DEF Init, OfferOrder
<1> QED BY <1>2, <1>3, <1>4, <1>5, <1>6 DEF IInv

LEMMA StepIInv == IInv /\ [Next]_vars => IInv'
  BY StepTyped, StepUnused, StepNoLeak, StepPending, StepOnlyFirst, StepSomeoneCleansUp,
     StepOfferOrder, StepLossless
     DEF IInv

LEMMA Invariance == Spec => []IInv
  BY InitIInv, StepIInv, PTL DEF Spec

(* Every field, channel and goroutine of the writer stays within its type,
   the channel within its capacity and reconnectCh within its one slot. *)
THEOREM TypeCorrect == Spec => []TypeOK
  BY Invariance, TypedIsTypeOK, PTL DEF IInv

(* connectLocked closes what it replaces and a reconnectLoop looks at
   stopped again under mu: a connection that is not closed, healthy or not,
   is the current one, and none is left once Close has run. *)
THEOREM NoConnectionLeaks == Spec => []NoLeakedConnection
  BY Invariance, PTL DEF IInv

(* triggerReconnect's send is lossy, but never loses the last wake-up: as
   long as the writer is marked disconnected somebody is about to dial. *)
THEOREM NoWakeUpIsLost == Spec => []DisconnectIsPending
  BY Invariance, PTL DEF IInv

(* Every file bufferToDisk makes is removed by the deferred cleanup of a
   writeLoop, however late it was made. *)
THEOREM EveryFileIsRemoved == Spec => []NoFileLeftBehind
<1>1. SomeoneCleansUp => NoFileLeftBehind BY DEF SomeoneCleansUp, NoFileLeftBehind, AllGone
<1> QED BY <1>1, Invariance, PTL DEF IInv

(* Until a write on the first connection fails or it ends, every accepted
   frame reaches the server or is on its way there, in order and once,
   whatever frames in between cannot be marshalled and are dropped. *)
THEOREM FirstConnectionLosesNothing == Spec => []FirstConnectionIsLossless
  BY Invariance, PTL DEF IInv
=============================================================================
