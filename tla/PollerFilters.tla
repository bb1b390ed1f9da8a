--------------------------- MODULE PollerFilters ---------------------------
(***************************************************************************)
(* internal/agent/poller.go: which of the frames it gets the poller hands  *)
(* to the session, in which form, and at which rate it asks for them.  The *)
(* module Agent has the rest of the poller.                                *)
(***************************************************************************)
EXTENDS Integers, Sequences

CONSTANTS Modes, OtherStatus,  \* game modes; a status the filters do not know
          PollerConfigs        \* bound: the settings tried

Statuses == {"playing", "round_paused", "paused", OtherStatus}

PollerConfig == [AllFrames : BOOLEAN, FPS : Int, IncludeModes : SUBSET Modes,
                 ExcludeModes : SUBSET Modes, ExcludeBones : BOOLEAN, ActiveOnly : BOOLEAN,
                 ExcludePaused : BOOLEAN, IdleFPS : Int]

ASSUME PollerAssumption ==
    /\ PollerConfigs \subseteq PollerConfig /\ Modes # {}
    /\ OtherStatus \notin {"playing", "round_paused", "paused", "none"}

VARIABLES
    pollerCfg, game,    \* the settings; what the server answers with
    isIdle, ticker,     \* "off", and then the rate the ticker has: "active" or "idle"
    polled,             \* the last poll: was its frame handed over, with bones
    lastSent            \* the status of the last frame handed over

pollerVars == <<pollerCfg, game, isIdle, ticker, polled, lastSent>>

Games == [status : Statuses, mode : Modes]
NoConfig == [AllFrames |-> FALSE, FPS |-> 0, IncludeModes |-> {}, ExcludeModes |-> {},
             ExcludeBones |-> FALSE, ActiveOnly |-> FALSE, ExcludePaused |-> FALSE, IdleFPS |-> 0]
NoPoll == [events |-> FALSE, sent |-> FALSE, bones |-> FALSE]

PollerInit ==
    /\ pollerCfg = NoConfig /\ game = [status |-> OtherStatus, mode |-> CHOOSE m \in Modes : TRUE]
    /\ isIdle = FALSE /\ ticker = "off" /\ polled = NoPoll /\ lastSent = "none"

----------------------------------------------------------------------------
(* One list is looked at only if there is no other. *)
shouldStreamMode(mode) ==
    IF pollerCfg.IncludeModes # {} THEN mode \in pollerCfg.IncludeModes
    ELSE mode \notin pollerCfg.ExcludeModes

isActiveGameplay(status) == status = "playing"
isPausedState(status) == status \in {"round_paused", "paused"}

(* Mutant: --exclude-paused counts without --active-only. *)
PassesActiveOnlyAndPaused(status) ==
    /\ ~pollerCfg.ActiveOnly \/ isActiveGameplay(status) \/ isPausedState(status)
    /\ ~(pollerCfg.ExcludePaused /\ isPausedState(status))

(* Paused frames pass --active-only. *)
PassesActiveOnly(status) ==
    \/ ~pollerCfg.ActiveOnly \/ isActiveGameplay(status)
    \/ isPausedState(status) /\ ~pollerCfg.ExcludePaused

Passes(frame, events) ==
    shouldStreamMode(frame.mode) /\ PassesActiveOnly(frame.status) /\ (pollerCfg.AllFrames \/ events)

HasIdleRate == pollerCfg.IdleFPS > 0 /\ pollerCfg.IdleFPS # pollerCfg.FPS

(* Mutant: the ticker is never set back. *)
NewTickerOneWay(idle) == IF idle /\ ~isIdle /\ HasIdleRate THEN "idle" ELSE ticker

(* The ticker is set when isIdle changes. *)
NewTicker(idle) ==
    CASE idle /\ ~isIdle /\ HasIdleRate -> "idle"
      [] ~idle /\ isIdle -> "active"
      [] OTHER -> ticker

StartPoller(config) ==
    /\ ticker = "off" /\ ticker' = "active"
    /\ pollerCfg' = config
    /\ UNCHANGED <<game, isIdle, polled, lastSent>>

(* A frame that a filter drops leaves the rate alone. *)
Poll(events) ==
    /\ ticker # "off"
    /\ IF Passes(game, events)
       THEN /\ isIdle' = ~isActiveGameplay(game.status)
            /\ ticker' = NewTicker(isIdle')
            /\ polled' = [events |-> events, sent |-> TRUE, bones |-> ~pollerCfg.ExcludeBones]
            /\ lastSent' = game.status
       ELSE /\ polled' = [events |-> events, sent |-> FALSE, bones |-> FALSE]
            /\ UNCHANGED <<isIdle, ticker, lastSent>>
    /\ UNCHANGED <<pollerCfg, game>>

ServerAnswers(answer) ==
    /\ ticker # "off"
    /\ game' = answer /\ polled' = NoPoll
    /\ UNCHANGED <<pollerCfg, isIdle, ticker, lastSent>>

----------------------------------------------------------------------------
PollerNext ==
    \/ \E config \in PollerConfigs : StartPoller(config)
    \/ \E events \in BOOLEAN : Poll(events)
    \/ \E answer \in Games : ServerAnswers(answer)

(* The ticker ticks, and now and then a frame has an event. *)
PollerFairness == SF_pollerVars(Poll(TRUE))

PollerSpec == PollerInit /\ [][PollerNext]_pollerVars /\ PollerFairness

(* Every variable has the type of the local it stands for. *)
PollerTypeOK ==
    /\ pollerCfg \in PollerConfig /\ game \in Games
    /\ isIdle \in BOOLEAN /\ ticker \in {"off", "active", "idle"}
    /\ polled \in [events : BOOLEAN, sent : BOOLEAN, bones : BOOLEAN]
    /\ lastSent \in Statuses \cup {"none"}

(* What the descriptions of the flags ask for: "Only stream these game modes",
   "Exclude these game modes from streaming", "Only stream frames during active
   gameplay (game_status=playing)", "Send all frames, not just frames with
   events". *)
AskedModes == (IF pollerCfg.IncludeModes = {} THEN Modes ELSE pollerCfg.IncludeModes)
              \ pollerCfg.ExcludeModes
AskedStatuses == IF pollerCfg.ActiveOnly THEN {"playing"} ELSE Statuses

Asked(frame, events) ==
    /\ frame.mode \in AskedModes /\ frame.status \in AskedStatuses
    /\ pollerCfg.AllFrames \/ events

(* What no reading of them asks for.  Where the code lets through more than the
   descriptions say, paused frames under --active-only and excluded modes that
   are also included, neither Asked nor Unasked holds. *)
Unasked(frame, events) ==
    \/ pollerCfg.IncludeModes # {} /\ frame.mode \notin pollerCfg.IncludeModes
    \/ pollerCfg.IncludeModes = {} /\ frame.mode \in pollerCfg.ExcludeModes
    \/ pollerCfg.ActiveOnly /\ frame.status = OtherStatus
    \/ pollerCfg.ActiveOnly /\ pollerCfg.ExcludePaused /\ frame.status # "playing"
    \/ ~pollerCfg.AllFrames /\ ~events

(* In every combination of the flags a frame they ask for is handed over, and
   none that no reading of them asks for; bones only as wanted; and after it
   the ticker has the rate that goes with this frame, however many frames the
   filters have dropped before. *)
StreamIsAsAsked ==
    /\ polled # NoPoll /\ Asked(game, polled.events) => polled.sent
    /\ polled.sent => /\ ~Unasked(game, polled.events)
                      /\ polled.bones # pollerCfg.ExcludeBones
                      /\ HasIdleRate => (ticker = "idle" <=> game.status # "playing")

Playing == ticker # "off" /\ game.status = "playing" /\ game.mode \in AskedModes

(* Once the game goes on for good, the poller asks for it at its full rate,
   however it was slowed down before. *)
PlayIsFullSpeed == <>[]Playing => <>[](ticker = "active")
=============================================================================
