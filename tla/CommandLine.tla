---------------------------- MODULE CommandLine ----------------------------
(***************************************************************************)
(* One invocation of the program: cmd/agent/main.go makes the settings,    *)
(* then the command runs.  `convert` is here only the writer of a nevrcap  *)
(* file and a later reader of it (module Converter has the rest), `stream` *)
(* only the poller's filters (module Agent has the rest); the validator is *)
(* a program of its own.                                                   *)
(***************************************************************************)
EXTENDS Settings, EventDump, ReplayServer, VersionCheck, PollerFilters, LegacyFormat, Validator

VARIABLE program      \* agent or validator

vars == <<program, settingsVars, showVars, replayVars, versionVars, pollerVars, legacyVars,
          validatorVars>>

Anything(command) == CHOOSE i \in Invocations : i.command = command

Init ==
    /\ program \in {"agent", "validator"}
    /\ SettingsInit /\ ShowInit /\ ReplayInit /\ VersionInit /\ PollerInit /\ LegacyInit
    /\ ValidatorInit
    /\ program = "validator" => invocation = Anything("show")

----------------------------------------------------------------------------
(* A command reads its settings when it starts, and not again. *)
HandOver(command) ==
    /\ stage = "run" /\ invocation.command = command
    /\ stage' = "started" /\ cfg' = [k \in Keys |-> "default"] /\ targets' = NoTargets
    /\ invocation' = Anything(command)

Started(command) == stage = "started" /\ invocation.command = command

OnlySettings == UNCHANGED <<showVars, replayVars, versionVars, pollerVars, legacyVars>>
OnlyShow == UNCHANGED <<replayVars, versionVars, pollerVars, legacyVars>>
OnlyReplay == UNCHANGED <<showVars, versionVars, pollerVars, legacyVars>>
OnlyVersion == UNCHANGED <<showVars, replayVars, pollerVars, legacyVars>>
OnlyPoller == UNCHANGED <<showVars, replayVars, versionVars, legacyVars>>
OnlyLegacy == UNCHANGED <<showVars, replayVars, versionVars, pollerVars>>

Show ==
    /\ OnlyShow
    /\ \/ HandOver("show") /\ \E file \in ShowFiles, format \in Formats : RunDumpEvents(file, format)
       \/ UNCHANGED settingsVars /\ (Command \/ DetectorSteps \/ HandlerSteps)

Replay ==
    /\ OnlyReplay
    /\ \/ HandOver("replay") /\ \E list \in Playlists, loop \in BOOLEAN : RunReplayer(list, loop)
       \/ UNCHANGED settingsVars /\ (Listen \/ Playback)
       \/ UNCHANGED settingsVars /\ \E c \in Clients : Snapshot(c) \/ Respond(c)

CheckUpdate ==
    /\ OnlyVersion
    /\ \/ /\ HandOver("check-update")
          /\ \E running \in Versions, outcome \in {"error", "none", "release"} :
                getLatestRelease(running, outcome)
       \/ UNCHANGED settingsVars /\ runVersionCheck

Stream ==
    /\ OnlyPoller
    /\ \/ HandOver("stream") /\ \E config \in PollerConfigs : StartPoller(config)
       \/ /\ UNCHANGED settingsVars
          /\ \/ \E events \in BOOLEAN : Poll(events)
             \/ \E answer \in Games : ServerAnswers(answer)

Convert ==
    /\ OnlyLegacy
    /\ \/ HandOver("convert") /\ UNCHANGED legacyVars
       \/ UNCHANGED settingsVars /\ Started("convert") /\ LegacyNext

Agent ==
    /\ program = "agent" /\ UNCHANGED <<program, validatorVars>>
    /\ \/ SettingsNext /\ OnlySettings
       \/ Show \/ Replay \/ CheckUpdate \/ Stream \/ Convert

Next ==
    \/ Agent
    \/ program = "validator" /\ ValidatorNext /\ UNCHANGED <<program, settingsVars>> /\ OnlySettings

Fairness == ShowFairness /\ WF_replayVars(Playback) /\ PollerFairness

Spec == Init /\ [][Next]_vars /\ Fairness

(* Every variable has its type, whatever command runs. *)
TypeOK ==
    /\ program \in {"agent", "validator"}
    /\ SettingsTypeOK /\ ShowTypeOK /\ ReplayTypeOK /\ VersionTypeOK /\ PollerTypeOK
    /\ LegacyTypeOK /\ ValidatorTypeOK
=============================================================================
