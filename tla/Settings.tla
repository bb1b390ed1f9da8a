------------------------------ MODULE Settings ------------------------------
(***************************************************************************)
(* internal/config/config.go and cmd/agent: where a setting gets its value *)
(* before a command runs, and which ports `agent stream` takes from its    *)
(* arguments.                                                              *)
(***************************************************************************)
EXTENDS Integers, Sequences

CONSTANTS Hosts,
          MaxPort,       \* 65535 in the code
          Invocations    \* bound: the command lines, with files and environment, tried

(* One setting for each way the commands treat them. *)
Keys == {"LogLevel", "JWTToken", "Frequency", "Loop", "Format"}
Sources == {"file", "evr", "nevr", "flag"}
Commands == {"stream", "convert", "replay", "show", "check-update"}

(* A part of a port list: nothing, a port or a range, or something else. *)
PortPart == [form : {"blank", "range", "junk"}, lo : Int, hi : Int]
Argument == [host : Hosts, colons : Nat, parts : Seq(PortPart)]

Invocation == [command : Commands, given : [Keys -> SUBSET Sources],
               config : {"none", "readable", "broken"}, arguments : Seq(Argument),
               valid : BOOLEAN]  \* passes the command's own validation

(* stream has at least one argument (cobra.MinimumNArgs). *)
ASSUME SettingsAssumption ==
    /\ MaxPort \in Nat /\ Invocations \subseteq Invocation
    /\ \A i \in Invocations : i.command = "stream" => i.arguments # <<>>

VARIABLES stage,         \* start, loaded, ready, run, started, failed
          invocation,
          cfg,           \* where each setting comes from
          targets        \* the ports of each host, in order

settingsVars == <<stage, invocation, cfg, targets>>

Origins == Sources \cup {"default", "flagDefault"}
NoTargets == [h \in Hosts |-> <<>>]

SettingsInit ==
    /\ stage = "start" /\ invocation \in Invocations
    /\ cfg = [k \in Keys |-> "default"] /\ targets = NoTargets

----------------------------------------------------------------------------
Given(k, source) == source \in invocation.given[k]

(* NEVR_ goes before EVR_; only these settings can be had this way. *)
getEnv(k) ==
    IF k \notin {"LogLevel", "JWTToken"} THEN "none"
    ELSE IF Given(k, "nevr") THEN "nevr"
    ELSE IF Given(k, "evr") THEN "evr" ELSE "none"

(* A file is read only if it was named. *)
FromFile(k) ==
    IF invocation.config = "readable" /\ Given(k, "file") THEN "file" ELSE "default"

(* Mutant: the file is read last. *)
LoadConfigFileLast ==
    /\ stage = "start"
    /\ IF invocation.config = "broken" THEN stage' = "failed" /\ UNCHANGED cfg
       ELSE /\ stage' = "loaded"
            /\ cfg' = [k \in Keys |-> IF FromFile(k) = "file" \/ getEnv(k) = "none"
                                      THEN FromFile(k) ELSE getEnv(k)]
    /\ UNCHANGED <<invocation, targets>>

LoadConfig ==
    /\ stage = "start"
    /\ IF invocation.config = "broken" THEN stage' = "failed" /\ UNCHANGED cfg
       ELSE /\ stage' = "loaded"
            /\ cfg' = [k \in Keys |-> IF getEnv(k) = "none" THEN FromFile(k) ELSE getEnv(k)]
    /\ UNCHANGED <<invocation, targets>>

FlagIfGiven(k) == IF Given(k, "flag") THEN "flag" ELSE cfg[k]
FlagAnyway(k) == IF Given(k, "flag") THEN "flag" ELSE "flagDefault"

(* The logger opens the log file, if there is one. *)
NewLogger(opens) == stage' = IF opens THEN "ready" ELSE "failed"

(* The flags every command has. *)
PersistentPreRun(opens) ==
    /\ stage = "loaded"
    /\ cfg' = [cfg EXCEPT !["LogLevel"] = FlagIfGiven("LogLevel")]
    /\ NewLogger(opens)
    /\ UNCHANGED <<invocation, targets>>

----------------------------------------------------------------------------
(* The arguments of stream *)

Malformed == [ok |-> FALSE, ports |-> <<>>]

PortsOf(part) ==
    IF part.form = "range" THEN [i \in 1 .. part.hi - part.lo + 1 |-> part.lo + i - 1] ELSE <<>>

(* A blank part is skipped.  All ports so far are checked after every part. *)
parsePortRange(parts) ==
    LET parsed[i \in 0 .. Len(parts)] ==
            IF i = 0 THEN [ok |-> TRUE, ports |-> <<>>]
            ELSE LET part == parts[i]
                     ports == parsed[i - 1].ports \o PortsOf(part)
                 IN  IF \/ ~parsed[i - 1].ok \/ part.form = "junk"
                        \/ part.form = "range" /\ part.lo > part.hi
                        \/ \E j \in DOMAIN ports : ports[j] \notin 0 .. MaxPort
                     THEN Malformed ELSE [ok |-> TRUE, ports |-> ports]
    IN  parsed[Len(parts)]

parseHostPort(argument) == IF argument.colons # 1 THEN Malformed ELSE parsePortRange(argument.parts)

(* Mutant: the first argument of a host counts. *)
TargetsOfFirst(arguments) ==
    [h \in Hosts |->
        LET own == {i \in DOMAIN arguments : arguments[i].host = h}
        IN  IF own = {} THEN <<>>
            ELSE parseHostPort(arguments[CHOOSE i \in own : \A j \in own : i <= j]).ports]

(* A host that is named again gets the new ports instead of the old ones. *)
TargetsOf(arguments) ==
    LET after[i \in 0 .. Len(arguments)] ==
            IF i = 0 THEN NoTargets
            ELSE [after[i - 1] EXCEPT ![arguments[i].host] = parseHostPort(arguments[i]).ports]
    IN  after[Len(arguments)]

(* The frequency is positive, and the output directory is there or made. *)
ValidateAgentConfig(mkdir) == invocation.valid /\ mkdir

(* Frequency, format and output directory are those of the flags, given or not. *)
RunAgent(mkdir) ==
    /\ stage = "ready" /\ invocation.command = "stream"
    /\ cfg' = [cfg EXCEPT !["Frequency"] = FlagAnyway("Frequency"),
                          !["JWTToken"] = FlagIfGiven("JWTToken")]
    /\ LET arguments == invocation.arguments IN
       IF /\ ValidateAgentConfig(mkdir)
          /\ \A i \in DOMAIN arguments : parseHostPort(arguments[i]).ok
       THEN stage' = "run" /\ targets' = TargetsOf(arguments)
       ELSE stage' = "failed" /\ UNCHANGED targets
    /\ UNCHANGED invocation

----------------------------------------------------------------------------
(* The other commands *)

(* Their input files are there; show looks later, and check-update has none. *)
Validated == invocation.command \in {"convert", "replay"} => invocation.valid

RunOther ==
    /\ stage = "ready" /\ invocation.command # "stream"
    /\ cfg' = CASE invocation.command = "replay"  -> [cfg EXCEPT !["Loop"] = FlagIfGiven("Loop")]
                [] invocation.command = "convert" -> [cfg EXCEPT !["Format"] = FlagAnyway("Format")]
                [] OTHER -> cfg
    /\ stage' = IF Validated THEN "run" ELSE "failed"
    /\ UNCHANGED <<invocation, targets>>

SettingsNext ==
    \/ LoadConfig \/ RunOther
    \/ \E opens \in BOOLEAN : PersistentPreRun(opens)
    \/ \E mkdir \in BOOLEAN : RunAgent(mkdir)

SettingsSpec == SettingsInit /\ [][SettingsNext]_settingsVars

(* Every variable has its type. *)
SettingsTypeOK ==
    /\ stage \in {"start", "loaded", "ready", "run", "started", "failed"}
    /\ invocation \in Invocation /\ cfg \in [Keys -> Origins]
    /\ targets \in [Hosts -> Seq(0 .. MaxPort)]

(* "in order of precedence: command-line flags (highest priority), environment
   variables, configuration file, default values (lowest priority)" (README.md):
   the sources that can give a value, the lowest first. *)
Order == <<"file", "evr", "nevr", "flag">>

Offered(k) ==
    {i \in DOMAIN Order : /\ Given(k, Order[i])
                          /\ Order[i] = "file" => invocation.config = "readable"}

HighestWins(k) ==
    IF Offered(k) = {} THEN cfg[k] \in {"default", "flagDefault"}
    ELSE \E i \in Offered(k) : cfg[k] = Order[i] /\ \A j \in Offered(k) : j <= i

ReadBy(command) ==
    {"LogLevel"} \cup CASE command = "stream"  -> {"JWTToken", "Frequency"}
                        [] command = "replay"  -> {"Loop"}
                        [] command = "convert" -> {"Format"}
                        [] OTHER -> {}

(* The settings of which every source that gave one is looked at.  Frequency,
   format and output directory are not among them (the default of a flag that
   nobody gave replaces what the file says), nor is what the environment gives
   and LoadConfig does not ask for. *)
Overlaid(k) == \/ k \in {"LogLevel", "JWTToken"}
               \/ k = "Loop" /\ ~Given(k, "evr") /\ ~Given(k, "nevr")

(* When a command runs, each of these settings has the value of the highest in
   the documented order that gave one, through the three places that overlay
   them: file over default, environment over file, flags over all. *)
EffectiveSettings ==
    stage = "run" => \A k \in ReadBy(invocation.command) : Overlaid(k) => HighestWins(k)

Named(argument) ==
    UNION {argument.parts[i].lo .. argument.parts[i].hi :
              i \in {j \in DOMAIN argument.parts : argument.parts[j].form = "range"}}

(* The ports that are scanned are those the last argument of their host names,
   all of them valid; one bad argument, and nothing is scanned. *)
TargetsAreNamed ==
    stage = "run" /\ invocation.command = "stream" =>
        LET arguments == invocation.arguments IN
        /\ \A h \in Hosts : {targets[h][i] : i \in DOMAIN targets[h]} =
              UNION {Named(arguments[i]) :
                        i \in {j \in DOMAIN arguments :
                                 /\ arguments[j].host = h
                                 /\ \A k \in DOMAIN arguments : arguments[k].host = h => k <= j}}
        /\ \A i \in DOMAIN arguments :
              /\ arguments[i].colons = 1 /\ Named(arguments[i]) \subseteq 0 .. MaxPort
              /\ \A j \in DOMAIN arguments[i].parts :
                    /\ arguments[i].parts[j].form # "junk"
                    /\ arguments[i].parts[j].form = "range" =>
                          arguments[i].parts[j].lo <= arguments[i].parts[j].hi
=============================================================================
