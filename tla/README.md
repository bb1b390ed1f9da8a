# A formal model of nevr-agent

nevr-agent (`src/`, Go) records the telemetry of EchoVR game servers. These
modules model its core, the recording pipeline: what happens between a game
server's HTTP API and the files and streams that its frames end up in; the
converter that turns these files into one another; and the program's other
commands: the replay server, the event dump, the version check, where their
settings come from, and the validator beside them. TLC checks the models on
small instances; TLAPS proves every invariant and every action property that the
passing runs check for every value of the parameters. Liveness is left to TLC.

## 1. The system

### Components, their state and their operations

| component | source | state | operations |
|---|---|---|---|
| Scan loop | `cmd/agent/agent.go` `startAgent`, `runAgent` | agent context, map base URL -> session, two tickers | scan a port, open a session, close all, return |
| Session metadata | `internal/agent/session_meta.go` | none | one HTTP request: a match, none, or an error |
| Poller | `internal/agent/poller.go` | two buffers, ticker, 5 s timer, idle flag | poll, filter, hand over a frame, time out, close the session |
| MultiWriter | `internal/agent/writer.go` | list of writers, own context, `stopped` | `WriteFrame`, `Close`, `IsStopped` |
| File writers | `internal/agent/writer_tape.go`, `writer_nevrcap.go`, `writer_echoreplay.go` | context, `outgoingCh`, `stopped`, file, buffer | `ProcessFrames` (a goroutine), `WriteFrame`, `Close`, `IsStopped` |
| WebSocket writer | `internal/agent/writer_websocket.go` | `conn`, `connected`, `disconnectedAt`, `reconnectCh`, `outgoingCh`, disk buffer | `Connect`, `WriteFrame`, `Close`, `readLoop`, `writeLoop`, `reconnectLoop`, `drainDiskBuffer`, `cleanupDiskBuffer` |
| Legacy frame writer | `internal/agent/legacy_writer.go`, `uncompressedNevrCapReader` of `cmd/agent/dumpevents.go` | compressor, file; offset of the reader | header, frame with varint length, close; read a frame |
| Converter | `cmd/agent/converter.go` | the file system | discover, convert, validate, skip or overwrite |
| Replay server | `cmd/agent/replayer.go` | file list, current frame, its number, `isPlaying` | playback goroutine, HTTP handlers |
| Event dump | `cmd/agent/dumpevents.go` | reader, detector, current frame, error channel, statistics | read, detect, print, sum up |
| Version check | `cmd/agent/version_check.go` | none | ask for the release, compare versions |
| Configuration, command line | `internal/config/config.go`, `cmd/agent/main.go`, the start of `runAgent` | settings, targets | load, overlay, validate, parse ports, run a command |
| Validator | `cmd/validator/main.go` | two readers of one file, error count | parse, re-encode, compare |
| Benchmark comparison | `tools/benchcmp.go` | none | |

The API server the README of the repository describes is not in the repository.

### How they interact

- The scan loop asks each server for its match; for a new one it creates the
  writers, starts `ProcessFrames` of the file writers as goroutines, wraps more
  than one writer in a MultiWriter, remembers the session and starts a poller.
- The poller calls `WriteFrame` of the session and, when it returns, `Close`.
  A file writer's context is a child of the agent's; those of a MultiWriter and
  of a WebSocket writer are not.
- A file writer's worker closes its own session when it sees a frame of another
  match; the scan loop finds that with `IsStopped` and opens the next session.
- The replay server's playback goroutine and its handlers share the current
  frame through one mutex, all but one read of `isPlaying`.
- The event dump hands frames to a detector, which sends what it finds through a
  channel to a third goroutine; that one reads the command's current frame under a
  mutex and reports its first error through a channel of one.
- `main.go` makes the settings before every command runs; the command overlays
  its own flags.
- The goroutines of a WebSocket writer share `conn`, `connected` and the disk
  buffer through two mutexes and wake each other through `reconnectCh`.

### What is hard

Checks and the steps that rely on them are separate (`IsStopped` and the send;
a snapshot of `conn` and its use); several parties may close the same session;
failures in the middle of a recording; a channel that is full; sessions replaced
while their pollers still run; outages while frames are under way. `PROJECT.json`
lists these hazards line by line with the properties that cover them.

### What makes each component correct

- File writer: the file is a gap-free initial piece of what was accepted, of one
  match only; a match that ends by itself is complete; the worker always ends.
- WebSocket writer: no connection or temporary file is leaked, no wake-up lost,
  order kept while a connection lasts, `Close` ends everything.
- Scan loop, poller, MultiWriter: every match is recorded, once; silent servers
  and interrupts end what they should.
- Converter: a recording is never lost, and what is reported as converted is.
- Replay server: an answer was true at one moment; every file is played, whatever
  is wrong with its neighbours.
- Event dump: events are printed in order, never next to an earlier frame; an
  exit with 0 means that everything found was printed; the command always ends.
- Legacy format: what was written is what is read, and a file that was cut gives
  its whole frames and nothing else.
- Poller's filters: every frame the flags ask for is handed over and none that
  they rule out; the rate follows the game.
- Settings: every command gets the value of the highest source that gave one; no
  port is scanned that was not named.
- Version check: an announced release is a higher one.
- Validator: valid means that the whole recording is, but for rounding; a recording
  that is, is called valid.

## 2. Modules

| module | models |
|---|---|
| `FileSession` | what the three file writers share: the struct, `WriteFrame`, `Close`, `IsStopped`, the pieces their workers have in common |
| `TapeWriter`, `NevrCapWriter`, `EchoReplayWriter` | the three `ProcessFrames` |
| `FileWriters` | one session of any format with its poller, worker and closers; fairness; the properties; the refinement mapping |
| `Recording` | the abstract specification: frames are accepted, a growing piece of them is recorded, the recording is sealed |
| `FileWritersProofs` | the theorems about `FileWriters` |
| `WebSocketWriter` | the streaming writer with all its goroutines |
| `WebSocketWriterProofs` | the theorems about it |
| `Agent` | scan loop, pollers, MultiWriter, with the writers reduced to what the agent sees of them |
| `AgentProofs` | the theorems about it |
| `Converter` | `agent convert`: batches of conversions over a file system, run after run |
| `ConverterProofs` | the theorems about it |
| `ReplayServer` | `agent replay`: playback against the handlers |
| `ReplayServerProofs` | the theorems about `ReplayServer` |
| `EventDump` | `agent show`: command, detector and printing goroutine; tapes |
| `EventDumpProofs` | the theorems about it |
| `LegacyFormat` | the bytes of a nevrcap file, written, cut and read |
| `PollerFilters` | which frames the poller lets through, and its two rates |
| `VersionCheck` | `agent check-update` |
| `Settings` | where settings come from; the arguments of `agent stream` |
| `Validator` | the validator, a program of its own |
| `ValidatorProofs` | the theorems about it |
| `CommandLine` | the composition of the seven: `Settings` makes the settings, then one command runs |
| `CommandLineProofs` | the theorems about the composition, `Settings`, `PollerFilters`, `VersionCheck` and `LegacyFormat` |
| `MC*` | definitions of constants for TLC; the bounds are in the `.cfg` files |

State corresponds to fields by name (`stopped`, `outgoingCh`, `conn`,
`disconnectedAt`, `sessions`...). Program counters stand for the place of a
goroutine in its function: in `FileSession`, `worker` is `"first"`/`"firstBlock"`
and `"poll"`/`"block"` for the outer and inner select of the tape writer,
`"select"` for the plain one, `"check"` and `"write"` between a receive and the
next, `"close"`, `"closing"`, `"flush"`, `"finish"` for the way out. An action is a
section under a lock, a channel operation or a file or socket operation. The tape
writer's start is three of them: `TapeCreate`, `TapeHeader` and `TapeFirstFrame`.
`WriteFrame` therefore is two actions: the check of `stopped`, then the select
(`Enqueue` or `Refuse`). `Close` is two as well: the context is cancelled before
the lock is taken.

History variables: `accepted` (frames `WriteFrame` returned nil for),
`acceptedAtCancel`, `acceptedAtStop` and, for the stream, `received`.

Abstractions. A frame is its number and its session ID. A file is the sequence
of frames in it and a state. A failing file operation is a nondeterministic
choice; such errors are sticky in the deflate stream, and so is `io`. In the
WebSocket writer a frame is a number, how long ago `disconnectedAt` was set is
left open, reconnectLoops are counted because they differ in nothing, and a write
into a connection the network has broken may succeed (and is lost) or fail. A write
may also fail on a connection that is up (`WriteError`: a deadline has passed, for a
frame, a line of a drain or a ping); the link is `failing` from then on, because the
library keeps the error, while reads go on. `MaxBreaks` bounds both kinds of failure.
Some frames, `BadFrames`, cannot be marshalled: they are dropped (`WriterDrops`), and
the disk buffer drops frames when any of its operations fails (`WriterBuffers`). In
`Agent` a server answers with its match or not at all, and the poller's filters
let a frame pass or drop it. In `Converter` a path is a directory, a name, how
often `_converted` was appended and a format; the frames of a recording are known
by the path it was recorded to, so that a mix-up shows. The conversions to tape
and the codecs' readers are libraries: as the converter's own loops do, they read
until the end or an error. Files are taken in any order. `done` is a history
variable that holds every conversion counted as successful, with whether its output
could be closed (`closed`): the deferred `Close` may fail and lose frames
(`CloseFails`), and the conversion is counted all the same. The round trip of
`--validate` works on copies in a temporary directory and is one action, which
may pass only for an echoreplay file that can be read to its end; its way back is
`conversion.ConvertNevrcapToEchoReplay`, a library, so that its verdict on such a file
is left open.

`CommandLine` takes one invocation through `Settings` into one of the other
modules. A command reads its settings when it starts and not again, so
`HandOver` forgets them; the modules share no other state. Of `convert` it has
only the writing and reading of a nevrcap file, of `stream` only the poller's
filters; `Converter` and `Agent` have the rest.

- `ReplayServer`: a frame is its file and its number. The handlers differ in which
  part of one snapshot they use, so there is one `Snapshot`, and `Respond` for the
  second read of `isPlaying` in `buildFrameResponse`. Delays are left out.
- `EventDump`: a file is the number of events in each of its frames and how it
  ends; events are numbered by their frame. The detector is a library
  (`processing`), of which three things are assumed: `DetectEvents` does not make
  the command wait, a detector that is stopped closes its channel in the end, and
  it may drop the frames it has not looked at.
- `LegacyFormat`: a byte of a prefix is a digit and a flag in base `Base` (128 in
  the code); the bytes of a payload all carry the number of their message, so that
  a misplaced byte shows. A message that cannot be decoded as a frame is
  skipped; a header may be one. The compressor is a pipe that notices a cut.
- `PollerFilters`: a poll sees a status, a mode and whether there were events;
  rates are `active` and `idle`.
- `Settings`: there is one key for each way of treating a setting (environment and
  flag; environment and a flag that counts when it is not empty; a flag that always
  counts; file and flag), and its value is the source it came from.
- `VersionCheck`: a version is its numbers; suffixes are dropped by
  `extractNumeric`.
- `Validator`: a document is the value of one key, which may be missing; the
  codec's reader has a position of its own.

## 3. Runs

| run | checks | bounds |
|---|---|---|
| `file_writers` | the properties of `FileWriters` | two matches, a channel of 2, 3 offers |
| `tape_shutdown` | `ShutdownKeepsFrames`, violated | same |
| `websocket` | connections, wake-ups, temporary files | 3 connections, 1 failure, 1 frame, a channel of 1 |
| `websocket_liveness` | `FirstConnectionIsLossless`, `CloseEndsLoops`, `BrokenIsClosed` | 2 connections, 1 failure, 2 frames of which the first cannot be marshalled, a channel of 1 |
| `websocket_teardown` | `LiveConnectionsSurvive`, violated | 2 connections, 1 failure |
| `websocket_buffer` | `BufferIsKept`, violated | 2 connections, 1 failure, 1 frame |
| `agent` | recording of matches, shutdown, replacement of sessions | 1 server, 2 matches, 1 file failure, 2 sessions alive |
| `agent_file_and_stream` | `FileOfManyIsRecorded`, violated | same, without a failure |
| `agent_start_failure` | `FailedStartIsSurvived`, violated | same, a tape, 1 match |
| `converter` | recordings, outputs, exit status, progress | 2 recordings of 2 frames, one name in 2 directories, 2 runs, 6 command lines, 1 I/O failure |
| `converter_roundtrip` | `ConversionKeepsFrames`, violated | same |
| `command_line` | the properties of the seven modules under `CommandLine` | each setting from every set of sources; up to 2 arguments of up to 3 parts; files of 4 frames with 4 events; 1 client, playlists of 2 files; versions of up to 4 parts; the filters and rates in all combinations; 2 messages of up to 4 bytes in base 2 with prefixes of up to 3 bytes; recordings of 3 lines, 2 errors allowed |

Why these are enough. Three offers and a channel of two give a frame in hand,
frames waiting behind it, a full channel and a refused frame, with the foreign
frame first, in the middle or last, and a chunk boundary of the echoreplay
buffer anywhere. A drain sends something only after a second reconnection, hence
three connections; one failure, an outage or a failed write, is enough for any
number of reconnections, because a reconnect that closes a live connection causes
the next. Of two frames one is dropped for what it holds while the other waits
behind it; any number of them is left to the proof. Pollers of different
servers share nothing but the scan loop, which visits servers one by one; two
sessions of one server are what can get in each other's way. Two runs of the
converter are one that leaves something behind and one that finds it; the six
command lines make outputs collide, land among the inputs, replace their input
and be read again, and use every branch of `convertFile` and `--validate`.
The files shown have frames without, with one and with two events, so that the
detector may lag behind, a batch has a second event, and an error may come first,
last or never. Two files in a playlist are one and its neighbour, on
either side; clients do not affect each other. Lengths up to 4 in base 2 take
prefixes of one, two and three bytes, and a file may be cut after any byte. Three
lines are one that is wrong and two that the readers may confuse after it.

Deadlock is not checked: in every model the system may really come to an end.

### Fairness

- File writers: the worker goroutine, a `WriteFrame` inside its select and a
  poller inside `Close` go on (weak fairness). Nothing obliges the poller to
  offer frames or anybody to close the session.
- Converter: none. That a run ends is checked as an action property, a measure
  of the work left that every step of a run makes smaller.
- WebSocket writer: every goroutine that can take a step does; the case
  `ctx.Done()` of the writeLoop's select, which may be ready again and again next
  to a frame that keeps circulating, is taken in the end because select chooses
  at random (strong fairness). No dial has to succeed.
- `CommandLine`: the goroutines of `show` and `replay` go on, an event detector that
  has frames looks at them and one that is stopped closes its channel (weak
  fairness); the ticker ticks and, now and then, a polled frame has an event
  (strong fairness: the server's answers change all the time). No client has to
  ask for anything, and nobody has to start a command.
- Agent: as above; a scan that meets a server playing a match opens its session
  in the end, the stop of the scan loop's selects is taken in the end, and the
  filters let a frame of a match through now and then (strong fairness). File
  operations may fail at most `MaxFailures` times.

### Where the code and what is said of it disagree

- `tape_shutdown`: the priority select of the tape writer's main loop is said to keep
  the frames in the channel at shutdown. It takes one of them, then sees `stopped`,
  drops it and leaves the rest. (Before the first frame is written a frame may be lost
  in the inner select as well; the comment is not about that, nor is the property.)
- `websocket_teardown`: after one outage several tokens reach `reconnectCh`, and a
  late `readLoop` blames the new connection for the error of the old one: healthy
  connections are closed and dialled again.
- `websocket_buffer`: the buffer an aborted drain leaves "for next reconnect" is
  removed by the `writeLoop` that ends with the same failure.
- `agent_file_and_stream`: with more than one output the session is a MultiWriter,
  which never looks stopped when its file writers stop; the next match on the
  server is not recorded until the server has been silent for five seconds.
- `converter_roundtrip`: the converter writes nevrcap files without a header, and
  every reader of such files skips one: converted back, the first frame is gone.
- `agent_start_failure`: a writer that fails at its start returns without `Close`; its
  session looks active, nobody reads its channel, and nothing is recorded as long as
  the server answers. `SingleFileIsRecorded` therefore excludes such failures, and
  `GoneMeansStopped` and `NewMatchStops` exempt such workers.

Without a run of their own, because each is plain from one or two definitions of the
model. The first six are about what a checked property is about too; that property
then takes no side, neither the code's nor the text's:

- `--validate`, "data integrity via round-trip conversion", converts the input once
  more and never opens the output. An output that lost frames in its deferred `Close`,
  whose error is dropped, passes and counts as successful (`CloseFails`, `Count`,
  `validateRoundTrip`). `SuccessMeansComplete` is about conversions whose output could
  be closed.
- `--frequency`, `--format` and `--output` of `stream`, and all flags of `convert`,
  replace the configuration whether they are given or not (`FlagAnyway`); the comment
  at `agent.go:124` says "only if explicitly set". Of all the settings that can be made
  "via environment variables", only four of the agent's are ever asked for (`getEnv`).
  `EffectiveSettings` is about the settings of which all sources are looked at
  (`Overlaid`).
- With `--active-only`, "only [...] game_status=playing", paused frames still pass
  unless `--exclude-paused` is given too (`PassesActiveOnly`).
- With `--include-modes` and `--exclude-modes` together the second is ignored
  (`shouldStreamMode`). `StreamIsAsAsked` asks for what the descriptions of these flags
  ask for, and rules out what no reading of them does.
- The rate follows the frames that pass all filters, so with `--active-only` the idle
  rate is never used for a lobby, the very use the repository's README gives for it.
  `StreamIsAsAsked` speaks of the rate after a frame that was handed over, and
  `PlayIsFullSpeed` of the full rate only.
- The validator says that it ignores differences of rounding, and compares with a
  tolerance; but it also asks `cmp.Diff`, which has none (`SameDocument`). By
  `ValidMeansAllGood` what is valid has no larger difference, and what has none at all
  is valid.
- `./agent.yaml`, the default configuration file by the help text of `--config`, is
  never read: `LoadConfig` reads a file only when one is named.
- A host that is named twice is scanned on the ports of the last argument only
  (`TargetsOf`), and `host:` without ports is accepted and scans nothing.
- `--debug` alone does not change the log level, which is `info` by default.
- `show` on an empty echoreplay or nevrcap file panics (`StopReading`), and the
  reader of uncompressed echoreplay files fails at the first line.
- A nevrcap file without compression that is cut inside a prefix, or right after
  one, passes for whole (`ReadNoPrefix`, `ReadNoMessage`).

## 4. Proofs

`FileWritersProofs` proves for every channel capacity, number of frames and set
of session IDs (`SessionAssumption` is all that is assumed):

- `TypeCorrect`: the type invariant.
- `FileIsPrefix`: the file is an initial piece of the accepted frames, of its own
  match only. This is not inductive: the frame in hand, the memory buffer and
  the channel matter as well. The strengthening `IInv` says that what is recorded,
  buffered, in hand and in the channel, in this order, is a piece of what was
  accepted without a gap (`FileInv`, `HandInv`, `ChannelInv`). It is preserved
  because every action moves one frame from one of these places to the next or
  drops one together with the right to record anything more; `StepShapes` sorts the
  actions of all three formats into these few shapes, and there is one lemma per
  shape.
- `SessionImplementsRecording`: every step is a step of `Recording` or a stutter
  (`GrowthRecords` for the chunks of the echoreplay buffer).
- `LateFramesAreFew`, `GoneSessionsAreStopped`: from inductive invariants of their own.
- `MatchesAreComplete`: a match that ends by itself is recorded whole. `CompleteInv`
  has three parts: while nobody closes from outside, context and `stopped` belong
  to the worker alone; a worker on its way out has recorded or buffered all it took
  but the last frame, and that one is foreign; after the flush the buffer is empty.
- `TapesAreDeferred`: as long as no operation fails, a tape file without a frame is
  there only while the worker holds the frame it was created for, the first one
  accepted. By the order of the worker's steps and by what is in its hand between
  them (`TapeInv`).

`ReplayServerProofs` proves for every list of files and any number of clients
(`ReplayAssumption`):

- `AnswersAreConsistent`: an answer of the replay server was true at one moment
  (`SnapshotIsConsistent`). Alone it is not inductive: an answer is taken from
  the variables playback shares, so `SharedInv` says the same of them, and these
  follow playback's own position (`PlaybackInv`): while a file is read the number is
  the frames read of it, between two files it is still that of the file before,
  and `isPlaying` is only reset after the last.
- `ReplayTypeCorrect`: the type invariant, for which playback's position must be one
  of the list or the one after (`PlaceInv`).

`WebSocketWriterProofs` proves for any number of connections, outages and frames
and any capacities: `TypeCorrect`, `NoConnectionLeaks`, `NoWakeUpIsLost`,
`EveryFileIsRemoved` and `FirstConnectionLosesNothing`. The five properties are
proved in one invariant `IInv`, with what they need besides each other:
connections are numbered in the order they were made, and one that was never
made has no goroutines (`Unused`); while the first connection is up, its three loops
are the only ones (`OnlyFirst`), and what is received, in hand and in the channel is
in the order of acceptance with nothing but unmarshalable frames missing; a temporary file on disk always has a `writeLoop`
that is still to remove it (`SomeoneCleansUp`).

`AgentProofs` proves for any servers, outputs, matches and number of sessions alive
(`AgentAssumption`): `TypeCorrect`; `NoRunningSessionIsForgotten`, an invariant: a
session that is no longer in the scan loop's map has stopped; and
`ServersHaveOneRecorder`. The invariant behind the last is `MapInv`: a session that
still runs is the one the map has for its server. It has one session per server, so
no two record the same.

`ConverterProofs` proves for any directories, names and command lines: `TypeCorrect`;
`RecordingsAreSafe` (an output that is being written was not there before, or
`--overwrite` was given: `OutputIsNew`); `SuccessIsComplete` (what is copied and what is
left of the input is the input as it was opened: `CopyIsFaithful`; for outputs that
could be closed, see `converter_validate` for the others);
`ExitZeroHasOutput` (each file handled so far has its output, or a failure was
counted: `HandledHaveOutput`); and the action property `RunsEnd`: each step of a run
lowers the measure of its work, whatever the size of the batch.

`EventDumpProofs` proves for every recording and every interleaving of the three
goroutines: `ShowTypeCorrect`; `LabelsFollowEvents`; `ShowSuccessIsComplete`. The hard part
is `DetectedInv`: what is printed, the batch being printed and those in the channel
are, one after the other, what was detected. The place of each batch is given by a
function of offsets, and each step moves a batch from one place to the next.

`ValidatorProofs` proves for every recording and any limit on errors:
`ValidatorTypeCorrect` and `VerdictIsRight`. Because an error may make the two readers
fall out of step, `ReadersInv` only says that the codec's is never ahead and that
they are in step as long as there is no error; that is enough for either verdict.

`CommandLineProofs` proves what holds of the program as a whole:

- `EveryCommandIsItself`: a behaviour of the program is one of every command's own
  specification, up to stuttering. With it `CommandsAreRight` carries the
  theorems about the commands over to the program, and `TypeCorrect` has the
  types of all of them together.
- `SettingsAreEffective`: a command finds each setting of which all sources are looked
  at (`Overlaid`) at the value of the highest source, in the order the repository's
  README documents, that gave one. `ScannedPortsAreNamed`: for any number of arguments, parts and
  ports, `parsePortRange` and the loop over the arguments give the ports that
  were named.
- `FiltersAreRight`: the code's filters lie between what the flags ask for and what
  they rule out (`FiltersAreBetween`); then from `RateInv` (the rate of the ticker
  belongs to the last frame handed over) and `PolledInv`.
- `HigherIsAStrictOrder`, `AnnouncedIsHigher`: the comparison of versions is a
  strict order, total on the parts it compares, and an update is announced exactly
  when the release is higher, for parts of any size. `UpdatesGoUp` states the property
  the run checks, `UpdateIsOrdered`; its reference `Rank` is the order of versions
  only for parts below 100, so this theorem has that hypothesis, and the other two
  do without it.
- `LegacyTypeCorrect` and `RecordedIsReadBack`: what is read from a nevrcap file is
  what was written, frame by frame, and a cut file gives its whole frames only,
  for every base, every length and every place of the cut. The invariant
  `LegacyIInv` says that the bytes of the file are the messages at their offsets, as
  far as the file goes, and that the reader stands behind a whole message with the
  frames up to it. Four lemmas are about the varint prefixes: their shape
  (`PrefixesHaveShape`), that the reader's loop over a whole prefix gives the length
  that was written (`DigitsDecode`, `WholePrefixIsRead`), and that it gives none for
  a prefix that was cut (`CutPrefixIsNone`).

Several of these are inductions over data: the arguments of a command line, the
digits of a length, the messages of a file. The library's induction theorems take
an operator and cannot be used; `IntervalInduction`, `StrongInduction` and
`RecursionExists` in `CommandLineProofs` say the same of sets, from the
well-foundedness of `<` on the naturals, and that is enough for the recursive
functions of these modules, each of which is defined on an interval.

What is assumed is the named `ASSUME` of each module: the sets of names are finite
where the code counts them, the bounds are natural numbers, a placeholder is not
a member of the set it stands beside. TLC evaluates them in the runs.

Only model-checked:

- Liveness and everything that needs ENABLED: `CancelEndsWorker`, `NewMatchStops`,
  `FramesAreConsumed`, `CloseEndsLoops`, `BrokenIsClosed`, `SilentServerIsDropped`,
  `InterruptEndsFiles`, `SingleFileIsRecorded`, `ShowEnds`, `EveryFileIsPlayed`,
  `PlayIsFullSpeed`. That is out of TLAPS's reach.
- The properties of the runs that show a disagreement: they are false.

## 5. Not modelled

- The benchmark comparison of `tools`: a script that prints tables.
- `ParseByteSize`, `FormatByteSize`, `ValidateAPIServerConfig` and
  `CheckForUpdateAsync`: no command calls them. The API server of the repository's
  README is not in the repository.
- Time: that two seconds are enough for the writers to finish after an interrupt,
  how long a dial blocks the callers of `IsStopped`, the delays between the frames of
  a playback, and the numbers of the poller's rates.
- Two goroutines writing to one WebSocket connection at once, which the library
  forbids: a message is one step.
- The insides of the libraries: codecs, compressor, event detector, JSON. What is
  assumed of them is said above.
- Texts: what the events and summaries look like, HTML, log lines, file names.

Proofs that are still worth doing: the safety halves of the liveness properties, as
measures that every step lowers (the event dump and the replay server's playback
end the way a run of the converter does); an abstract specification of the
WebSocket writer (what the server receives of one connection) and one of the
converter (a file is replaced as a whole or not at all), and their refinement.
