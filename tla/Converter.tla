------------------------------ MODULE Converter ------------------------------
(***************************************************************************)
(* cmd/agent/converter.go: `agent convert`, run again and again over one   *)
(* directory tree of recordings.  A run works through the files it has     *)
(* found one by one; it may be killed at any point, a file operation may   *)
(* fail, and what one run leaves behind is what the next one finds.        *)
(*                                                                         *)
(* A file is what the codecs make of it: its frames, whether a header is   *)
(* in front of them, and whether the file is whole.  An echoreplay file    *)
(* that is not whole lacks the zip directory at its end and cannot be      *)
(* opened; a nevrcap file that is not whole can be read up to a point.     *)
(***************************************************************************)
EXTENDS Naturals, Sequences, FiniteSets

CONSTANTS Dirs, Stems,     \* directories, and names without their extension
          WorkDir,         \* the working directory
          Commands,        \* the command lines in use, see Options
          MaxRecordings,   \* bound: how many recordings there are at first
          Length,          \* bound: how many frames each has
          MaxSuffix,       \* bound: how often "_converted" is in a name
          MaxRuns,         \* bound: how often the converter is started
          MaxFaults        \* bound: how many file operations fail

Exts == {"echoreplay", "nevrcap", "tape"}
Paths == [dir : Dirs, stem : Stems, suffix : 0 .. MaxSuffix, ext : Exts]
Frames == Paths \X (1 .. Length)   \* where a frame was recorded, and its number

(* --format, --output-dir, --output (no or one path), and three flags. *)
Options == [format : {"auto", "tape", "echoreplay", "nevrcap"}, dir : Dirs,
            output : {{}} \cup {{p} : p \in Paths}, overwrite : BOOLEAN, excludeBones : BOOLEAN,
            validate : BOOLEAN]

ASSUME ConverterAssumption ==
    /\ WorkDir \in Dirs /\ Commands \subseteq Options
    /\ {MaxRecordings, Length, MaxSuffix, MaxRuns, MaxFaults} \subseteq Nat

VARIABLES files,     \* the files that exist: a function from paths to contents
          run,       \* whether the converter runs, and the files it has found
          cfg,       \* its options
          todo,      \* the files it has found and not dealt with
          job,       \* the conversion in hand
          failCount,
          started, faults,  \* counters of the two bounds
          original,  \* history: files as the recorder left them
          overwrote, \* history: some run had --overwrite
          done       \* history: what was counted as converted, until its output is
                     \* created anew

history == <<original, overwrote>>
vars == <<files, run, cfg, todo, job, failCount, started, faults, history, done>>

DefaultConfig == [format |-> "auto", dir |-> WorkDir, output |-> {},
                  overwrite |-> FALSE, excludeBones |-> FALSE, validate |-> FALSE]
NoRun == [on |-> FALSE, batch |-> {}]
NoJob == [pc |-> "none"]

Recorded(p, whole) ==
    [header |-> p.ext # "echoreplay", frames |-> [i \in 1 .. Length |-> <<p, i>>], whole |-> whole]

(* Any few recordings; one that the agent did not finish is not whole. *)
Init ==
    /\ \E R \in SUBSET {p \in Paths : p.suffix = 0} :
          /\ IsFiniteSet(R) /\ Cardinality(R) \in 1 .. MaxRecordings
          /\ \E damaged \in SUBSET R : files = [p \in R |-> Recorded(p, p \notin damaged)]
    /\ original = files
    /\ run = NoRun /\ cfg = DefaultConfig /\ todo = {} /\ job = NoJob /\ failCount = 0
    /\ started = 0 /\ faults = 0 /\ overwrote = FALSE /\ done = {}

Put(p, content) == [q \in DOMAIN files \cup {p} |-> IF q = p THEN content ELSE files[q]]

----------------------------------------------------------------------------
(* The start of a run *)

Inputs == {p \in DOMAIN files : p.suffix < MaxSuffix}   \* MaxSuffix leaves room for one more

(* A single file, what is directly in a directory, or what --glob picks there
   by its name; --recursive takes everything below the input directory. *)
discoverFiles ==
    {{p} : p \in Inputs} \cup {{p \in Inputs : p.dir = d} : d \in Dirs}
Picked == {{p \in Inputs : p.dir = d /\ p.ext = e} : d \in Dirs, e \in Exts}
Below == {Inputs} \cup {{p \in Inputs : p.ext = e} : e \in Exts}

(* A run that finds nothing ends at once, and --validate refuses --exclude-bones. *)
Begin(found) ==
    /\ ~run.on /\ started < MaxRuns
    /\ found # {} /\ ~(cfg'.validate /\ cfg'.excludeBones)
    /\ started' = started + 1
    /\ run' = [on |-> TRUE, batch |-> found] /\ todo' = found /\ failCount' = 0
    /\ overwrote' = (overwrote \/ cfg'.overwrite)
    /\ UNCHANGED <<files, job, faults, original, done>>

Start == \E found \in discoverFiles : cfg' \in Commands /\ Begin(found)

(* --output is refused with --recursive and --glob. *)
StartMany ==
    \E found \in Picked \cup Below : cfg' \in {c \in Commands : c.output = {}} /\ Begin(found)

----------------------------------------------------------------------------
(* The loop over the files *)

Idle == run.on /\ job = NoJob
jobOnly == <<run, cfg, started, faults, history>>

(* The output file of p, if the options give one that can work.  A tape
   cannot become anything else: auto knows no target, and for the others the
   name ends in .tape_converted and the conversion is not supported. *)
determineOutputFileForInput(p) ==
    LET target == IF cfg.format = "auto" THEN "tape" ELSE cfg.format
        out(suffix) == {[dir |-> cfg.dir, stem |-> p.stem, suffix |-> suffix, ext |-> target]}
    IN  IF cfg.output # {} THEN cfg.output
        ELSE IF p.ext = "tape" THEN IF cfg.format = "tape" THEN out(p.suffix) ELSE {}
        ELSE out(IF target = p.ext THEN p.suffix + 1 ELSE p.suffix)

(* The pairs convertFile has a branch for that does not fail at once. *)
Supported(p, out) ==
    \/ out.ext = "tape" /\ p.ext # "tape"
    \/ {p.ext, out.ext} = {"echoreplay", "nevrcap"}
    \/ p.ext = out.ext /\ (cfg.excludeBones => p.ext # "tape")

Copied(p, out) == p.ext = out.ext /\ ~cfg.excludeBones

Exists(out) == out \in DOMAIN files

(* Mutant: nobody looks whether there is a file. *)
KeptNever(out) == FALSE

Kept(out) == Exists(out) /\ ~cfg.overwrite

Useless(p) == \A out \in determineOutputFileForInput(p) : ~Kept(out) /\ ~Supported(p, out)

(* Mutant: a file that fails is tried again. *)
RejectAndKeep(p) ==
    /\ Idle /\ p \in todo /\ Useless(p)
    /\ failCount' = 1
    /\ UNCHANGED <<files, todo, job, done, jobOnly>>

(* No output file, or a conversion that does not exist. *)
Reject(p) ==
    /\ Idle /\ p \in todo /\ Useless(p)
    /\ todo' = todo \ {p}
    /\ failCount' = failCount + 1
    /\ UNCHANGED <<files, job, done, jobOnly>>

Skip(p) ==
    /\ Idle /\ p \in todo
    /\ \E out \in determineOutputFileForInput(p) : Kept(out)
    /\ todo' = todo \ {p}
    /\ UNCHANGED <<files, job, failCount, done, jobOnly>>

Convert(p) ==
    /\ Idle /\ p \in todo
    /\ \E out \in determineOutputFileForInput(p) :
          /\ ~Kept(out) /\ Supported(p, out)
          /\ job' = [pc |-> "open", in |-> p, out |-> out]
    /\ todo' = todo \ {p}
    /\ UNCHANGED <<files, failCount, done, jobOnly>>

EndRun ==
    /\ Idle /\ todo = {}
    /\ run' = NoRun /\ cfg' = DefaultConfig /\ failCount' = 0
    /\ UNCHANGED <<files, todo, job, started, faults, history, done>>

----------------------------------------------------------------------------
(* One conversion: open the input, create the output, copy frame by frame. *)

(* What the reader will deliver.  ReadHeader takes the first message of a
   nevrcap file for the header: without a header it eats a frame. *)
Opened(p, out) ==
    LET c == files[p]
    IN  IF Copied(p, out) THEN {c}
        ELSE IF p.ext = "echoreplay" THEN IF c.whole THEN {c} ELSE {}
        ELSE IF c.header THEN {c}
        ELSE IF c.frames # <<>> THEN {[c EXCEPT !.frames = Tail(@)]} ELSE {}

(* What is left of that when creating the output empties the input: a copy
   has read nothing yet, a reader may have buffered some or all of it. *)
Truncated(p, out, c) ==
    IF p # out THEN {c}
    ELSE {[c EXCEPT !.frames = SubSeq(@, 1, n), !.whole = FALSE] :
             n \in IF Copied(p, out) THEN {0} ELSE 0 .. Len(c.frames)}
         \cup (IF Copied(p, out) THEN {} ELSE {c})

Empty == [header |-> FALSE, frames |-> <<>>, whole |-> FALSE]

(* Mutant: an existing file is opened without being truncated. *)
CreateKeeping(out) == IF Exists(out) THEN files ELSE Put(out, Empty)

Create(out) == Put(out, Empty)

(* The output is created once the input could be opened. *)
Open ==
    /\ job.pc = "open"
    /\ \E c \in Opened(job.in, job.out) : \E src \in Truncated(job.in, job.out, c) :
          job' = [pc |-> "copy", in |-> job.in, out |-> job.out, src |-> src,
                  held |-> files[job.in], headed |-> c = files[job.in]]
    /\ files' = Create(job.out)
    /\ done' = {d \in done : d.out # job.out}
    /\ UNCHANGED <<todo, failCount, jobOnly>>

(* Mutant: the loop goes on without counting the failure. *)
FailUncounted == job' = NoJob /\ UNCHANGED failCount

Fail == job' = NoJob /\ failCount' = failCount + 1

(* The input cannot be opened, or its header not be read; that can also
   happen to a first frame that is taken for the header. *)
OpenFails ==
    /\ job.pc = "open"
    /\ \/ Opened(job.in, job.out) = {}
       \/ \E c \in Opened(job.in, job.out) : c # files[job.in]
    /\ Fail
    /\ UNCHANGED <<files, todo, done, jobOnly>>

CopyFrame ==
    /\ job.pc = "copy" /\ job.src.frames # <<>>
    /\ files' = [files EXCEPT ![job.out].frames = Append(@, Head(job.src.frames))]
    /\ job' = [job EXCEPT !.src.frames = Tail(@)]
    /\ UNCHANGED <<todo, failCount, done, jobOnly>>

(* A writer that is closed leaves a file that can be read to its end. *)
Closed(whole) ==
    files' = [files EXCEPT ![job.out].whole = whole,
                           ![job.out].header = IF Copied(job.in, job.out) THEN job.src.header
                                               ELSE job.out.ext = "tape"]

(* The conversion counts as successful, and so it does when the error of the
   deferred Close was dropped (closed is FALSE). *)
Count(closed) ==
    done' = done \cup {[in |-> job.in, out |-> job.out, held |-> job.held, headed |-> job.headed,
                        closed |-> closed]}

Succeed(closed) ==
    IF cfg.validate
    THEN job' = [pc |-> "validate", in |-> job.in, out |-> job.out, held |-> job.held,
                 headed |-> job.headed, closed |-> closed] /\ UNCHANGED done
    ELSE job' = NoJob /\ Count(closed)

(* io.EOF.  A copy notices no damage. *)
AtEnd ==
    /\ job.pc = "copy" /\ job.src.frames = <<>>
    /\ Copied(job.in, job.out) \/ job.src.whole

(* Mutant: every error of ReadFrame ends the loop like io.EOF. *)
FinishOnAnyError ==
    /\ job.pc = "copy" /\ job.src.frames = <<>>
    /\ Closed(Copied(job.in, job.out) => job.src.whole)
    /\ Succeed(TRUE)
    /\ UNCHANGED <<todo, failCount, jobOnly>>

Finish ==
    /\ AtEnd
    /\ Closed(job.src.whole)
    /\ Succeed(TRUE)
    /\ UNCHANGED <<todo, failCount, jobOnly>>

(* --validate converts the input once more, in a temporary directory, to
   nevrcap and back, and compares what comes of it with the input.  That can
   pass only for an echoreplay file that can be read to its end; the output
   is not looked at. *)
validateRoundTrip ==
    /\ job.pc = "validate"
    /\ \/ /\ job.in.ext = "echoreplay" /\ files[job.in].whole
          /\ Count(job.closed) /\ job' = NoJob /\ UNCHANGED failCount
       \/ Fail /\ UNCHANGED done
    /\ UNCHANGED <<files, todo, jobOnly>>

(* ReadFrame fails at the point where the input ends; the deferred Close
   makes a readable file of what there is. *)
ReadFails ==
    /\ job.pc = "copy" /\ job.src.frames = <<>> /\ ~job.src.whole
    /\ ~Copied(job.in, job.out)
    /\ Closed(TRUE)
    /\ Fail
    /\ UNCHANGED <<todo, done, jobOnly>>

(* A file operation fails: opening or creating a file, or a write. *)
IOFails ==
    /\ job.pc \in {"open", "copy"} /\ faults < MaxFaults
    /\ faults' = faults + 1
    /\ IF job.pc = "open" THEN UNCHANGED files
       ELSE \E whole \in IF Copied(job.in, job.out) THEN {FALSE} ELSE BOOLEAN : Closed(whole)
    /\ Fail
    /\ UNCHANGED <<todo, done, run, cfg, started, history>>

(* The deferred Close fails: what was still to be written is not, the file is
   not finished, and nobody hears of it. *)
CloseFails ==
    /\ AtEnd /\ faults < MaxFaults
    /\ faults' = faults + 1
    /\ \E n \in 0 .. Len(files[job.out].frames) :
          files' = [files EXCEPT ![job.out].whole = FALSE, ![job.out].frames = SubSeq(@, 1, n)]
    /\ Succeed(FALSE)
    /\ UNCHANGED <<todo, failCount, run, cfg, started, history>>

(* The process is killed. *)
Kill ==
    /\ run.on
    /\ run' = NoRun /\ cfg' = DefaultConfig /\ todo' = {} /\ job' = NoJob /\ failCount' = 0
    /\ UNCHANGED <<files, started, faults, history, done>>

Run ==
    \/ \E p \in todo : Reject(p) \/ Skip(p) \/ Convert(p)
    \/ Open \/ OpenFails \/ CopyFrame \/ Finish \/ validateRoundTrip \/ ReadFails
    \/ EndRun

Next == Start \/ StartMany \/ Run \/ IOFails \/ CloseFails \/ Kill

Spec == Init /\ [][Next]_vars

----------------------------------------------------------------------------
(* Every variable has the type of what it stands for; no file holds more
   frames than a recording does. *)
TypeOK ==
    /\ DOMAIN files \subseteq Paths
    /\ \A p \in DOMAIN files :
          /\ files[p].header \in BOOLEAN /\ files[p].whole \in BOOLEAN
          /\ files[p].frames \in Seq(Frames) /\ Len(files[p].frames) <= Length
    /\ run.on \in BOOLEAN /\ run.batch \subseteq Paths /\ cfg \in Options
    /\ todo \subseteq run.batch
    /\ job = NoJob \/ (job.pc \in {"open", "copy", "validate"} /\ job.in \in DOMAIN files /\ job.out \in Paths)
    /\ failCount \in 0 .. Cardinality(run.batch)
    /\ \A d \in done : {d.in, d.out} \subseteq DOMAIN files

(* --overwrite is "Overwrite existing output files": as long as no run has
   had it, every recording is what it was, whatever the names of the outputs,
   and whichever runs were killed or failed. *)
RecordingsSurvive == ~overwrote => \A p \in DOMAIN original : files[p] = original[p]

(* What is counted as successful holds all frames of its input, and is whole
   if that was, unless the deferred Close failed, whose error the code drops:
   the loop tells the end of a file from an error.  Not in place, and not from
   a nevrcap file without a header (see ConversionKeepsFrames). *)
SuccessMeansComplete ==
    \A d \in done : d.closed /\ d.headed /\ d.in # d.out =>
        files[d.out].frames = d.held.frames /\ files[d.out].whole = d.held.whole

(* A run that exits with 0 has left an output for every file it found,
   although it goes on after the failure of one. *)
ExitZeroMeansOutput ==
    Idle /\ todo = {} /\ failCount = 0 =>
        \A p \in run.batch : \E out \in determineOutputFileForInput(p) : Exists(out)

(* What is left to do: a file is opened, read frame by frame, and validated. *)
Work == (Length + 4) * Cardinality(todo)
        + (CASE job.pc = "none" -> 0
             [] job.pc = "open" -> Length + 3
             [] job.pc = "copy" -> Len(job.src.frames) + 2
             [] job.pc = "validate" -> 1)

(* Every run ends, because every step of it leaves less to do: a file that
   fails is not tried again, and outputs that appear in the directory that is
   converted do not become work. *)
EveryStepIsProgress == [][run.on /\ run'.on => Work' < Work]_vars

(* "Convert between .echoreplay (zip) and .nevrcap (zstd compressed) file
   formats": a conversion counted as successful, whose output could be closed,
   keeps the frames. *)
ConversionKeepsFrames ==
    \A d \in done : d.closed /\ d.in # d.out => files[d.out].frames = d.held.frames
=============================================================================
