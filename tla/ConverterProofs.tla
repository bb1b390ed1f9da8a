--------------------------- MODULE ConverterProofs ---------------------------
(***************************************************************************)
(* Proofs about Converter for every directory tree, every set of command   *)
(* lines and every number of runs and faults.                              *)
(***************************************************************************)
EXTENDS Converter, SequenceTheorems, FiniteSetTheorems, TLAPS

Contents == [header : BOOLEAN, frames : Seq(Frames), whole : BOOLEAN]

OpenJobs == [pc : {"open"}, in : Paths, out : Paths]
CopyJobs == [pc : {"copy"}, in : Paths, out : Paths, src : Contents, held : Contents,
             headed : BOOLEAN]
ValidateJobs == [pc : {"validate"}, in : Paths, out : Paths, held : Contents, headed : BOOLEAN,
                 closed : BOOLEAN]

(* Files are never removed, and a file has room for what a job will copy. *)
FilesOK ==
    /\ IsFiniteSet(DOMAIN files) /\ DOMAIN files \subseteq Paths
    /\ files \in [DOMAIN files -> Contents]
    /\ \A p \in DOMAIN files : Len(files[p].frames) <= Length

RunOK ==
    /\ run \in [on : BOOLEAN, batch : SUBSET Paths] /\ cfg \in Options
    /\ todo \subseteq run.batch /\ run.batch \subseteq Inputs
    /\ ~run.on => job = NoJob /\ todo = {} /\ failCount = 0

JobOK ==
    /\ job = NoJob \/ job \in OpenJobs \/ job \in CopyJobs \/ job \in ValidateJobs
    /\ job # NoJob => job.in \in DOMAIN files /\ job.out \in determineOutputFileForInput(job.in)
    /\ job.pc \in {"copy", "validate"} => job.out \in DOMAIN files
    /\ job.pc = "copy" => Len(files[job.out].frames) + Len(job.src.frames) <= Length

(* A file is still to do, in hand, or dealt with, and fails at most once. *)
CountOK ==
    /\ failCount \in Nat
    /\ failCount + Cardinality(todo) + (IF job = NoJob THEN 0 ELSE 1) <= Cardinality(run.batch)

DoneOK ==
    \A d \in done :
        /\ {d.in, d.out} \subseteq DOMAIN files
        /\ job.pc \in {"copy", "validate"} => d.out # job.out

Typed == FilesOK /\ RunOK /\ JobOK /\ CountOK /\ DoneOK

(* Without --overwrite a job's output is a file that was not there. *)
OutputIsNew ==
    /\ DOMAIN original \subseteq DOMAIN files
    /\ cfg.overwrite => overwrote
    /\ ~overwrote /\ job # NoJob => job.out \notin DOMAIN original
    /\ RecordingsSurvive

(* What has been copied and what is left are the input as it was opened. *)
CopyIsFaithful ==
    /\ job.pc = "copy" /\ job.headed /\ job.in # job.out =>
          /\ files[job.out].frames \o job.src.frames = job.held.frames
          /\ job.src.whole = job.held.whole
    /\ job.pc = "validate" /\ job.closed /\ job.headed /\ job.in # job.out =>
          /\ files[job.out].frames = job.held.frames /\ files[job.out].whole = job.held.whole
    /\ SuccessMeansComplete

(* As long as nothing has failed, what is not to do any more has an output. *)
HandledHaveOutput ==
    run.on /\ failCount = 0 =>
        \A p \in run.batch \ todo :
            \/ job # NoJob /\ p = job.in
            \/ \E out \in determineOutputFileForInput(p) : Exists(out)

IInv == Typed /\ OutputIsNew /\ CopyIsFaithful /\ HandledHaveOutput

----------------------------------------------------------------------------
(* The operators *)

LEMMA Bounds == Length \in Nat /\ MaxSuffix \in Nat /\ WorkDir \in Dirs /\ Commands \subseteq Options
  BY ConverterAssumption DEF ConverterAssumption

LEMMA DefaultTyped == DefaultConfig \in Options
<1>1. {} \in {{}} \cup {{p} : p \in Paths} OBVIOUS
<1> QED BY <1>1, Bounds DEF DefaultConfig, Options

LEMMA OutputsArePaths ==
    ASSUME cfg \in Options, NEW p \in Paths, p.suffix < MaxSuffix
    PROVE  determineOutputFileForInput(p) \subseteq Paths
<1>1. /\ cfg.dir \in Dirs /\ cfg.format \in {"auto", "tape", "echoreplay", "nevrcap"}
      /\ cfg.output \in {{}} \cup {{q} : q \in Paths}
  BY DEF Options
<1>2. p.stem \in Stems /\ p.suffix \in 0 .. MaxSuffix /\ p.suffix + 1 \in 0 .. MaxSuffix
  BY Bounds DEF Paths
<1>3. \A f \in Exts, n \in 0 .. MaxSuffix :
         [dir |-> cfg.dir, stem |-> p.stem, suffix |-> n, ext |-> f] \in Paths
  BY <1>1, <1>2 DEF Paths
<1>4. cfg.output \subseteq Paths BY <1>1
<1>5. (IF cfg.format = "auto" THEN "tape" ELSE cfg.format) \in Exts BY <1>1 DEF Exts
<1>6. "tape" \in Exts BY DEF Exts
<1> QED BY ONLY <1>2, <1>3, <1>4, <1>5, <1>6 DEF determineOutputFileForInput

LEMMA OutputsAreKept ==
    ASSUME cfg' = cfg, NEW p
    PROVE  determineOutputFileForInput(p)' = determineOutputFileForInput(p)
  BY DEF determineOutputFileForInput

(* One file gets new contents, or a file is created. *)
Becomes(p, c) ==
    /\ DOMAIN files' = DOMAIN files \cup {p}
    /\ files'[p] = c
    /\ \A q \in DOMAIN files \ {p} : files'[q] = files[q]

LEMMA PutShape ==
    ASSUME FilesOK, NEW p \in Paths, NEW c, files' = Put(p, c)
    PROVE  Becomes(p, c) /\ files' \in [DOMAIN files' -> {files[q] : q \in DOMAIN files} \cup {c}]
<1>1. files' = [q \in DOMAIN files \cup {p} |-> IF q = p THEN c ELSE files[q]]
  BY DEF Put
<1> QED BY <1>1 DEF Becomes

LEMMA BecomesTyped ==
    ASSUME FilesOK, NEW p \in Paths, NEW c \in Contents, Len(c.frames) <= Length, Becomes(p, c),
           files' = [q \in DOMAIN files' |-> files'[q]]
    PROVE  FilesOK'
<1>1. IsFiniteSet(DOMAIN files') /\ DOMAIN files' \subseteq Paths
  BY FS_AddElement DEF FilesOK, Becomes
<1>2. \A q \in DOMAIN files' : files'[q] \in Contents /\ Len(files'[q].frames) <= Length
  BY DEF FilesOK, Becomes
<1>3. files' \in [DOMAIN files' -> Contents] BY <1>2
<1> QED BY <1>1, <1>2, <1>3 DEF FilesOK

LEMMA ContentsFields ==
    ASSUME NEW c \in Contents
    PROVE  c.frames \in Seq(Frames) /\ c.whole \in BOOLEAN /\ c.header \in BOOLEAN
  BY Zenon DEF Contents

LEMMA EmptyTyped == Empty \in Contents /\ Len(Empty.frames) <= Length /\ Empty.frames = <<>>
<1>1. Empty \in Contents BY EmptySeq, Zenon DEF Empty, Contents
<1>2. Empty.frames = <<>> BY Zenon DEF Empty
<1> QED BY <1>1, <1>2, EmptySeq, Bounds

(* Whatever a reader delivers is typed and no longer than a recording. *)
LEMMA OpenedTyped ==
    ASSUME FilesOK, NEW p \in DOMAIN files, NEW out \in Paths, NEW c \in Opened(p, out)
    PROVE  c \in Contents /\ Len(c.frames) <= Length
<1>1. files[p] \in Contents /\ Len(files[p].frames) <= Length BY DEF FilesOK
<1>2. CASE c = files[p] BY <1>1, <1>2
<1>3. CASE files[p].frames # <<>> /\ c = [files[p] EXCEPT !.frames = Tail(@)]
  <2>1. /\ Tail(files[p].frames) \in Seq(Frames)
        /\ Len(Tail(files[p].frames)) = Len(files[p].frames) - 1
    BY <1>1, <1>3, HeadTailProperties, ContentsFields
  <2>2. Len(files[p].frames) \in Nat BY <1>1, LenProperties, ContentsFields
  <2>3. c.frames = Tail(files[p].frames) BY <1>1, <1>3, Zenon DEF Contents
  <2>4. c \in Contents BY <1>1, <1>3, <2>1 DEF Contents
  <2> QED BY <1>1, <2>1, <2>2, <2>3, <2>4, Bounds
<1> QED BY <1>2, <1>3, Zenon DEF Opened

LEMMA TruncatedTyped ==
    ASSUME NEW p \in Paths, NEW out \in Paths, NEW c \in Contents, Len(c.frames) <= Length,
           NEW src \in Truncated(p, out, c)
    PROVE  src \in Contents /\ Len(src.frames) <= Length /\ (p # out => src = c)
<1>1. CASE src = c BY <1>1
<1>2. ASSUME NEW n \in 0 .. Len(c.frames), p = out,
             src = [c EXCEPT !.frames = SubSeq(@, 1, n), !.whole = FALSE]
      PROVE  src \in Contents /\ Len(src.frames) <= Length
  <2>1. c.frames \in Seq(Frames) /\ Len(c.frames) \in Nat BY ContentsFields, LenProperties
  <2>2. SubSeq(c.frames, 1, n) \in Seq(Frames) /\ Len(SubSeq(c.frames, 1, n)) = n
    <3>1. \A i \in 1 .. n : i \in 1 .. Len(c.frames) /\ c.frames[i] \in Frames
      BY <2>1, ElementOfSeq
    <3>2. CASE n = 0 BY <2>1, <3>1, <3>2, SubSeqProperties
    <3>3. CASE n # 0 BY <2>1, <3>1, <3>3, SubSeqProperties
    <3> QED BY <3>2, <3>3
  <2>3. src.frames = SubSeq(c.frames, 1, n) BY <1>2, Zenon DEF Contents
  <2>4. src \in Contents BY <1>2, <2>2 DEF Contents
  <2> QED BY <2>1, <2>2, <2>3, <2>4, Bounds
<1>3. \/ src = c
      \/ /\ p = out
         /\ \E n \in IF Copied(p, out) THEN {0} ELSE 0 .. Len(c.frames) :
               src = [c EXCEPT !.frames = SubSeq(@, 1, n), !.whole = FALSE]
  BY Zenon DEF Truncated
<1>4. 0 \in 0 .. Len(c.frames) BY ContentsFields, LenProperties
<1> QED BY <1>1, <1>2, <1>3, <1>4, Zenon

----------------------------------------------------------------------------
(* The steps, by what they do to the files *)

LEMMA Finite ==
    ASSUME Typed
    PROVE  /\ IsFiniteSet(todo) /\ IsFiniteSet(run.batch)
           /\ Cardinality(todo) \in Nat /\ Cardinality(run.batch) \in Nat
           /\ todo \subseteq Inputs /\ Inputs \subseteq DOMAIN files
           /\ \A p \in Inputs : p \in Paths /\ p.suffix < MaxSuffix
<1>1. Inputs \subseteq DOMAIN files /\ IsFiniteSet(DOMAIN files) /\ DOMAIN files \subseteq Paths
  BY DEF Typed, FilesOK, Inputs
<1>2. todo \subseteq Inputs /\ run.batch \subseteq Inputs BY DEF Typed, RunOK
<1>3. IsFiniteSet(todo) /\ IsFiniteSet(run.batch) BY <1>1, <1>2, FS_Subset
<1>4. \A p \in Inputs : p.suffix < MaxSuffix BY DEF Inputs
<1> QED BY <1>1, <1>2, <1>3, <1>4, FS_CardinalityType

LEMMA NoJobFacts ==
    /\ NoJob.pc = "none"
    /\ \A j \in OpenJobs : j.pc = "open" /\ j.in \in Paths /\ j.out \in Paths
    /\ \A j \in CopyJobs : /\ j.pc = "copy" /\ j.in \in Paths /\ j.out \in Paths
                           /\ j.src \in Contents /\ j.held \in Contents
    /\ \A j \in ValidateJobs : /\ j.pc = "validate" /\ j.in \in Paths /\ j.out \in Paths
                               /\ j.held \in Contents
  BY DEF NoJob, OpenJobs, CopyJobs, ValidateJobs

(* A step that changes no file and finishes nothing. *)
Quiet == UNCHANGED <<files, done, original>>

LEMMA QuietKeeps ==
    ASSUME IInv, Quiet
    PROVE  /\ FilesOK' /\ Inputs' = Inputs /\ DOMAIN files' = DOMAIN files
           /\ SuccessMeansComplete'
           /\ \A d \in done' : {d.in, d.out} \subseteq DOMAIN files'
           /\ DOMAIN original' \subseteq DOMAIN files'
           /\ \A out : Exists(out)' = Exists(out)
<1>1. files' = files /\ done' = done /\ original' = original BY DEF Quiet
<1>2. FilesOK' BY <1>1 DEF IInv, Typed, FilesOK
<1>3. SuccessMeansComplete' BY <1>1 DEF IInv, CopyIsFaithful, SuccessMeansComplete
<1>4. Inputs' = Inputs BY <1>1 DEF Inputs
<1>5. /\ \A d \in done' : {d.in, d.out} \subseteq DOMAIN files'
      /\ DOMAIN original' \subseteq DOMAIN files'
  BY <1>1 DEF IInv, Typed, DoneOK, OutputIsNew
<1>6. \A out : Exists(out)' = Exists(out) BY <1>1 DEF Exists
<1> QED BY <1>1, <1>2, <1>3, <1>4, <1>5, <1>6

(* No run, or one without a job: what is left to show of such a step. *)
LEMMA WithoutJob ==
    ASSUME IInv, Quiet, job' = NoJob, UNCHANGED <<overwrote>> \/ overwrote' = (overwrote \/ cfg'.overwrite),
           RunOK', CountOK', cfg'.overwrite => overwrote', HandledHaveOutput'
    PROVE  IInv'
<1>1. JobOK' /\ DoneOK' BY QuietKeeps, NoJobFacts DEF JobOK, DoneOK
<1>2. OutputIsNew'
  <2>1. ~overwrote' => ~overwrote OBVIOUS
  <2>2. RecordingsSurvive' BY <2>1 DEF Quiet, IInv, OutputIsNew, RecordingsSurvive
  <2> QED BY <2>2, QuietKeeps DEF OutputIsNew
<1>3. CopyIsFaithful' BY QuietKeeps, NoJobFacts DEF CopyIsFaithful
<1> QED BY <1>1, <1>2, <1>3, QuietKeeps DEF IInv, Typed

LEMMA BeginIInv == ASSUME IInv, Start \/ StartMany PROVE IInv'
<1>1. PICK found : Begin(found) /\ found \subseteq Inputs /\ cfg' \in Options
  BY Bounds DEF Start, StartMany, discoverFiles, Picked, Below
<1>2. /\ ~run.on /\ todo' = found /\ run' = [on |-> TRUE, batch |-> found] /\ failCount' = 0
      /\ job' = job /\ Quiet /\ overwrote' = (overwrote \/ cfg'.overwrite)
  BY <1>1, Zenon DEF Begin, Quiet
<1>3. job' = NoJob BY <1>2 DEF IInv, Typed, RunOK
<1>4. run'.on /\ run'.batch = found BY <1>2
<1>5. found \subseteq Paths BY <1>1, Finite DEF IInv
<1>6. RunOK'
  <2>1. run' \in [on : BOOLEAN, batch : SUBSET Paths] BY <1>2, <1>5
  <2> QED BY <1>1, <1>2, <1>4, <2>1, QuietKeeps DEF RunOK
<1>7. CountOK'
  <2>1. IsFiniteSet(found) BY <1>1, Finite, FS_Subset DEF IInv, Typed, FilesOK
  <2>2. Cardinality(found) \in Nat BY <2>1, FS_CardinalityType
  <2> QED BY <1>2, <1>3, <1>4, <2>2 DEF CountOK
<1>8. HandledHaveOutput' BY <1>2, <1>4 DEF HandledHaveOutput
<1> QED BY <1>2, <1>3, <1>6, <1>7, <1>8, WithoutJob

(* The end of a run, by itself or not. *)
LEMMA EndIInv == ASSUME IInv, EndRun \/ Kill PROVE IInv'
<1>1. /\ run' = NoRun /\ cfg' = DefaultConfig /\ failCount' = 0 /\ todo' = {} /\ Quiet
      /\ overwrote' = overwrote
  BY DEF EndRun, Kill, Quiet, history
<1>2. job' = NoJob BY DEF EndRun, Kill, Idle
<1>3. run'.on = FALSE /\ run'.batch = {} /\ run' \in [on : BOOLEAN, batch : SUBSET Paths]
  BY <1>1, Zenon DEF NoRun
<1>4. ~cfg'.overwrite BY <1>1, Zenon DEF DefaultConfig
<1>5. RunOK' BY <1>1, <1>2, <1>3, DefaultTyped DEF RunOK
<1>6. CountOK' BY <1>1, <1>2, <1>3, FS_EmptySet DEF CountOK
<1>7. HandledHaveOutput' BY <1>3 DEF HandledHaveOutput
<1> QED BY <1>1, <1>2, <1>4, <1>5, <1>6, <1>7, WithoutJob

LEMMA TakenOff ==
    ASSUME Typed, NEW p \in todo, todo' = todo \ {p}
    PROVE  Cardinality(todo') = Cardinality(todo) - 1 /\ Cardinality(todo') \in Nat
  BY Finite, FS_RemoveElement, FS_CardinalityType, FS_Subset

LEMMA RejectSkipIInv ==
    ASSUME IInv, NEW p \in todo, Reject(p) \/ Skip(p)
    PROVE  IInv'
<1>1. /\ run.on /\ job = NoJob /\ job' = NoJob /\ Quiet /\ todo' = todo \ {p}
      /\ failCount' \in {failCount, failCount + 1}
      /\ run' = run /\ cfg' = cfg /\ overwrote' = overwrote
  BY DEF Reject, Skip, Idle, Quiet, jobOnly, history
<1>2. RunOK' BY <1>1, QuietKeeps DEF IInv, Typed, RunOK
<1>3. CountOK'
  <2>1. failCount \in Nat /\ failCount + Cardinality(todo) + 0 <= Cardinality(run.batch)
    BY <1>1 DEF IInv, Typed, CountOK
  <2>2. /\ Cardinality(todo') = Cardinality(todo) - 1 /\ Cardinality(todo') \in Nat
        /\ Cardinality(todo) \in Nat /\ Cardinality(run.batch) \in Nat
    BY <1>1, TakenOff, Finite DEF IInv
  <2> QED BY <1>1, <2>1, <2>2 DEF CountOK
<1>4. HandledHaveOutput'
  <2>1. CASE Reject(p)
    <3>1. failCount' # 0 BY <2>1 DEF Reject, IInv, Typed, CountOK
    <3> QED BY <3>1 DEF HandledHaveOutput
  <2>2. CASE Skip(p)
    <3>1. failCount' = failCount BY <2>2 DEF Skip
    <3>2. \E out \in determineOutputFileForInput(p) : Exists(out) BY <2>2 DEF Skip, Kept
    <3> SUFFICES ASSUME failCount = 0, NEW q \in run.batch \ todo'
                 PROVE  \E out \in determineOutputFileForInput(q)' : Exists(out)'
      BY <1>1, <3>1 DEF HandledHaveOutput
    <3>3. q = p \/ q \notin todo BY <1>1
    <3>4. \E out \in determineOutputFileForInput(q) : Exists(out)
      BY <1>1, <3>2, <3>3 DEF IInv, HandledHaveOutput
    <3> QED BY <1>1, <3>4, OutputsAreKept, QuietKeeps
  <2> QED BY <2>1, <2>2
<1>5. cfg'.overwrite => overwrote' BY <1>1 DEF IInv, OutputIsNew
<1> QED BY <1>1, <1>2, <1>3, <1>4, <1>5, WithoutJob

LEMMA ConvertIInv == ASSUME IInv, NEW p \in todo, Convert(p) PROVE IInv'
<1>1. PICK out \in determineOutputFileForInput(p) :
          ~Kept(out) /\ job' = [pc |-> "open", in |-> p, out |-> out]
  BY DEF Convert
<1>2. /\ run.on /\ job = NoJob /\ Quiet /\ todo' = todo \ {p} /\ failCount' = failCount
      /\ run' = run /\ cfg' = cfg /\ overwrote' = overwrote
  BY DEF Convert, Idle, Quiet, jobOnly, history
<1>3. p \in Paths /\ p \in DOMAIN files /\ out \in Paths
  BY <1>1, Finite, OutputsArePaths DEF IInv, Typed, RunOK, FilesOK
<1>4. /\ job' \in OpenJobs /\ job'.pc = "open" /\ job'.in = p /\ job'.out = out /\ job' # NoJob
  BY <1>1, <1>3 DEF OpenJobs, NoJob
<1>5. JobOK'
  BY <1>1, <1>2, <1>3, <1>4, OutputsAreKept, QuietKeeps DEF JobOK
<1>6. RunOK' BY <1>2, QuietKeeps DEF IInv, Typed, RunOK
<1>7. CountOK'
  <2>1. failCount \in Nat /\ failCount + Cardinality(todo) + 0 <= Cardinality(run.batch)
    BY <1>2 DEF IInv, Typed, CountOK
  <2>2. /\ Cardinality(todo') = Cardinality(todo) - 1 /\ Cardinality(todo') \in Nat
        /\ Cardinality(todo) \in Nat /\ Cardinality(run.batch) \in Nat
    BY <1>2, TakenOff, Finite DEF IInv
  <2> QED BY <1>2, <1>4, <2>1, <2>2 DEF CountOK
<1>8. DoneOK' BY <1>2, <1>4, QuietKeeps DEF DoneOK
<1>9. OutputIsNew'
  <2>1. cfg.overwrite => overwrote BY DEF IInv, OutputIsNew
  <2>2. ~overwrote => out \notin DOMAIN files BY <1>1, <2>1 DEF Kept, Exists
  <2>3. ~overwrote' => job'.out \notin DOMAIN original'
    BY <1>2, <1>4, <2>2 DEF IInv, OutputIsNew, Quiet
  <2>4. RecordingsSurvive' BY <1>2 DEF Quiet, IInv, OutputIsNew, RecordingsSurvive
  <2> QED BY <1>2, <2>1, <2>3, <2>4, QuietKeeps DEF OutputIsNew
<1>10. CopyIsFaithful' BY <1>2, <1>4, QuietKeeps DEF CopyIsFaithful
<1>11. HandledHaveOutput'
  <2> SUFFICES ASSUME failCount = 0, NEW q \in run.batch \ todo', q # p
               PROVE  \E o \in determineOutputFileForInput(q)' : Exists(o)'
    BY <1>2, <1>4 DEF HandledHaveOutput
  <2>1. \E o \in determineOutputFileForInput(q) : Exists(o)
    BY <1>2 DEF IInv, HandledHaveOutput
  <2> QED BY <1>2, <2>1, OutputsAreKept, QuietKeeps
<1> QED BY <1>2, <1>5, <1>6, <1>7, <1>8, <1>9, <1>10, <1>11, QuietKeeps DEF IInv, Typed

(* A conversion that fails leaves no job, and one more failure. *)
LEMMA FailCounts ==
    ASSUME Typed, job # NoJob, job' = NoJob, failCount' \in {failCount, failCount + 1},
           UNCHANGED <<run, cfg, todo>>
    PROVE  CountOK' /\ run.on /\ (Inputs' = Inputs \/ Inputs \subseteq Inputs' => RunOK')
<1>1. run.on BY DEF Typed, RunOK
<1>2. CountOK'
  <2>1. failCount \in Nat /\ failCount + Cardinality(todo) + 1 <= Cardinality(run.batch)
    BY DEF Typed, CountOK
  <2>2. Cardinality(todo) \in Nat /\ Cardinality(run.batch) \in Nat BY Finite
  <2> QED BY <2>1, <2>2 DEF CountOK
<1>3. Inputs' = Inputs \/ Inputs \subseteq Inputs' => RunOK' BY <1>1 DEF Typed, RunOK
<1> QED BY <1>1, <1>2, <1>3

LEMMA HandedOn ==
    ASSUME IInv, run.on, cfg' = cfg, run' = run, todo' = todo, failCount' = failCount,
           DOMAIN files \subseteq DOMAIN files',
           job # NoJob => \/ job' # NoJob /\ job'.in = job.in
                          \/ job.out \in DOMAIN files'
    PROVE  HandledHaveOutput'
<1> SUFFICES ASSUME failCount = 0, NEW q \in run.batch \ todo, ~(job' # NoJob /\ q = job'.in)
             PROVE  \E o \in determineOutputFileForInput(q)' : Exists(o)'
  BY DEF HandledHaveOutput
<1>1. CASE job # NoJob /\ q = job.in
  <2>1. job.out \in determineOutputFileForInput(q) BY <1>1 DEF IInv, Typed, JobOK
  <2>2. PICK out \in determineOutputFileForInput(q) : out \in DOMAIN files' BY <1>1, <2>1
  <2> QED BY <2>2, OutputsAreKept DEF Exists
<1>2. CASE \E out \in determineOutputFileForInput(q) : Exists(out)
  BY <1>2, OutputsAreKept DEF Exists
<1> QED BY <1>1, <1>2 DEF IInv, HandledHaveOutput

(* Failing before the output is created *)
LEMMA OpenFailsIInv ==
    ASSUME IInv, OpenFails \/ (IOFails /\ job.pc = "open")
    PROVE  IInv'
<1>1. job # NoJob /\ job' = NoJob /\ failCount' = failCount + 1
  BY NoJobFacts DEF OpenFails, IOFails, Fail
<1>2. Quiet /\ UNCHANGED <<run, cfg, todo, overwrote>>
  BY DEF OpenFails, IOFails, jobOnly, history, Quiet
<1>3. CountOK' /\ RunOK' /\ run.on
  <2>1. failCount' \in {failCount, failCount + 1} BY <1>1
  <2> QED BY <1>1, <1>2, <2>1, FailCounts, QuietKeeps DEF IInv
<1>4. HandledHaveOutput' BY <1>1 DEF HandledHaveOutput, IInv, Typed, CountOK
<1>5. cfg'.overwrite => overwrote' BY <1>2 DEF IInv, OutputIsNew
<1> QED BY <1>1, <1>2, <1>3, <1>4, <1>5, WithoutJob

(* Creating the output *)
LEMMA OpenIInv == ASSUME IInv, Open PROVE IInv'
<1>1. job.pc = "open" BY DEF Open
<1>2. job \in OpenJobs /\ job # NoJob /\ job.in \in Paths /\ job.out \in Paths /\ run.on
      /\ job.in \in DOMAIN files /\ job.out \in determineOutputFileForInput(job.in)
  BY <1>1, NoJobFacts DEF IInv, Typed, JobOK, RunOK
<1>a. PICK c \in Opened(job.in, job.out) : \E src \in Truncated(job.in, job.out, c) :
          job' = [pc |-> "copy", in |-> job.in, out |-> job.out, src |-> src,
                  held |-> files[job.in], headed |-> c = files[job.in]]
  BY Zenon DEF Open
<1>b. PICK src \in Truncated(job.in, job.out, c) :
          job' = [pc |-> "copy", in |-> job.in, out |-> job.out, src |-> src,
                  held |-> files[job.in], headed |-> c = files[job.in]]
  BY <1>a, Zenon
<1>3. PICK headed \in BOOLEAN :
          /\ job' = [pc |-> "copy", in |-> job.in, out |-> job.out, src |-> src,
                     held |-> files[job.in], headed |-> headed]
          /\ headed => c = files[job.in]
  <2>1. (c = files[job.in]) \in BOOLEAN OBVIOUS
  <2> QED BY <1>b, <2>1, Zenon
<1>4. files' = Put(job.out, Empty) /\ done' = {d \in done : d.out # job.out}
      /\ UNCHANGED <<todo, failCount, run, cfg, original, overwrote>>
  BY DEF Open, Create, jobOnly, history
<1>5. Becomes(job.out, Empty) /\ FilesOK'
  <2>1. Becomes(job.out, Empty) BY <1>2, <1>4, PutShape DEF IInv, Typed
  <2>2. files' = [q \in DOMAIN files' |-> files'[q]] BY <1>4 DEF Put
  <2> QED BY <1>2, <2>1, <2>2, BecomesTyped, EmptyTyped DEF IInv, Typed
<1>6. /\ c \in Contents /\ src \in Contents /\ Len(src.frames) <= Length
      /\ (job.in # job.out => src = c) /\ files[job.in] \in Contents
  BY <1>2, OpenedTyped, TruncatedTyped DEF IInv, Typed, FilesOK
<1>7. /\ job' \in CopyJobs /\ job'.pc = "copy" /\ job'.in = job.in /\ job'.out = job.out
      /\ job'.src = src /\ job'.held = files[job.in] /\ job' # NoJob
      /\ job'.headed => headed
  <2>1. job' \in CopyJobs BY <1>2, <1>3, <1>6, Zenon DEF CopyJobs
  <2>2. job'.pc = "copy" /\ job'.in = job.in /\ job'.out = job.out
        /\ job'.src = src /\ job'.held = files[job.in] /\ job'.headed = headed
    BY <1>3, Zenon
  <2>3. job' # NoJob BY <2>2, NoJobFacts
  <2> QED BY <2>1, <2>2, <2>3, Zenon
<1>8. DOMAIN files \subseteq DOMAIN files' /\ job.out \in DOMAIN files' /\ Inputs \subseteq Inputs'
      /\ files'[job.out] = Empty
  BY <1>5 DEF Becomes, Inputs
<1>9. RunOK' BY <1>2, <1>4, <1>8 DEF IInv, Typed, RunOK
<1>10. JobOK'
  <2>1. Len(files'[job.out].frames) + Len(src.frames) <= Length
    <3>1. Len(files'[job.out].frames) = 0 BY <1>8, EmptyTyped, EmptySeq
    <3>2. Len(src.frames) \in Nat BY <1>6, ContentsFields, LenProperties
    <3> QED BY <1>6, <3>1, <3>2
  <2> PICK i \in Paths, o \in Paths : i = job.in /\ o = job.out BY <1>2
  <2>2. job'.in = i /\ job'.out = o /\ i \in DOMAIN files' /\ o \in DOMAIN files'
    BY <1>2, <1>7, <1>8
  <2>3. o \in determineOutputFileForInput(i)' BY <1>2, <1>4, OutputsAreKept
  <2>4. Len(files'[o].frames) + Len(job'.src.frames) <= Length BY <1>7, <2>1
  <2> QED BY ONLY <1>7, <2>2, <2>3, <2>4 DEF JobOK
<1>11. CountOK' BY <1>2, <1>4, <1>7 DEF IInv, Typed, CountOK
<1>12. DoneOK' BY <1>4, <1>7, <1>8 DEF IInv, Typed, DoneOK
<1>13. OutputIsNew'
  <2>1. DOMAIN original' \subseteq DOMAIN files' BY <1>4, <1>8 DEF IInv, OutputIsNew
  <2>2. ~overwrote => job.out \notin DOMAIN original BY <1>2 DEF IInv, OutputIsNew
  <2>3. RecordingsSurvive'
    <3> SUFFICES ASSUME ~overwrote, NEW q \in DOMAIN original PROVE files'[q] = original[q]
      BY <1>4 DEF RecordingsSurvive
    <3>1. q # job.out /\ q \in DOMAIN files BY <2>2 DEF IInv, OutputIsNew
    <3> QED BY <1>5, <3>1 DEF IInv, OutputIsNew, RecordingsSurvive, Becomes
  <2>4. cfg'.overwrite => overwrote' BY <1>4 DEF IInv, OutputIsNew
  <2>5. ~overwrote' => job'.out \notin DOMAIN original' BY <1>4, <1>7, <2>2
  <2> QED BY <2>1, <2>3, <2>4, <2>5 DEF OutputIsNew
<1>14. CopyIsFaithful'
  <2>1. ASSUME job'.headed, job.in # job.out
        PROVE  /\ files'[job.out].frames \o src.frames = files[job.in].frames
               /\ src.whole = files[job.in].whole
    <3>1. src = files[job.in] BY <1>3, <1>6, <1>7, <2>1
    <3>2. files'[job.out].frames = <<>> BY <1>8, EmptyTyped
    <3>3. <<>> \o src.frames = src.frames BY <1>6, ContentsFields, ConcatEmptySeq
    <3> QED BY <3>1, <3>2, <3>3
  <2>2. SuccessMeansComplete'
    <3> SUFFICES ASSUME NEW d \in done, d.out # job.out, d.closed, d.headed, d.in # d.out
                 PROVE  files'[d.out].frames = d.held.frames /\ files'[d.out].whole = d.held.whole
      BY <1>4 DEF SuccessMeansComplete
    <3>1. d.out \in DOMAIN files BY DEF IInv, Typed, DoneOK
    <3>2. files'[d.out] = files[d.out] BY <1>5, <3>1 DEF Becomes
    <3> QED BY <3>2 DEF IInv, CopyIsFaithful, SuccessMeansComplete
  <2> QED BY <1>7, <2>1, <2>2 DEF CopyIsFaithful
<1>15. HandledHaveOutput' BY <1>2, <1>4, <1>7, <1>8, HandedOn
<1> QED BY <1>5, <1>9, <1>10, <1>11, <1>12, <1>13, <1>14, <1>15 DEF IInv, Typed

(* One frame moves from what is to be copied to what has been. *)
LEMMA FrameMoves ==
    ASSUME NEW S, NEW r \in Seq(S), NEW o \in Seq(S), o # <<>>
    PROVE  /\ Head(o) \in S /\ Tail(o) \in Seq(S) /\ Append(r, Head(o)) \in Seq(S)
           /\ Len(Append(r, Head(o))) + Len(Tail(o)) = Len(r) + Len(o)
           /\ Append(r, Head(o)) \o Tail(o) = r \o o
<1>1. /\ Head(o) \in S /\ Tail(o) \in Seq(S)
      /\ Len(Tail(o)) = Len(o) - 1 /\ Len(o) \in Nat /\ Len(o) # 0 /\ Len(r) \in Nat
      /\ Head(o) = o[1] /\ \A i \in 1 .. Len(Tail(o)) : Tail(o)[i] = o[i + 1]
  BY HeadTailProperties, LenProperties, EmptySeq
<1>2. /\ Append(r, Head(o)) \in Seq(S) /\ Len(Append(r, Head(o))) = Len(r) + 1
      /\ \A i \in 1 .. Len(r) : Append(r, Head(o))[i] = r[i]
      /\ Append(r, Head(o))[Len(r) + 1] = Head(o)
  BY <1>1, AppendProperties
<1> DEFINE n == Len(r) + Len(o)
<1>3. /\ r \o o \in Seq(S) /\ Len(r \o o) = n
      /\ \A i \in 1 .. n : (r \o o)[i] = IF i <= Len(r) THEN r[i] ELSE o[i - Len(r)]
  BY ConcatProperties
<1>4. /\ Append(r, Head(o)) \o Tail(o) \in Seq(S) /\ Len(Append(r, Head(o)) \o Tail(o)) = n
      /\ \A i \in 1 .. n : (Append(r, Head(o)) \o Tail(o))[i] =
             IF i <= Len(r) + 1 THEN Append(r, Head(o))[i] ELSE Tail(o)[i - (Len(r) + 1)]
  BY <1>1, <1>2, ConcatProperties
<1>5. ASSUME NEW i \in 1 .. n PROVE (Append(r, Head(o)) \o Tail(o))[i] = (r \o o)[i]
  <2>1. CASE i <= Len(r) BY <1>1, <1>2, <1>3, <1>4, <2>1
  <2>2. CASE i = Len(r) + 1 BY <1>1, <1>2, <1>3, <1>4, <2>2
  <2>3. CASE i > Len(r) + 1
    <3>1. i - (Len(r) + 1) \in 1 .. Len(Tail(o)) /\ (i - (Len(r) + 1)) + 1 = i - Len(r)
      BY <1>1, <2>3
    <3>2. Tail(o)[i - (Len(r) + 1)] = o[i - Len(r)] BY <1>1, <3>1
    <3> QED BY <1>1, <1>3, <1>4, <2>3, <3>2
  <2> QED BY <1>1, <2>1, <2>2, <2>3
<1>6. Append(r, Head(o)) \o Tail(o) = r \o o
  BY <1>3, <1>4, <1>5, SeqEqual
<1> QED BY <1>1, <1>2, <1>6

(* A step that changes one existing file, the output of the job in hand. *)
LEMMA WritesOutput ==
    ASSUME IInv, NEW o \in DOMAIN files, o = job.out, job.pc \in {"copy", "validate"},
           NEW c \in Contents, Len(c.frames) <= Length, files' = [files EXCEPT ![o] = c],
           UNCHANGED <<run, cfg, todo, original, overwrote>>
    PROVE  /\ FilesOK' /\ DOMAIN files' = DOMAIN files /\ files'[o] = c /\ Inputs' = Inputs
           /\ RecordingsSurvive' /\ DOMAIN original' \subseteq DOMAIN files'
           /\ (cfg'.overwrite => overwrote')
           /\ (job' # NoJob => job'.out = o) =>
                  (~overwrote' /\ job' # NoJob => job'.out \notin DOMAIN original')
           /\ \A d \in done : files'[d.out] = files[d.out]
<1>1. Becomes(o, c) /\ files' = [q \in DOMAIN files' |-> files'[q]] BY DEF Becomes
<1>2. FilesOK' BY <1>1, BecomesTyped DEF IInv, Typed, FilesOK
<1>3. DOMAIN files' = DOMAIN files /\ files'[o] = c OBVIOUS
<1>4. Inputs' = Inputs BY <1>3 DEF Inputs
<1>5. job # NoJob BY NoJobFacts
<1>6. RecordingsSurvive'
  <2> SUFFICES ASSUME ~overwrote, NEW q \in DOMAIN original PROVE files'[q] = original[q]
    BY DEF RecordingsSurvive
  <2>1. q # o BY <1>5 DEF IInv, OutputIsNew
  <2> QED BY <2>1 DEF IInv, OutputIsNew, RecordingsSurvive
<1>7. DOMAIN original' \subseteq DOMAIN files' /\ (cfg'.overwrite => overwrote')
  BY <1>3 DEF IInv, OutputIsNew
<1>8. (job' # NoJob => job'.out = o) =>
          (~overwrote' /\ job' # NoJob => job'.out \notin DOMAIN original')
  BY <1>5 DEF IInv, OutputIsNew
<1>9. \A d \in done : files'[d.out] = files[d.out]
  BY DEF IInv, Typed, DoneOK
<1> QED BY <1>2, <1>3, <1>4, <1>6, <1>7, <1>8, <1>9

LEMMA CopyFrameIInv == ASSUME IInv, CopyFrame PROVE IInv'
<1>1. job.pc = "copy" /\ job.src.frames # <<>>
      /\ files' = [files EXCEPT ![job.out].frames = Append(@, Head(job.src.frames))]
      /\ job' = [job EXCEPT !.src.frames = Tail(@)]
      /\ UNCHANGED <<todo, failCount, done, run, cfg, original, overwrote>>
  BY DEF CopyFrame, jobOnly, history
<1>2. /\ job \in CopyJobs /\ job # NoJob /\ run.on /\ job.in \in DOMAIN files
      /\ job.out \in DOMAIN files /\ job.out \in determineOutputFileForInput(job.in)
      /\ Len(files[job.out].frames) + Len(job.src.frames) <= Length
  BY <1>1, NoJobFacts DEF IInv, Typed, JobOK, RunOK
<1>3. PICK i \in DOMAIN files, o \in DOMAIN files, s \in Contents : i = job.in /\ o = job.out /\ s = job.src
  BY <1>2, NoJobFacts
<1>4. /\ files[o] \in Contents /\ files[o].frames \in Seq(Frames) /\ s.frames \in Seq(Frames)
      /\ s.frames # <<>>
  BY <1>1, <1>3, ContentsFields DEF IInv, Typed, FilesOK
<1> DEFINE f == Append(files[o].frames, Head(s.frames))
           c == [files[o] EXCEPT !.frames = f]
           t == [s EXCEPT !.frames = Tail(s.frames)]
<1>5. /\ f \in Seq(Frames) /\ Tail(s.frames) \in Seq(Frames)
      /\ Len(f) + Len(Tail(s.frames)) = Len(files[o].frames) + Len(s.frames)
      /\ f \o Tail(s.frames) = files[o].frames \o s.frames
  BY <1>4, FrameMoves, ZenonT(30)
<1>6. c \in Contents /\ c.frames = f /\ t \in Contents /\ t.frames = Tail(s.frames)
      /\ t.whole = s.whole
  BY <1>4, <1>5, Zenon DEF Contents
<1>7. Len(f) \in Nat /\ Len(Tail(s.frames)) \in Nat /\ Len(f) <= Length
  <2>1. Len(f) \in Nat /\ Len(Tail(s.frames)) \in Nat BY <1>5, LenProperties
  <2>2. Len(files[o].frames) + Len(s.frames) <= Length BY <1>2, <1>3
  <2> HIDE DEF f
  <2>3. Len(f) + Len(Tail(s.frames)) <= Length BY ONLY <1>5, <2>2
  <2> QED BY ONLY <2>1, <2>3, Bounds
<1>8. files' = [files EXCEPT ![o] = c] BY <1>1, <1>3, Zenon
<1>9. job' = [job EXCEPT !.src = t] BY <1>1, <1>3, Zenon
<1>10. /\ job' \in CopyJobs /\ job'.pc = "copy" /\ job'.in = i /\ job'.out = o /\ job'.src = t
       /\ job'.held = job.held /\ job'.headed = job.headed /\ job' # NoJob
  <2>1. job' \in CopyJobs /\ job'.pc = "copy" /\ job'.in = i /\ job'.out = o /\ job'.src = t
        /\ job'.held = job.held /\ job'.headed = job.headed
    BY <1>2, <1>3, <1>6, <1>9, Zenon DEF CopyJobs
  <2>2. job' # NoJob BY <2>1, NoJobFacts
  <2> QED BY <2>1, <2>2
<1> HIDE DEF f, c, t
<1>11. /\ FilesOK' /\ DOMAIN files' = DOMAIN files /\ files'[o] = c /\ Inputs' = Inputs
       /\ RecordingsSurvive' /\ DOMAIN original' \subseteq DOMAIN files'
       /\ (cfg'.overwrite => overwrote')
       /\ (~overwrote' /\ job' # NoJob => job'.out \notin DOMAIN original')
       /\ \A d \in done : files'[d.out] = files[d.out]
  BY <1>1, <1>3, <1>6, <1>7, <1>8, <1>10, WritesOutput, ZenonT(60)
<1>12. RunOK' BY <1>1, <1>2, <1>11 DEF IInv, Typed, RunOK
<1>13. JobOK'
  <2>1. o \in determineOutputFileForInput(i)' BY <1>1, <1>2, <1>3, OutputsAreKept
  <2>2. Len(files'[o].frames) + Len(job'.src.frames) <= Length
    BY <1>2, <1>3, <1>5, <1>6, <1>10, <1>11
  <2> QED BY <1>10, <1>11, <2>1, <2>2 DEF JobOK
<1>14. CountOK' BY <1>1, <1>2, <1>10 DEF IInv, Typed, CountOK
<1>15. DoneOK' BY <1>1, <1>3, <1>10, <1>11 DEF IInv, Typed, DoneOK
<1>16. OutputIsNew' BY <1>11 DEF OutputIsNew
<1>17. CopyIsFaithful'
  <2>1. SuccessMeansComplete' BY <1>1, <1>11 DEF IInv, CopyIsFaithful, SuccessMeansComplete
  <2>2. ASSUME job'.headed, i # o
        PROVE  files'[o].frames \o t.frames = job'.held.frames /\ t.whole = job'.held.whole
    <3>1. files[o].frames \o s.frames = job'.held.frames /\ s.whole = job'.held.whole
      BY <1>1, <1>3, <1>10, <2>2 DEF IInv, CopyIsFaithful
    <3> QED BY <1>5, <1>6, <1>11, <3>1
  <2> QED BY <1>10, <2>1, <2>2 DEF CopyIsFaithful
<1>18. HandledHaveOutput' BY <1>1, <1>2, <1>3, <1>10, <1>11, HandedOn
<1> QED BY <1>11, <1>12, <1>13, <1>14, <1>15, <1>16, <1>17, <1>18 DEF IInv, Typed

(* Closing the output keeps its frames. *)
LEMMA ClosedShape ==
    ASSUME IInv, job \in CopyJobs, NEW whole \in BOOLEAN, Closed(whole)
    PROVE  \E c \in Contents : /\ files' = [files EXCEPT ![job.out] = c]
                               /\ c.frames = files[job.out].frames /\ c.whole = whole
<1>1. job.out \in DOMAIN files /\ files[job.out] \in Contents /\ job.src \in Contents
  BY NoJobFacts DEF IInv, Typed, FilesOK, JobOK
<1>2. PICK h \in BOOLEAN :
          files' = [files EXCEPT ![job.out].whole = whole, ![job.out].header = h]
  <2>1. job.src.header \in BOOLEAN /\ (job.out.ext = "tape") \in BOOLEAN
    BY <1>1, ContentsFields
  <2>2. (IF Copied(job.in, job.out) THEN job.src.header ELSE job.out.ext = "tape") \in BOOLEAN
    BY <2>1, Zenon
  <2> QED BY <2>2, Zenon DEF Closed
<1> DEFINE c == [files[job.out] EXCEPT !.whole = whole, !.header = h]
<1>3. c \in Contents /\ c.frames = files[job.out].frames /\ c.whole = whole
  BY <1>1, Zenon DEF Contents
<1>4. files' = [files EXCEPT ![job.out] = c] BY <1>1, <1>2 DEF IInv, Typed, FilesOK
<1> QED BY <1>3, <1>4

(* A conversion that ends after its output was created, with a failure. *)
LEMMA FailsIInv ==
    ASSUME IInv, ReadFails \/ (IOFails /\ job.pc # "open")
    PROVE  IInv'
<1>1. /\ job.pc = "copy" /\ job' = NoJob /\ failCount' = failCount + 1
      /\ UNCHANGED <<todo, done, run, cfg, original, overwrote>>
      /\ \E whole \in BOOLEAN : Closed(whole)
  BY DEF ReadFails, IOFails, Fail, jobOnly, history
<1>2. job \in CopyJobs /\ job # NoJob /\ run.on /\ job.out \in DOMAIN files
  BY <1>1, NoJobFacts DEF IInv, Typed, JobOK, RunOK
<1>3. PICK c \in Contents : files' = [files EXCEPT ![job.out] = c] /\ c.frames = files[job.out].frames
  BY <1>1, <1>2, ClosedShape
<1>4. PICK o \in DOMAIN files : o = job.out BY <1>2
<1>5. Len(c.frames) <= Length BY <1>3, <1>4 DEF IInv, Typed, FilesOK
<1>6. /\ FilesOK' /\ DOMAIN files' = DOMAIN files /\ Inputs' = Inputs
      /\ RecordingsSurvive' /\ DOMAIN original' \subseteq DOMAIN files'
      /\ (cfg'.overwrite => overwrote')
      /\ \A d \in done : files'[d.out] = files[d.out]
  BY <1>1, <1>3, <1>4, <1>5, WritesOutput
<1>7. CountOK' /\ RunOK'
  <2>1. failCount' \in {failCount, failCount + 1} BY <1>1
  <2> QED BY <1>1, <1>2, <1>6, <2>1, FailCounts DEF IInv
<1>8. JobOK' /\ DoneOK' BY <1>1, <1>6, NoJobFacts DEF IInv, Typed, JobOK, DoneOK
<1>9. OutputIsNew' BY <1>1, <1>6 DEF OutputIsNew
<1>10. CopyIsFaithful'
  <2>1. SuccessMeansComplete' BY <1>1, <1>6 DEF IInv, CopyIsFaithful, SuccessMeansComplete
  <2> QED BY <1>1, <2>1, NoJobFacts DEF CopyIsFaithful
<1>11. HandledHaveOutput' BY <1>1 DEF HandledHaveOutput, IInv, Typed, CountOK
<1> QED BY <1>6, <1>7, <1>8, <1>9, <1>10, <1>11 DEF IInv, Typed

(* What Count adds. *)
Result(closed) == [in |-> job.in, out |-> job.out, held |-> job.held, headed |-> job.headed,
                   closed |-> closed]

(* A conversion that counts as successful.  If its output could be closed, all
   there was to copy is in it. *)
LEMMA SucceedIInv ==
    ASSUME IInv, AtEnd, NEW closed \in BOOLEAN, Succeed(closed),
           NEW c \in Contents, files' = [files EXCEPT ![job.out] = c], Len(c.frames) <= Length,
           closed => c.frames = files[job.out].frames /\ c.whole = job.src.whole,
           UNCHANGED <<todo, failCount, run, cfg, original, overwrote>>
    PROVE  IInv'
<1>1. job.pc = "copy" /\ job.src.frames = <<>> BY DEF AtEnd
<1>2. /\ job \in CopyJobs /\ job # NoJob /\ run.on /\ job.in \in DOMAIN files
      /\ job.out \in DOMAIN files /\ job.out \in determineOutputFileForInput(job.in)
      /\ job.src \in Contents /\ job.held \in Contents
  BY <1>1, NoJobFacts DEF IInv, Typed, JobOK, RunOK
<1>4. PICK i \in DOMAIN files, o \in DOMAIN files : i = job.in /\ o = job.out BY <1>2
<1>6. \/ /\ job' = [pc |-> "validate", in |-> i, out |-> o, held |-> job.held,
                     headed |-> job.headed, closed |-> closed]
         /\ done' = done
      \/ job' = NoJob /\ done' = done \cup {Result(closed)}
  BY <1>4, Zenon DEF Succeed, Count, Result
<1>7. ASSUME job' # NoJob
      PROVE  /\ job' \in ValidateJobs /\ job'.pc = "validate" /\ job'.in = i /\ job'.out = o
             /\ job'.held = job.held /\ job'.headed = job.headed /\ job'.closed = closed
             /\ done' = done
  <2>1. job' = [pc |-> "validate", in |-> i, out |-> o, held |-> job.held,
                headed |-> job.headed, closed |-> closed]
    BY <1>6, <1>7
  <2>2. job.held \in Contents /\ job.headed \in BOOLEAN /\ i \in Paths /\ o \in Paths
    BY <1>2, <1>4, Zenon DEF CopyJobs
  <2>3. job' \in ValidateJobs BY <2>1, <2>2, Zenon DEF ValidateJobs
  <2> QED BY <1>6, <1>7, <2>1, <2>3, Zenon
<1>8. /\ FilesOK' /\ DOMAIN files' = DOMAIN files /\ files'[o] = c /\ Inputs' = Inputs
      /\ RecordingsSurvive' /\ DOMAIN original' \subseteq DOMAIN files'
      /\ (cfg'.overwrite => overwrote')
      /\ (~overwrote' /\ job' # NoJob => job'.out \notin DOMAIN original')
      /\ \A d \in done : files'[d.out] = files[d.out]
  BY <1>1, <1>4, <1>7, WritesOutput
<1>9. RunOK' BY <1>1, <1>2, <1>8 DEF IInv, Typed, RunOK
<1>10. JobOK'
  <2>1. CASE job' = NoJob BY <2>1, NoJobFacts DEF JobOK
  <2>2. CASE job' # NoJob
    <3>1. o \in determineOutputFileForInput(i)' BY <1>1, <1>2, <1>4, OutputsAreKept
    <3> QED BY <1>7, <1>8, <2>2, <3>1 DEF JobOK
  <2> QED BY <2>1, <2>2
<1>11. CountOK'
  <2>1. failCount \in Nat /\ failCount + Cardinality(todo) + 1 <= Cardinality(run.batch)
    BY <1>2 DEF IInv, Typed, CountOK
  <2>2. Cardinality(todo) \in Nat /\ Cardinality(run.batch) \in Nat BY Finite DEF IInv
  <2> QED BY <1>1, <2>1, <2>2 DEF CountOK
<1>12. /\ Result(closed).in = i /\ Result(closed).out = o /\ Result(closed).held = job.held
       /\ Result(closed).headed = job.headed /\ Result(closed).closed = closed
  BY <1>4, Zenon DEF Result
<1>13. DoneOK'
  <2>1. \A d \in done : {d.in, d.out} \subseteq DOMAIN files' /\ d.out # o
    BY <1>1, <1>4, <1>8 DEF IInv, Typed, DoneOK
  <2>2. CASE job' = NoJob BY <1>6, <1>8, <1>12, <2>1, <2>2, NoJobFacts DEF DoneOK
  <2>3. CASE job' # NoJob BY <1>7, <2>1, <2>3 DEF DoneOK
  <2> QED BY <2>2, <2>3
<1>14. OutputIsNew' BY <1>8 DEF OutputIsNew
<1>15. CopyIsFaithful'
  <2>1. ASSUME closed, job.headed, i # o
        PROVE  files'[o].frames = job.held.frames /\ files'[o].whole = job.held.whole
    <3>1. files[o].frames \o <<>> = job.held.frames /\ job.src.whole = job.held.whole
      BY <1>1, <1>4, <2>1 DEF IInv, CopyIsFaithful
    <3>2. files[o].frames \in Seq(Frames) BY ContentsFields DEF IInv, Typed, FilesOK
    <3>3. files[o].frames \o <<>> = files[o].frames BY <3>2, ConcatEmptySeq
    <3> QED BY <1>4, <1>8, <2>1, <3>1, <3>3
  <2>2. SuccessMeansComplete'
    <3> SUFFICES ASSUME NEW d \in done', d.closed, d.headed, d.in # d.out
                 PROVE  files'[d.out].frames = d.held.frames /\ files'[d.out].whole = d.held.whole
      BY DEF SuccessMeansComplete
    <3>1. CASE d \in done
      BY <1>8, <3>1 DEF IInv, CopyIsFaithful, SuccessMeansComplete
    <3>2. CASE d = Result(closed) BY <1>12, <2>1, <3>2
    <3> QED BY <1>6, <3>1, <3>2
  <2>3. CASE job' = NoJob BY <2>2, <2>3, NoJobFacts DEF CopyIsFaithful
  <2>4. CASE job' # NoJob BY <1>7, <2>1, <2>2, <2>4 DEF CopyIsFaithful
  <2> QED BY <2>3, <2>4
<1>16. HandledHaveOutput'
  <2>1. job # NoJob => \/ job' # NoJob /\ job'.in = job.in
                       \/ job.out \in DOMAIN files'
    BY <1>2, <1>8
  <2> QED BY <1>1, <1>2, <1>8, <2>1, HandedOn
<1> QED BY <1>8, <1>9, <1>10, <1>11, <1>13, <1>14, <1>15, <1>16 DEF IInv, Typed

LEMMA FinishIInv == ASSUME IInv, Finish PROVE IInv'
<1>1. /\ AtEnd /\ Closed(job.src.whole) /\ Succeed(TRUE)
      /\ UNCHANGED <<todo, failCount, run, cfg, original, overwrote>>
  BY DEF Finish, jobOnly, history
<1>2. job \in CopyJobs /\ job.src \in Contents /\ job.out \in DOMAIN files
  BY <1>1, NoJobFacts DEF AtEnd, IInv, Typed, JobOK
<1>3. PICK c \in Contents : /\ files' = [files EXCEPT ![job.out] = c]
                            /\ c.frames = files[job.out].frames /\ c.whole = job.src.whole
  <2>1. job.src.whole \in BOOLEAN BY <1>2, ContentsFields
  <2> QED BY <1>1, <1>2, <2>1, ClosedShape
<1>4. Len(c.frames) <= Length BY <1>2, <1>3 DEF IInv, Typed, FilesOK
<1> QED BY <1>1, <1>3, <1>4, SucceedIInv

(* The prefix of a file that is left when its Close fails. *)
LEMMA CloseFailsIInv == ASSUME IInv, CloseFails PROVE IInv'
<1>1. /\ AtEnd /\ Succeed(FALSE)
      /\ UNCHANGED <<todo, failCount, run, cfg, original, overwrote>>
  BY DEF CloseFails, history
<1>2. job.out \in DOMAIN files /\ job.out \in Paths
  BY <1>1, NoJobFacts DEF AtEnd, IInv, Typed, FilesOK, JobOK
<1>3. PICK o \in Paths : o = job.out /\ o \in DOMAIN files BY <1>2
<1>4. files[o] \in Contents /\ Len(files[o].frames) <= Length
  BY <1>3 DEF IInv, Typed, FilesOK
<1>5. PICK n \in 0 .. Len(files[o].frames) :
          files' = [files EXCEPT ![o].whole = FALSE, ![o].frames = SubSeq(@, 1, n)]
  BY <1>3 DEF CloseFails
<1> DEFINE c == [files[o] EXCEPT !.whole = FALSE, !.frames = SubSeq(@, 1, n)]
<1>6. files' = [files EXCEPT ![o] = c] BY <1>3, <1>4, <1>5 DEF IInv, Typed, FilesOK
<1>7. files[o].frames \in Seq(Frames) /\ Len(files[o].frames) \in Nat
  BY <1>4, ContentsFields, LenProperties
<1>8. SubSeq(files[o].frames, 1, n) \in Seq(Frames) /\ Len(SubSeq(files[o].frames, 1, n)) = n
  <2>1. \A i \in 1 .. n : i \in 1 .. Len(files[o].frames) /\ files[o].frames[i] \in Frames
    BY <1>7, ElementOfSeq
  <2>2. CASE n = 0 BY <1>7, <2>1, <2>2, SubSeqProperties
  <2>3. CASE n # 0 BY <1>7, <2>1, <2>3, SubSeqProperties
  <2> QED BY <2>2, <2>3
<1>9. c.frames = SubSeq(files[o].frames, 1, n) BY <1>4, Zenon DEF Contents
<1>10. c \in Contents BY <1>4, <1>8 DEF Contents
<1>11. Len(c.frames) <= Length BY <1>4, <1>7, <1>8, <1>9, Bounds
<1> HIDE DEF c
<1> QED BY <1>1, <1>3, <1>6, <1>10, <1>11, SucceedIInv

LEMMA ValidateIInv == ASSUME IInv, validateRoundTrip PROVE IInv'
<1>1. /\ job.pc = "validate" /\ job' = NoJob /\ files' = files
      /\ UNCHANGED <<todo, run, cfg, original, overwrote>>
      /\ \/ failCount' = failCount /\ done' = done \cup {Result(job.closed)}
         \/ failCount' = failCount + 1 /\ done' = done
  BY DEF validateRoundTrip, Fail, Count, Result, jobOnly, history
<1>2. job \in ValidateJobs /\ job # NoJob /\ job.in \in DOMAIN files /\ job.out \in DOMAIN files
      /\ run.on
  BY <1>1, NoJobFacts DEF IInv, Typed, JobOK, RunOK
<1>3. PICK closed \in BOOLEAN :
          /\ closed = job.closed
          /\ Result(closed).in = job.in /\ Result(closed).out = job.out
          /\ Result(closed).held = job.held /\ Result(closed).headed = job.headed
          /\ Result(closed).closed = closed
  BY <1>2, Zenon DEF Result, ValidateJobs
<1>4. FilesOK' /\ Inputs' = Inputs BY <1>1 DEF IInv, Typed, FilesOK, Inputs
<1>5. CountOK' /\ RunOK'
  <2>1. failCount' \in {failCount, failCount + 1} BY <1>1
  <2> QED BY <1>1, <1>2, <1>4, <2>1, FailCounts DEF IInv
<1>6. JobOK' /\ DoneOK'
  BY <1>1, <1>2, <1>3, NoJobFacts DEF IInv, Typed, JobOK, DoneOK
<1>7. OutputIsNew' BY <1>1 DEF IInv, OutputIsNew, RecordingsSurvive
<1>8. CopyIsFaithful'
  <2>1. SuccessMeansComplete'
    <3> SUFFICES ASSUME NEW d \in done', d.closed, d.headed, d.in # d.out
                 PROVE  files[d.out].frames = d.held.frames /\ files[d.out].whole = d.held.whole
      BY <1>1 DEF SuccessMeansComplete
    <3>1. CASE d \in done BY <3>1 DEF IInv, CopyIsFaithful, SuccessMeansComplete
    <3>2. CASE d = Result(job.closed) BY <1>1, <1>3, <3>2 DEF IInv, CopyIsFaithful
    <3> QED BY <1>1, <3>1, <3>2
  <2> QED BY <1>1, <2>1, NoJobFacts DEF CopyIsFaithful
<1>9. HandledHaveOutput'
  <2>1. CASE failCount' = failCount BY <1>1, <1>2, <2>1, HandedOn
  <2>2. CASE failCount' = failCount + 1
    BY <2>2 DEF HandledHaveOutput, IInv, Typed, CountOK
  <2> QED BY <1>1, <2>1, <2>2
<1> QED BY <1>4, <1>5, <1>6, <1>7, <1>8, <1>9 DEF IInv, Typed

----------------------------------------------------------------------------
(* Every step, and the invariants *)

LEMMA InitIInv == Init => IInv
<1> SUFFICES ASSUME Init PROVE IInv OBVIOUS
<1>1. PICK R \in SUBSET Paths : \E damaged \in SUBSET R :
          /\ IsFiniteSet(R) /\ \A p \in R : p.suffix = 0
          /\ files = [p \in R |-> Recorded(p, p \notin damaged)]
  BY DEF Init
<1>2. \A p \in R, w \in BOOLEAN : Recorded(p, w) \in Contents /\ Len(Recorded(p, w).frames) = Length
  <2> TAKE p \in R, w \in BOOLEAN
  <2> DEFINE f == [i \in 1 .. Length |-> <<p, i>>]
  <2>1. f \in Seq(Frames) /\ Len(f) = Length
    <3>1. \A i \in 1 .. Length : <<p, i>> \in Frames BY <1>1 DEF Frames
    <3> QED BY <3>1, Bounds, IsASeq, LenProperties
  <2> HIDE DEF f
  <2>2. (p.ext # "echoreplay") \in BOOLEAN OBVIOUS
  <2>3. Recorded(p, w) = [header |-> p.ext # "echoreplay", frames |-> f, whole |-> w]
    BY Zenon DEF Recorded, f
  <2>4. PICK h \in BOOLEAN : Recorded(p, w) = [header |-> h, frames |-> f, whole |-> w]
    BY <2>2, <2>3, Zenon
  <2>5. Recorded(p, w) \in Contents BY <2>1, <2>4 DEF Contents
  <2>6. Recorded(p, w).frames = f BY <2>4
  <2> QED BY <2>1, <2>5, <2>6
<1>3. /\ DOMAIN files = R
      /\ \A p \in R : files[p] \in Contents /\ Len(files[p].frames) = Length
  <2>1. PICK damaged \in SUBSET R : files = [p \in R |-> Recorded(p, p \notin damaged)] BY <1>1
  <2>2. \A p \in R : files[p] = Recorded(p, p \notin damaged) BY <2>1
  <2>3. \A p \in R : (p \notin damaged) \in BOOLEAN OBVIOUS
  <2>4. \A p \in R : files[p] \in Contents /\ Len(files[p].frames) = Length
    BY <1>2, <2>2, <2>3, Zenon
  <2> QED BY <2>1, <2>4
<1>4. FilesOK BY <1>1, <1>3, Bounds DEF FilesOK
<1>5. /\ run.on = FALSE /\ run.batch = {} /\ run \in [on : BOOLEAN, batch : SUBSET Paths]
      /\ cfg = DefaultConfig /\ todo = {} /\ job = NoJob /\ failCount = 0 /\ done = {}
      /\ original = files
  BY Zenon DEF Init, NoRun
<1>6. ~cfg.overwrite BY <1>5, Zenon DEF DefaultConfig
<1>7. RunOK BY <1>5, DefaultTyped DEF RunOK
<1>8. JobOK /\ DoneOK BY <1>5, NoJobFacts DEF JobOK, DoneOK
<1>9. CountOK BY <1>5, FS_EmptySet DEF CountOK
<1>10. OutputIsNew BY <1>5, <1>6 DEF OutputIsNew, RecordingsSurvive
<1>11. CopyIsFaithful BY <1>5, NoJobFacts DEF CopyIsFaithful, SuccessMeansComplete
<1>12. HandledHaveOutput BY <1>5 DEF HandledHaveOutput
<1> QED BY <1>4, <1>7, <1>8, <1>9, <1>10, <1>11, <1>12 DEF IInv, Typed

LEMMA StepIInv == IInv /\ [Next]_vars => IInv'
<1> SUFFICES ASSUME IInv, [Next]_vars PROVE IInv' OBVIOUS
<1>1. CASE Start \/ StartMany BY <1>1, BeginIInv
<1>2. CASE EndRun \/ Kill BY <1>2, EndIInv
<1>3. ASSUME NEW p \in todo, Reject(p) \/ Skip(p) \/ Convert(p) PROVE IInv'
  BY <1>3, RejectSkipIInv, ConvertIInv
<1>4. CASE Open \/ OpenFails BY <1>4, OpenIInv, OpenFailsIInv
<1>5. CASE CopyFrame \/ Finish \/ validateRoundTrip \/ ReadFails
  BY <1>5, CopyFrameIInv, FinishIInv, ValidateIInv, FailsIInv
<1>6. CASE IOFails \/ CloseFails BY <1>6, OpenFailsIInv, FailsIInv, CloseFailsIInv
<1>7. CASE UNCHANGED vars
  <2>1. UNCHANGED <<files, run, cfg, todo, job, failCount, original, overwrote, done>>
    BY <1>7 DEF vars, history
  <2>2. Quiet BY <2>1 DEF Quiet
  <2>3. RunOK' /\ CountOK' /\ DoneOK'
    BY <2>1, <2>2, QuietKeeps DEF IInv, Typed, RunOK, CountOK, DoneOK
  <2>4. JobOK' BY <2>1, OutputsAreKept DEF IInv, Typed, JobOK
  <2>5. OutputIsNew' BY <2>1 DEF IInv, OutputIsNew, RecordingsSurvive
  <2>6. CopyIsFaithful' BY <2>1, <2>2, QuietKeeps DEF IInv, CopyIsFaithful
  <2>7. HandledHaveOutput' BY <2>1, <2>2, QuietKeeps, OutputsAreKept DEF IInv, HandledHaveOutput
  <2> QED BY <2>2, <2>3, <2>4, <2>5, <2>6, <2>7, QuietKeeps DEF IInv, Typed
<1> QED BY <1>1, <1>2, <1>3, <1>4, <1>5, <1>6, <1>7 DEF Next, Run

LEMMA Invariance == Spec => []IInv
  BY InitIInv, StepIInv, PTL DEF Spec

(* Every path, file and option stays within its type, every file within the
   length of a recording, and every run counts at most one failure for each
   file it has found. *)
THEOREM TypeCorrect == Spec => []TypeOK
<1>1. IInv => TypeOK
  <2> SUFFICES ASSUME IInv PROVE TypeOK OBVIOUS
  <2>1. /\ DOMAIN files \subseteq Paths
        /\ \A p \in DOMAIN files : files[p] \in Contents /\ Len(files[p].frames) <= Length
    BY DEF IInv, Typed, FilesOK
  <2>2. \A p \in DOMAIN files :
          /\ files[p].header \in BOOLEAN /\ files[p].whole \in BOOLEAN
          /\ files[p].frames \in Seq(Frames) /\ Len(files[p].frames) <= Length
    BY <2>1, ContentsFields
  <2>3. run.on \in BOOLEAN /\ run.batch \subseteq Paths /\ cfg \in Options /\ todo \subseteq run.batch
    <3>1. run \in [on : BOOLEAN, batch : SUBSET Paths] BY DEF IInv, Typed, RunOK
    <3>2. run.on \in BOOLEAN /\ run.batch \in SUBSET Paths BY <3>1, Zenon
    <3> QED BY <3>2 DEF IInv, Typed, RunOK
  <2>4. job = NoJob \/ (job.pc \in {"open", "copy", "validate"} /\ job.in \in DOMAIN files
                        /\ job.out \in Paths)
    BY NoJobFacts DEF IInv, Typed, JobOK
  <2>5. failCount \in 0 .. Cardinality(run.batch)
    <3>1. Cardinality(todo) \in Nat /\ Cardinality(run.batch) \in Nat BY Finite DEF IInv
    <3> QED BY <3>1 DEF IInv, Typed, CountOK
  <2>6. \A d \in done : {d.in, d.out} \subseteq DOMAIN files BY DEF IInv, Typed, DoneOK
  <2> QED BY <2>1, <2>2, <2>3, <2>4, <2>5, <2>6, Zenon DEF TypeOK
<1> QED BY <1>1, Invariance, PTL

(* Without --overwrite no run of the converter, finished, failed or killed,
   changes a recording, whatever names its options make. *)
THEOREM RecordingsAreSafe == Spec => []RecordingsSurvive
  BY Invariance, PTL DEF IInv, OutputIsNew

(* The frame loop counts a conversion as successful only at the end of the
   input, with everything copied, unless the deferred Close failed. *)
THEOREM SuccessIsComplete == Spec => []SuccessMeansComplete
  BY Invariance, PTL DEF IInv, CopyIsFaithful

(* A batch that ends with failCount 0 has an output for every file found. *)
THEOREM ExitZeroHasOutput == Spec => []ExitZeroMeansOutput
<1>1. IInv => ExitZeroMeansOutput
  BY DEF IInv, HandledHaveOutput, ExitZeroMeansOutput, Idle
<1> QED BY <1>1, Invariance, PTL

----------------------------------------------------------------------------
(* Progress *)

JobWork == CASE job.pc = "none" -> 0
             [] job.pc = "open" -> Length + 3
             [] job.pc = "copy" -> Len(job.src.frames) + 2
             [] job.pc = "validate" -> 1

JobWorkOK ==
    /\ job = NoJob => JobWork = 0
    /\ job.pc = "open" => JobWork = Length + 3
    /\ job.pc = "copy" => JobWork = Len(job.src.frames) + 2 /\ Len(job.src.frames) \in 0 .. Length
    /\ job.pc = "validate" => JobWork = 1
    /\ JobWork \in Nat /\ (job # NoJob => JobWork > 0)
    /\ Cardinality(todo) \in Nat

LEMMA JobWorkIs == IInv => JobWorkOK
<1> SUFFICES ASSUME Typed PROVE JobWorkOK BY DEF IInv
<1>1. /\ job.pc = "none" => JobWork = 0
      /\ job.pc = "open" => JobWork = Length + 3
      /\ job.pc = "copy" => JobWork = Len(job.src.frames) + 2
      /\ job.pc = "validate" => JobWork = 1
  BY DEF JobWork
<1>2. ASSUME job.pc = "copy" PROVE Len(job.src.frames) \in 0 .. Length
  <2>1. job \in CopyJobs /\ job.out \in DOMAIN files BY <1>2, NoJobFacts DEF Typed, JobOK
  <2>2. job.src.frames \in Seq(Frames) /\ files[job.out].frames \in Seq(Frames)
    BY <2>1, NoJobFacts, ContentsFields DEF Typed, FilesOK
  <2>3. Len(job.src.frames) \in Nat /\ Len(files[job.out].frames) \in Nat BY <2>2, LenProperties
  <2>4. Len(files[job.out].frames) + Len(job.src.frames) <= Length BY <1>2 DEF Typed, JobOK
  <2>5. \A m \in Nat, n \in Nat : m + n <= Length => n \in 0 .. Length BY Bounds
  <2> QED BY ONLY <2>3, <2>4, <2>5
<1>3. job = NoJob \/ job.pc \in {"open", "copy", "validate"}
  BY NoJobFacts DEF Typed, JobOK
<1>4. Cardinality(todo) \in Nat BY Finite
<1> HIDE DEF JobWork
<1> QED BY <1>1, <1>2, <1>3, <1>4, NoJobFacts, Bounds DEF JobWorkOK

LEMMA WorkIs ==
    /\ Work = (Length + 4) * Cardinality(todo) + JobWork
    /\ Work' = (Length + 4) * Cardinality(todo') + JobWork'
  BY DEF Work, JobWork

LEMMA LessToDo ==
    ASSUME NEW L \in Nat, NEW n \in Nat, NEW m \in Nat, NEW a \in Nat, NEW b \in Nat,
           \/ m = n /\ b < a
           \/ m = n - 1 /\ b < a + L
    PROVE  L * m + b < L * n + a
<1>1. CASE m = n BY <1>1
<1>2. CASE m = n - 1 /\ b < a + L
  <2>1. L * (n - 1) = L * n - L OBVIOUS
  <2>2. L * n \in Nat OBVIOUS
  <2> DEFINE k == L * n
  <2>3. L * m = k - L BY <1>2, <2>1
  <2> HIDE DEF k
  <2> QED BY <1>2, <2>2, <2>3 DEF k
<1> QED BY <1>1, <1>2

LEMMA StepIsProgress ==
    ASSUME IInv, IInv', [Next]_vars, run.on, run'.on
    PROVE  Work' < Work \/ UNCHANGED vars
<1> USE Bounds
<1>1. /\ Cardinality(todo) \in Nat /\ Cardinality(todo') \in Nat
      /\ JobWork \in Nat /\ JobWork' \in Nat
      /\ job = NoJob => JobWork = 0
      /\ job' = NoJob => JobWork' = 0
      /\ job # NoJob => JobWork > 0
      /\ job.pc = "open" => JobWork = Length + 3
      /\ job.pc = "copy" => JobWork = Len(job.src.frames) + 2
      /\ job'.pc = "open" => JobWork' = Length + 3
      /\ job'.pc = "copy" => JobWork' = Len(job'.src.frames) + 2 /\ Len(job'.src.frames) \in 0 .. Length
      /\ job'.pc = "validate" => JobWork' = 1
  <2>1. JobWorkOK BY JobWorkIs
  <2>2. JobWorkOK' BY JobWorkIs, PTL
  <2> QED BY <2>1, <2>2 DEF JobWorkOK, NoJob
<1>2. ASSUME \/ todo' = todo /\ JobWork' < JobWork
             \/ \E p \in todo : todo' = todo \ {p} /\ JobWork' < JobWork + (Length + 4)
      PROVE  Work' < Work
  <2>1. \/ Cardinality(todo') = Cardinality(todo) /\ JobWork' < JobWork
        \/ Cardinality(todo') = Cardinality(todo) - 1 /\ JobWork' < JobWork + (Length + 4)
    BY <1>2, TakenOff DEF IInv
  <2>2. Length + 4 \in Nat OBVIOUS
  <2> QED BY <1>1, <2>1, <2>2, LessToDo, WorkIs
<1>3. ~(Start \/ StartMany \/ EndRun \/ Kill)
  <2>1. ~NoRun.on BY Zenon DEF NoRun
  <2> QED BY <2>1 DEF Start, StartMany, Begin, EndRun, Kill
<1>4. ASSUME NEW p \in todo, Reject(p) \/ Skip(p) PROVE Work' < Work
  BY <1>1, <1>2, <1>4 DEF Reject, Skip, Idle
<1>5. ASSUME NEW p \in todo, Convert(p) PROVE Work' < Work
  <2>1. job = NoJob /\ job'.pc = "open" /\ todo' = todo \ {p} BY <1>5 DEF Convert, Idle
  <2> QED BY <1>1, <1>2, <2>1
<1>6. CASE Open
  <2>1. job.pc = "open" /\ job'.pc = "copy" /\ todo' = todo BY <1>6 DEF Open
  <2> QED BY <1>1, <1>2, <2>1
<1>7. CASE OpenFails \/ ReadFails \/ IOFails \/ validateRoundTrip
  <2>1. job # NoJob /\ job' = NoJob /\ todo' = todo
    BY <1>7, NoJobFacts DEF OpenFails, ReadFails, IOFails, validateRoundTrip, Fail
  <2> QED BY <1>1, <1>2, <2>1
<1>8. CASE Finish \/ CloseFails
  <2>0. AtEnd /\ todo' = todo /\ \E closed \in BOOLEAN : Succeed(closed)
    BY <1>8 DEF Finish, CloseFails
  <2>1. /\ job.pc = "copy" /\ job.src.frames = <<>> /\ todo' = todo
        /\ job'.pc = "validate" \/ job' = NoJob
    BY <2>0 DEF AtEnd, Succeed
  <2>2. Len(job.src.frames) = 0 BY <2>1, EmptySeq
  <2> QED BY <1>1, <1>2, <2>1, <2>2
<1>9. CASE CopyFrame
  <2>1. /\ job.pc = "copy" /\ job.src.frames # <<>> /\ todo' = todo
        /\ job' = [job EXCEPT !.src.frames = Tail(@)]
    BY <1>9 DEF CopyFrame
  <2>2. job \in CopyJobs /\ job.src \in Contents BY <2>1, NoJobFacts DEF IInv, Typed, JobOK
  <2>3. job'.pc = "copy" /\ job'.src.frames = Tail(job.src.frames)
    BY <2>1, <2>2, Zenon DEF CopyJobs, Contents
  <2>4. Len(Tail(job.src.frames)) = Len(job.src.frames) - 1 /\ Len(job.src.frames) \in Nat
    BY <2>1, <2>2, ContentsFields, HeadTailProperties, LenProperties
  <2>5. JobWork = Len(job.src.frames) + 2 /\ JobWork' = Len(job.src.frames) - 1 + 2
    BY <1>1, <2>1, <2>3, <2>4
  <2>6. JobWork' < JobWork BY ONLY <2>4, <2>5
  <2> QED BY <1>2, <2>1, <2>6
<1> QED BY <1>3, <1>4, <1>5, <1>6, <1>7, <1>8, <1>9 DEF Next, Run

(* No run goes round for ever: each of its steps leaves less to do. *)
THEOREM RunsEnd == Spec => EveryStepIsProgress
<1>1. IInv /\ IInv' /\ [Next]_vars => [run.on /\ run'.on => Work' < Work]_vars
  BY StepIsProgress
<1> QED BY <1>1, Invariance, PTL DEF Spec, EveryStepIsProgress
=============================================================================
