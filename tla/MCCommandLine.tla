---------------------------- MODULE MCCommandLine ----------------------------
EXTENDS CommandLine

CONSTANTS h1, h2, c1

(* Command lines: one setting at a time from any of its sources; then lists of
   ports, alone and in pairs. *)
Part1(form, lo, hi) == [form |-> form, lo |-> lo, hi |-> hi]
Arg(host, parts) == [host |-> host, colons |-> 1, parts |-> parts]
Plain(command) == [command |-> command, given |-> [k \in Keys |-> {}], config |-> "none",
                   arguments |-> IF command = "stream" THEN <<Arg(h1, <<Part1("range", 1, 1)>>)>>
                                 ELSE <<>>,
                   valid |-> TRUE]
OneArgument ==
    {Arg(h1, parts) : parts \in
        {<<Part1("range", 1, 2)>>, <<Part1("range", 3, 3), Part1("blank", 0, 0), Part1("range", 0, 1)>>,
         <<Part1("range", 2, 1)>>, <<Part1("range", 3, 4)>>, <<Part1("junk", 0, 0), Part1("range", 1, 1)>>,
         <<Part1("blank", 0, 0)>>}}
    \cup {[Arg(h1, <<Part1("range", 1, 1)>>) EXCEPT !.colons = 2]}
MCInvocations ==
    {[Plain(c) EXCEPT !.given[k] = s, !.config = f] :
        c \in {"stream", "replay", "convert"}, k \in Keys, s \in SUBSET Sources,
        f \in {"none", "readable", "broken"}}
    \cup {[Plain(c) EXCEPT !.valid = v] : c \in Commands, v \in BOOLEAN}
    \cup {[Plain("stream") EXCEPT !.arguments = <<a>>] : a \in OneArgument}
    \cup {[Plain("stream") EXCEPT !.arguments = <<a, [b EXCEPT !.host = h]>>] :
            a \in OneArgument, b \in OneArgument, h \in {h1, h2}}

(* Recordings shown: with and without events, whole and broken off. *)
ShowFile(ext, events, end) == [ext |-> ext, opens |-> TRUE, events |-> events, end |-> end]
MCShowFiles ==
    {ShowFile(ext, <<1, 0, 2, 1>>, end) : ext \in {"tape", "echoreplay"}, end \in {"eof", "error"}}
    \cup {ShowFile(ext, <<>>, "eof") : ext \in {"tape", "nevrcap", "echoreplay.uncompressed"}}
    \cup {ShowFile("echoreplay.uncompressed", <<1>>, "eof"), ShowFile("other", <<>>, "eof"),
          [ShowFile("nevrcap.uncompressed", <<>>, "eof") EXCEPT !.opens = FALSE]}

PlayFile(ext, frames, whole) == [ext |-> ext, frames |-> frames, whole |-> whole]
Played == PlayFile("echoreplay", 2, TRUE)
MCPlaylists ==
    {<<Played>>, <<PlayFile("other", 0, TRUE), Played>>, <<PlayFile("echoreplay", 1, FALSE), Played>>,
     <<Played, PlayFile("echoreplay", 0, FALSE)>>}

(* Versions of up to four parts; a ninth and a tenth minor version. *)
MCVersions == {Dev} \cup UNION {[1 .. n -> 0 .. 1] : n \in 1 .. 3} \cup {<<0, 9>>, <<0, 10>>, <<1, 0, 0, 1>>}

(* The mode filters, the gameplay filters and the rates, each in all combinations. *)
MCModes == {"arena", "combat"}
Defaults == [NoConfig EXCEPT !.IdleFPS = 1]
MCPollerConfigs ==
    {[Defaults EXCEPT !.IncludeModes = i, !.ExcludeModes = e, !.AllFrames = a] :
        i \in {{}, {"arena"}, MCModes}, e \in {{}, {"arena"}}, a \in BOOLEAN}
    \cup {[Defaults EXCEPT !.ActiveOnly = o, !.ExcludePaused = p, !.ExcludeBones = p, !.AllFrames = a] :
            o \in BOOLEAN, p \in BOOLEAN, a \in BOOLEAN}
    \cup {[Defaults EXCEPT !.FPS = f, !.IdleFPS = i] : f \in 0 .. 1, i \in 0 .. 1}

(* Recordings of up to three lines with everything that can be wrong with one;
   a value is missing, zero, or a number, some of them nearly the same. *)
ALine(form, control, readable, encoded) ==
    [form |-> form, control |-> control, readable |-> readable, encoded |-> encoded]
SomeLines ==
    {ALine("blank", 0, FALSE, 0), ALine("invalid", 0, FALSE, 0), ALine("document", 3, FALSE, 0),
     ALine("document", 3, TRUE, 3), ALine("document", 3, TRUE, 4), ALine("document", Missing, TRUE, 0)}
MCRecordings ==
    [zip : BOOLEAN, lines : UNION {[1 .. n -> SomeLines] : n \in 0 .. 3}, end : {"eof"}]
    \cup [zip : {TRUE}, lines : {<<ALine("document", 3, TRUE, 3)>>}, end : {"tooLong"}]
=============================================================================
