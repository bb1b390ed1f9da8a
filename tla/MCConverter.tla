----------------------------- MODULE MCConverter -----------------------------
(* A directory with a subdirectory, and recordings that all have one name. *)
EXTENDS Converter
CONSTANTS in, sub, rec

MCDirs == {in, sub}
MCStems == {rec}

Command(format, dir, output, flags) ==
    [format |-> format, dir |-> dir, output |-> output,
     overwrite |-> "overwrite" \in flags, excludeBones |-> "exclude-bones" \in flags,
     validate |-> "validate" \in flags]

InPlace == {[dir |-> in, stem |-> rec, suffix |-> 0, ext |-> "nevrcap"]}

MCCommands ==
    {Command("auto", in, {}, {}), Command("nevrcap", in, {}, {"validate"}), Command("tape", in, {}, {"overwrite"}),
     Command("nevrcap", in, {}, {}), Command("echoreplay", sub, {}, {"exclude-bones"}),
     Command("auto", in, InPlace, {"overwrite", "exclude-bones"})}
==============================================================================
