---------------------------- MODULE LegacyFormat ----------------------------
(***************************************************************************)
(* The nevrcap format: messages, each after its length as a varint.  It is *)
(* written by internal/agent/legacy_writer.go and read, without a library, *)
(* by uncompressedNevrCapReader of cmd/agent/dumpevents.go, which takes    *)
(* files with and without compression.  A recorder that is killed leaves a *)
(* beginning of its file.                                                  *)
(***************************************************************************)
EXTENDS Naturals, Sequences

CONSTANTS Base,        \* 128 in the code: a byte of a prefix holds a digit and a flag
          MaxPrefix,   \* 10 in the code: the bytes of a prefix, as buf has and shift allows
          MaxLength,   \* bound: the longest message; below 2^64 in the code
          MaxMessages  \* bound: how many messages are written

(* Base to the power of i. *)
Power[i \in 0 .. MaxPrefix] == IF i = 0 THEN 1 ELSE Base * Power[i - 1]

ASSUME LegacyAssumption ==
    /\ Base \in Nat \ {0, 1} /\ MaxPrefix \in Nat \ {0}
    /\ MaxLength \in Nat \ {0} /\ MaxLength < Power[MaxPrefix]
    /\ MaxMessages \in Nat

VARIABLES
    messages,      \* what was written: a header, then frames
    bytes,         \* the file, decompressed; a message's payload repeats its number
    writer,        \* open, closed, or killed: the file is cut
    compressed,    \* a reader can tell a cut from the end of the file
    legacyReader,  \* off, reading, eof, error
    offset, framesRead

legacyVars == <<messages, bytes, writer, compressed, legacyReader, offset, framesRead>>

LegacyInit ==
    /\ messages = <<>> /\ bytes = <<>> /\ writer = "open" /\ compressed = FALSE
    /\ legacyReader = "off" /\ offset = 0 /\ framesRead = <<>>

----------------------------------------------------------------------------
(* The writer *)

(* The digits of a length, lowest first, all but the last with the flag. *)
Prefix[n \in 0 .. MaxLength] ==
    IF n < Base THEN <<n>> ELSE <<(n % Base) + Base>> \o Prefix[n \div Base]

Payload(length, number) == [i \in 1 .. length |-> number]

(* WriteHeader and WriteFrame; decodes says whether the bytes can be taken
   for a frame, which those of a header may. *)
WriteMessage(length, decodes) ==
    /\ writer = "open" /\ Len(messages) < MaxMessages
    /\ messages' = Append(messages, [length |-> length, decodes |-> decodes])
    /\ bytes' = bytes \o Prefix[length] \o Payload(length, Len(messages) + 1)
    /\ UNCHANGED <<writer, compressed, legacyReader, offset, framesRead>>

CloseLegacy ==
    /\ writer = "open"
    /\ writer' = "closed"
    /\ UNCHANGED <<messages, bytes, compressed, legacyReader, offset, framesRead>>

(* The process is killed, or flushing the compressor fails. *)
CutFile(n) ==
    /\ writer = "open"
    /\ writer' = "cut" /\ bytes' = SubSeq(bytes, 1, n)
    /\ UNCHANGED <<messages, compressed, legacyReader, offset, framesRead>>

----------------------------------------------------------------------------
(* The reader *)

(* The magic number is looked at first, to tell a compressed file from one
   that is not: an empty file cannot be opened. *)
OpenLegacy(zstd) ==
    /\ writer # "open" /\ legacyReader = "off"
    /\ compressed' = zstd
    /\ legacyReader' = IF bytes = <<>> THEN "error" ELSE "reading"
    /\ UNCHANGED <<messages, bytes, writer, offset, framesRead>>

(* The position of the last byte of the prefix at offset, if it has one. *)
PrefixEnds == {p \in offset + 1 .. offset + MaxPrefix :
                  /\ p <= Len(bytes) /\ bytes[p] < Base
                  /\ \A q \in offset + 1 .. p - 1 : bytes[q] >= Base}

(* Mutant: the highest digit first. *)
LengthBackwards(p) ==
    LET digits[q \in offset .. p] ==
            IF q = offset THEN 0 ELSE (bytes[q] % Base) + Base * digits[q - 1]
    IN  digits[p]

LengthRead(p) ==
    LET digits[q \in offset + 1 .. p + 1] ==
            IF q > p THEN 0 ELSE (bytes[q] % Base) + Base * digits[q + 1]
    IN  digits[offset + 1]

EndRead(result) ==
    /\ legacyReader' = result
    /\ UNCHANGED <<messages, bytes, writer, compressed, offset, framesRead>>

(* What the reader below makes of the end of its bytes. *)
EndOfBytes == IF compressed /\ writer = "cut" THEN "error" ELSE "eof"

(* No whole prefix: the bytes end, or it is too long. *)
ReadNoPrefix ==
    /\ legacyReader = "reading" /\ PrefixEnds = {}
    /\ EndRead(IF Len(bytes) - offset < MaxPrefix THEN EndOfBytes ELSE "error")

(* Not one byte of the message is an EOF as well, some but not all are not. *)
ReadNoMessage ==
    /\ legacyReader = "reading"
    /\ \E p \in PrefixEnds :
          /\ LengthRead(p) > Len(bytes) - p
          /\ EndRead(IF p = Len(bytes) THEN EndOfBytes ELSE "error")

(* A message that cannot be decoded as a frame is skipped. *)
ReadFrameTo ==
    /\ legacyReader = "reading"
    /\ \E p \in PrefixEnds : LET length == LengthRead(p) IN
          /\ length <= Len(bytes) - p
          /\ offset' = p + length
          /\ LET data == SubSeq(bytes, p + 1, p + length) IN
             framesRead' = IF data # <<>> /\ data[1] \in DOMAIN messages /\ ~messages[data[1]].decodes
                           THEN framesRead ELSE Append(framesRead, data)
    /\ UNCHANGED <<messages, bytes, writer, compressed, legacyReader>>

----------------------------------------------------------------------------
LegacyNext ==
    \/ \E length \in 1 .. MaxLength, decodes \in BOOLEAN : WriteMessage(length, decodes)
    \/ CloseLegacy
    \/ \E n \in 0 .. Len(bytes) : CutFile(n)
    \/ \E zstd \in BOOLEAN : OpenLegacy(zstd)
    \/ ReadFrameTo \/ ReadNoPrefix \/ ReadNoMessage

LegacySpec == LegacyInit /\ [][LegacyNext]_legacyVars

(* Every variable has its type; a byte of the file is a byte. *)
LegacyTypeOK ==
    /\ messages \in Seq([length : 1 .. MaxLength, decodes : BOOLEAN])
    /\ bytes \in Seq(Nat) /\ offset \in 0 .. Len(bytes)
    /\ writer \in {"open", "closed", "cut"} /\ compressed \in BOOLEAN
    /\ legacyReader \in {"off", "reading", "eof", "error"}
    /\ framesRead \in Seq(Seq(Nat))

(* The frames among the first k messages. *)
FramesOf[k \in 0 .. Len(messages)] ==
    IF k = 0 THEN <<>>
    ELSE IF messages[k].decodes THEN Append(FramesOf[k - 1], Payload(messages[k].length, k))
    ELSE FramesOf[k - 1]

(* Where message k + 1 begins. *)
Start[k \in 0 .. Len(messages)] ==
    IF k = 0 THEN 0 ELSE Start[k - 1] + Len(Prefix[messages[k].length]) + messages[k].length

(* What comes back is what was written, frame by frame and byte for byte: all
   of it from a closed file; from one that was cut, the frames that are there
   as a whole.  A file that ends inside a message is an error, but without
   compression one that ends inside or right after a prefix passes for whole. *)
FramesReadArePrefix ==
    LET whole == {k \in 0 .. Len(messages) : Start[k] <= Len(bytes)}
        last == CHOOSE k \in whole : \A j \in whole : j <= k
        prefixed == /\ last < Len(messages)
                    /\ Len(bytes) > Start[last] + Len(Prefix[messages[last + 1].length])
    IN  writer # "open" =>
          /\ \E k \in whole : framesRead = FramesOf[k]
          /\ legacyReader \in {"eof", "error"} => framesRead = FramesOf[last]
          /\ legacyReader = "eof" => writer = "closed" \/ (~compressed /\ ~prefixed)
          /\ legacyReader = "error" => bytes = <<>> \/ (writer = "cut" /\ (compressed \/ prefixed))
=============================================================================
