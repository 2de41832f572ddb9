------------------------------- MODULE Base64 -------------------------------
(***************************************************************************)
(* string/base64.c: a behaviour encodes its input, then the text may be    *)
(* damaged on its way, then a second run decodes it.  A character of the   *)
(* text is its index in base64_alphabet, or one of the three below.        *)
(***************************************************************************)
EXTENDS ByteStream

VARIABLES
    wrap,       \* -w
    garbage,    \* -i
    bpc,        \* encode | sent | decode | exit
    chars,      \* chars_written
    quad,       \* the characters in the buffer of the decoder
    message,    \* what was encoded
    text,       \* what came of it
    damage,     \* what happened to the text: none, lost, noise, breaks or torn
    held        \* what stdio keeps of the decoder's output, or could not write

base64Vars == <<wrap, garbage, bpc, chars, quad, message, text, damage, held>>

Pad == 64        \* '='
Space == 65      \* white space, '\n' among it
Noise == 66      \* any other character

Base64Init(w, i) ==
    /\ wrap = w /\ garbage = i /\ bpc = "encode" /\ chars = 0 /\ quad = <<>>
    /\ message = source /\ text = <<>> /\ damage = "none" /\ held = <<>>

(* Three bytes, or the one or two of the end, are four characters.         *)
Encoded(b) ==
    LET at(k) == IF k \in DOMAIN b THEN b[k] ELSE 0
    IN <<b[1] \div 4,
         (b[1] % 4) * 16 + at(2) \div 16,
         IF Len(b) > 1 THEN (b[2] % 16) * 4 + at(3) \div 64 ELSE Pad,
         IF Len(b) > 2 THEN b[3] % 64 ELSE Pad>>

(* A newline behind each wrap characters.                                  *)
Wrapped(quartet) ==
    FlattenSeq([k \in DOMAIN quartet |->
        IF wrap > 0 /\ (chars + k) % wrap = 0 THEN <<quartet[k], Space>> ELSE <<quartet[k]>>])

EncodeGroup ==
    /\ bpc = "encode" /\ Left > 0
    /\ LET n == Min({3, Left})
       IN /\ text' = text \o Wrapped(Encoded(Coming(n)))
          /\ taken' = taken + n
    /\ chars' = chars + 4
    /\ UNCHANGED <<source, sinks, status, wrap, garbage, bpc, quad, message, damage, held>>

EncodeEnds ==
    /\ bpc = "encode" /\ Left = 0
    /\ text' = IF wrap > 0 /\ chars > 0 /\ chars % wrap # 0 THEN Append(text, Space) ELSE text
    /\ bpc' = "sent"
    /\ UNCHANGED <<streamVars, wrap, garbage, chars, quad, message, damage, held>>

(* What a text may meet: nothing, a character of it is lost, a character   *)
(* that means nothing is added, its lines are broken elsewhere.  Its end   *)
(* may not even leave the encoder: ferror(stdout) was read before the      *)
(* flush at exit, which then failed, and the status was 0.                 *)
Send ==
    /\ bpc = "sent"
    /\ \/ source' = text /\ damage' = "none"
       \/ \E i \in DOMAIN text :
            /\ text[i] # Space
            /\ source' = RemoveAt(text, i)
            /\ damage' = "lost"
       \/ \E i \in 1..(Len(text) + 1) : source' = InsertAt(text, i, Noise) /\ damage' = "noise"
       \/ \E i \in 1..(Len(text) + 1) : source' = InsertAt(text, i, Space) /\ damage' = "breaks"
       \/ \E n \in 0..(Len(text) - 1) :
            /\ CallsFail
            /\ source' = SubSeq(text, 1, n)
            /\ damage' = "torn"
    /\ taken' = 0 /\ bpc' = "decode"
    /\ UNCHANGED <<sinks, status, wrap, garbage, chars, quad, message, text, held>>

(* Four characters are three bytes, less one for each '=' at the end.      *)
(* decode_table holds -1 for '=', all bits of which are set.               *)
Code(c) == IF c = Pad THEN -1 ELSE c

Padding(q) == Cardinality({i \in 1..4 : \A j \in i..4 : q[j] = Pad})

Triple(q) ==
    <<IF q[2] = Pad THEN 255 ELSE (Code(q[1]) * 4 + q[2] \div 16) % 256,
      IF q[3] = Pad THEN 255 ELSE ((Code(q[2]) % 16) * 16 + q[3] \div 4) % 256,
      ((Code(q[3]) % 4) * 64 + Code(q[4])) % 256>>

Decoded(q) == SubSeq(Triple(q), 1, 3 - Padding(q))

(* stdio writes the first n of the bytes it holds.                         *)
Flush(bytes, n) ==
    /\ Write("stdout", SubSeq(bytes, 1, n))
    /\ held' = SubSeq(bytes, n + 1, Len(bytes))

(* At exit it writes them all, or fails and nobody is told.                *)
Base64Stop(s) ==
    /\ bpc' = "exit" /\ status' = s
    /\ \E n \in 0..Len(held) : (n = Len(held) \/ CallsFail) /\ Flush(held, n)
    /\ UNCHANGED <<source, taken, wrap, garbage, chars, quad, message, text, damage>>

DecodeSkip ==
    /\ bpc = "decode" /\ Left > 0
    /\ source[taken + 1] = Space \/ (source[taken + 1] = Noise /\ garbage)
    /\ taken' = taken + 1
    /\ UNCHANGED <<source, sinks, status, base64Vars>>

DecodeRejects ==
    /\ bpc = "decode" /\ Left > 0 /\ source[taken + 1] = Noise /\ ~garbage
    /\ Base64Stop(-1)

DecodeChar ==
    /\ bpc = "decode" /\ Left > 0 /\ source[taken + 1] \in 0..Pad
    /\ taken' = taken + 1
    /\ LET full == Append(quad, source[taken + 1])
       IN IF Len(full) < 4 THEN quad' = full /\ UNCHANGED <<sinks, held>>
          ELSE /\ quad' = <<>>
               /\ \E n \in 0..Len(held \o Decoded(full)) : Flush(held \o Decoded(full), n)
    /\ UNCHANGED <<source, status, wrap, garbage, bpc, chars, message, text, damage>>

(* A read, or a write before ferror() is read, fails in either run.        *)
Base64WriteFails == bpc \in {"encode", "decode"} /\ CallsFail /\ Base64Stop(-1)

\* Mutant of DecodeEnds: an unfinished group is not noticed
DecodeEnds_Silent ==
    /\ bpc = "decode" /\ Left = 0
    /\ Base64Stop(0)

DecodeEnds ==
    /\ bpc = "decode" /\ Left = 0
    /\ Base64Stop(IF quad # <<>> /\ ~garbage THEN -1 ELSE 0)

Base64Next ==
    \/ EncodeGroup \/ EncodeEnds \/ Send \/ DecodeSkip \/ DecodeRejects \/ DecodeChar
    \/ Base64WriteFails \/ DecodeEnds

-----------------------------------------------------------------------------
(* Base64Image: a text that lost none of its characters is decoded to the  *)
(* message, from its first byte on, wherever its lines are broken.         *)
Base64Image ==
    bpc \in {"decode", "exit"} /\ damage # "lost" =>
        IsPrefix(sinks["stdout"].bytes, message)

(* Base64Done: decoding says 0 only when the whole message is there, so a  *)
(* character that was lost never passes, unless -i lets it.  Whole is what *)
(* stdio held as well, when ferror(stdout) was read: the flush at exit     *)
(* comes behind that, and what it cannot write is lost with status 0, of   *)
(* the decoder's output and, in a torn text, of the encoder's.             *)
Base64Done ==
    bpc = "exit" /\ status = 0 /\ damage # "torn" /\ (garbage => damage # "lost") =>
        /\ sinks["stdout"].bytes \o held = message
        /\ held # <<>> => CallsFail
=============================================================================
