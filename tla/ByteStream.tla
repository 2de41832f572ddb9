----------------------------- MODULE ByteStream -----------------------------
(***************************************************************************)
(* What the kernel keeps for a tool that copies bytes: an input that may   *)
(* give less than is asked for, and outputs with a place in each.  A byte  *)
(* is its number.                                                          *)
(***************************************************************************)
EXTENDS Integers, Sequences, FiniteSets, FiniteSetsExt, SequencesExt, Functions

Byte == 0..255

CONSTANT CallsFail       \* whether read(), write() and open() may fail

VARIABLES
    source,     \* the bytes of the input
    taken,      \* how many of them were read
    sinks,      \* output -> [bytes, pos]
    status      \* the exit status

streamVars == <<source, taken, sinks, status>>

Left == Len(source) - taken

Coming(n) == SubSeq(source, taken + 1, taken + n)

(* The bytes of a file when some are written at a place of it; what was    *)
(* never written reads as zero.                                            *)
Written(old, pos, bytes) ==
    [k \in 1..Max({Len(old), pos + Len(bytes)}) |->
        IF k - pos \in DOMAIN bytes THEN bytes[k - pos]
        ELSE IF k \in DOMAIN old THEN old[k] ELSE 0]

Write(s, bytes) ==
    sinks' = [sinks EXCEPT ![s] = [bytes |-> Written(@.bytes, @.pos, bytes),
                                   pos |-> @.pos + Len(bytes)]]
=============================================================================
