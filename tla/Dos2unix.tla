------------------------------ MODULE Dos2unix -------------------------------
(***************************************************************************)
(* file/dos2unix.c: lines that end in CR LF or CR end in LF, on standard   *)
(* output.  The character behind a CR is put out as it is, a CR too.       *)
(***************************************************************************)
EXTENDS ByteStream

VARIABLES
    inputs,     \* the operands still to come: bytes, or "--" as <<>>
    upc,        \* next | read | cr | exit
    before,     \* what was put out when the input was opened
    torn        \* did a read fail behind a CR, or a write, and did it go on all the same?

dosVars == <<inputs, upc, before, torn>>

CR == 13
LF == 10

DosInit(operands) == inputs = operands /\ upc = "next" /\ before = <<>> /\ torn = FALSE

DosOpen ==
    /\ upc = "next" /\ inputs # <<>>
    /\ inputs' = Tail(inputs) /\ source' = Head(inputs) /\ taken' = 0
    /\ upc' = "read" /\ before' = sinks.stdout.bytes /\ torn' = FALSE
    /\ UNCHANGED <<sinks, status>>

DosOpenFails ==
    /\ upc = "next" /\ inputs # <<>> /\ CallsFail
    /\ inputs' = Tail(inputs) /\ status' = 1
    /\ UNCHANGED <<source, taken, sinks, upc, before, torn>>

DosTake ==
    /\ Left > 0
    /\ taken' = taken + 1 /\ UNCHANGED <<source, status, inputs, before, torn>>

DosChar ==
    /\ upc = "read" /\ DosTake
    /\ LET c == source[taken + 1]
       IN IF c = CR THEN upc' = "cr" /\ UNCHANGED sinks
          ELSE upc' = "read" /\ Write("stdout", <<c>>)

\* Mutant of DosBehindCr: the character behind a lone CR is taken for its LF
DosBehindCr_Swallows == upc = "cr" /\ DosTake /\ upc' = "read" /\ Write("stdout", <<LF>>)

DosBehindCr ==
    /\ upc = "cr" /\ DosTake
    /\ upc' = "read"
    /\ LET c == source[taken + 1]
       IN Write("stdout", IF c = LF THEN <<LF>> ELSE <<LF, c>>)

(* fgetc() fails behind a CR, and is asked again at once.                  *)
DosErrorBehindCr ==
    /\ upc = "cr" /\ CallsFail
    /\ Write("stdout", <<LF>>) /\ upc' = "read" /\ torn' = TRUE
    /\ UNCHANGED <<source, taken, status, inputs, before>>

(* fputc(), or the flush at exit, fails: stdio drops some of what it held, *)
(* which may be all there is, and neither the loop nor the status tells.   *)
DosWriteFails ==
    /\ upc # "exit" /\ CallsFail
    /\ \E n \in 0..(Len(sinks.stdout.bytes) - 1) :
         sinks' = [sinks EXCEPT !.stdout = [bytes |-> SubSeq(@.bytes, 1, n), pos |-> n]]
    /\ torn' = TRUE
    /\ UNCHANGED <<source, taken, status, inputs, upc, before>>

(* The end of an input, or a read that fails: the status does not tell.    *)
DosInputEnds ==
    /\ \/ upc = "read" /\ (Left = 0 \/ CallsFail) /\ UNCHANGED sinks
       \/ upc = "cr" /\ Left = 0 /\ Write("stdout", <<LF>>)
    /\ upc' = "next" /\ UNCHANGED <<source, taken, status, inputs, before, torn>>

DosEnds ==
    /\ upc = "next" /\ inputs = <<>>
    /\ upc' = "exit" /\ UNCHANGED <<streamVars, inputs, before, torn>>

DosNext ==
    \/ DosOpen \/ DosOpenFails \/ DosChar \/ DosBehindCr \/ DosErrorBehindCr
    \/ DosWriteFails \/ DosInputEnds \/ DosEnds

-----------------------------------------------------------------------------
DoubleCr(bytes) == \E k \in 2..Len(bytes) : bytes[k - 1] = CR /\ bytes[k] = CR

(* A CR is a line's end, and so is the LF behind it, once.                 *)
Unix(bytes) ==
    FlattenSeq([k \in DOMAIN bytes |->
        IF k > 1 /\ bytes[k] = LF /\ bytes[k - 1] = CR THEN <<>>
        ELSE IF bytes[k] = CR THEN <<LF>> ELSE <<bytes[k]>>])

(* DosImage: what was put out of an input is what was read of it with the  *)
(* ends of its lines converted.  Not so behind two CR in a row, the second *)
(* of which is left as it is, and behind a read that failed in a CR LF or  *)
(* a write that failed, of which the status says nothing (dos2unix.c:39).  *)
DosImage ==
    upc = "read" /\ ~torn /\ ~DoubleCr(SubSeq(source, 1, taken)) =>
        sinks.stdout.bytes = before \o Unix(SubSeq(source, 1, taken))
=============================================================================
