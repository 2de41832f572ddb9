-------------------------------- MODULE Cat ---------------------------------
(***************************************************************************)
(* file/cat.c: files one behind the other to standard output, a regular    *)
(* file byte by byte, a character device by what its driver returns, lines *)
(* of text.  -e marks the ends of lines, -t shows tabs.  The value of no   *)
(* write() is looked at.                                                   *)
(***************************************************************************)
EXTENDS ByteStream

CONSTANT CatBuffer       \* what is asked of a device, 4095

VARIABLES
    flags,      \* subset of {"e", "t"}
    operands,   \* the files behind: [device, bytes]
    device,     \* S_ISCHR of the file that is read
    cpc,        \* next | read | exit
    passed,     \* what was read of all files: [device, bytes] of each
    lost        \* whether a write did not take all it was given

catVars == <<flags, operands, device, cpc, passed, lost>>

Tab == 9
Newline == 10

CatInit(f, files) ==
    /\ flags = f /\ operands = files /\ device = FALSE /\ cpc = "next"
    /\ passed = <<>> /\ lost = FALSE

CatOpen ==
    /\ cpc = "next" /\ operands # <<>>
    /\ source' = Head(operands).bytes /\ taken' = 0
    /\ device' = Head(operands).device
    /\ passed' = Append(passed, [device |-> device', bytes |-> <<>>])
    /\ operands' = Tail(operands) /\ cpc' = "read"
    /\ UNCHANGED <<sinks, status, flags, lost>>

CatOpenFails ==
    /\ cpc = "next" /\ operands # <<>> /\ CallsFail
    /\ operands' = Tail(operands) /\ status' = 1
    /\ UNCHANGED <<source, taken, sinks, flags, device, cpc, passed, lost>>

(* One byte of a regular file; "$" goes in front of the newline.           *)
Shown(byte) ==
    (IF "e" \in flags /\ byte = Newline THEN <<36>> ELSE <<>>)
      \o (IF "t" \in flags /\ byte = Tab THEN <<94, 73>> ELSE <<byte>>)

(* One buffer of a device: nothing behind a NUL; the lines that have their *)
(* newline in it are marked, by -e or else by -t, the others are not.      *)
ShownLines(buffer) ==
    LET nul == {i \in DOMAIN buffer : buffer[i] = 0}
        text == IF nul = {} THEN buffer ELSE SubSeq(buffer, 1, Min(nul) - 1)
        whole == Max({0} \cup {i \in DOMAIN text : text[i] = Newline})
    IN FlattenSeq([i \in DOMAIN text |->
            IF "e" \in flags /\ text[i] = Newline THEN <<36, Newline>>
            ELSE IF flags = {"t"} /\ i <= whole /\ text[i] = Tab THEN <<94, 73>>
            ELSE <<text[i]>>])

Passed(bytes) ==
    passed' = [passed EXCEPT ![Len(passed)].bytes = @ \o bytes]

(* write() of what is shown; what it does not take is gone.                *)
Emit(bytes) ==
    \/ /\ IF bytes = <<>> THEN UNCHANGED sinks ELSE Write("stdout", bytes)
       /\ UNCHANGED lost
    \/ /\ CallsFail
       /\ lost' = TRUE
       /\ UNCHANGED sinks

CatRegular ==
    /\ cpc = "read" /\ ~device /\ Left > 0
    /\ Emit(Shown(source[taken + 1]))
    /\ taken' = taken + 1 /\ Passed(Coming(1))
    /\ UNCHANGED <<source, status, flags, operands, device, cpc>>

(* A read that finds nothing yet (EAGAIN) is repeated after a pause.       *)
CatDevice ==
    /\ cpc = "read" /\ device
    /\ \E n \in 1..Min({CatBuffer, Left}) :
         /\ Emit(ShownLines(Coming(n)))
         /\ taken' = taken + n /\ Passed(Coming(n))
    /\ UNCHANGED <<source, status, flags, operands, device, cpc>>

(* The end of the file, or a read that fails, which the status ignores.    *)
CatFileEnds ==
    /\ cpc = "read" /\ (Left = 0 \/ CallsFail)
    /\ cpc' = "next"
    /\ UNCHANGED <<streamVars, flags, operands, device, passed, lost>>

CatEnds ==
    /\ cpc = "next" /\ operands = <<>>
    /\ cpc' = "exit"
    /\ UNCHANGED <<streamVars, flags, operands, device, passed, lost>>

CatNext == CatOpen \/ CatOpenFails \/ CatRegular \/ CatDevice \/ CatFileEnds \/ CatEnds

-----------------------------------------------------------------------------
(* CatImage: what was read comes out in its order, every byte of it once,  *)
(* marked as it would be if each file were one text; so however a device   *)
(* cuts its text, but for -t (tabs in front of a cut stay) and NULs.       *)
UncutText(f) == f.device => flags # {"t"} /\ 0 \notin ToSet(f.bytes)

MarkedText(f) ==
    FlattenSeq([i \in DOMAIN f.bytes |->
        IF f.device /\ "e" \in flags
          THEN (IF f.bytes[i] = Newline THEN <<36, Newline>> ELSE <<f.bytes[i]>>)
          ELSE Shown(f.bytes[i])])

CatImage ==
    ~lost /\ (\A i \in DOMAIN passed : UncutText(passed[i])) =>
        sinks["stdout"].bytes = FlattenSeq([i \in DOMAIN passed |-> MarkedText(passed[i])])
=============================================================================
