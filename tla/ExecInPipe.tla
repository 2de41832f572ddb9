----------------------------- MODULE ExecInPipe ------------------------------
(***************************************************************************)
(* lib/execInPipe.c: what a command writes, read through a pipe into a     *)
(* buffer that is doubled.  The input is what the command writes.          *)
(***************************************************************************)
EXTENDS ByteStream

CONSTANTS
    InitialBuf,     \* INITIAL_BUF_SIZE, 1024
    PipeRoom        \* what the pipe holds

VARIABLES
    epc,        \* start | read | wait | returned
    child,      \* none | runs | over | reaped
    produced,   \* how many bytes the command has written
    buffer,     \* the bytes in the buffer
    bufSize,
    result      \* what is returned: NULL, or the bytes

execVars == <<epc, child, produced, buffer, bufSize, result>>

NULL == <<"NULL">>

ExecInit ==
    /\ epc = "start" /\ child = "none" /\ produced = 0
    /\ buffer = <<>> /\ bufSize = InitialBuf /\ result = NULL

ExecKeep == UNCHANGED <<source, sinks, status>>

(* pipe() or fork() fails.                                                 *)
ExecNoChild ==
    /\ epc = "start" /\ CallsFail
    /\ epc' = "returned"
    /\ ExecKeep /\ UNCHANGED <<taken, child, produced, buffer, bufSize, result>>

(* The command is started; it may be one that cannot be executed, which    *)
(* writes nothing and is not told from one that has nothing to say.        *)
ExecStart ==
    /\ epc = "start"
    /\ epc' = "read"
    /\ child' \in IF CallsFail THEN {"runs", "over"} ELSE {"runs"}
    /\ ExecKeep /\ UNCHANGED <<taken, produced, buffer, bufSize, result>>

ChildWrites ==
    /\ child = "runs" /\ epc # "returned" /\ produced < Len(source)
    /\ produced - taken < PipeRoom
    /\ produced' = produced + 1
    /\ ExecKeep /\ UNCHANGED <<taken, epc, child, buffer, bufSize, result>>

ChildEnds ==
    /\ child = "runs" /\ produced = Len(source)
    /\ child' = "over"
    /\ ExecKeep /\ UNCHANGED <<taken, epc, produced, buffer, bufSize, result>>

Full == Len(buffer) >= bufSize - 1

\* Mutant of ExecRead: room is made for the bytes and not for the NUL behind them
ExecRead_NoRoomForNul ==
    /\ epc = "read" /\ Len(buffer) < bufSize /\ produced > taken
    /\ \E n \in 1..Min({produced - taken, bufSize - Len(buffer)}) :
         buffer' = buffer \o Coming(n) /\ taken' = taken + n
    /\ ExecKeep /\ UNCHANGED <<epc, child, produced, bufSize, result>>

ExecRead ==
    /\ epc = "read" /\ ~Full /\ produced > taken
    /\ \E n \in 1..Min({produced - taken, bufSize - Len(buffer) - 1}) :
         buffer' = buffer \o Coming(n) /\ taken' = taken + n
    /\ ExecKeep /\ UNCHANGED <<epc, child, produced, bufSize, result>>

ExecGrow ==
    /\ epc = "read" /\ Full
    /\ bufSize' = 2 * bufSize
    /\ ExecKeep /\ UNCHANGED <<taken, epc, child, produced, buffer, result>>

(* malloc, realloc or read fails: the child is left behind.                *)
ExecGivesUp ==
    /\ epc = "read" /\ CallsFail
    /\ epc' = "returned" /\ buffer' = <<>>
    /\ ExecKeep /\ UNCHANGED <<taken, child, produced, bufSize, result>>

ExecEof ==
    /\ epc = "read" /\ ~Full /\ child = "over" /\ produced = taken
    /\ epc' = "wait"
    /\ ExecKeep /\ UNCHANGED <<taken, child, produced, buffer, bufSize, result>>

ExecWait ==
    /\ epc = "wait" /\ child = "over"
    /\ child' = "reaped" /\ result' = buffer /\ epc' = "returned"
    /\ ExecKeep /\ UNCHANGED <<taken, produced, buffer, bufSize>>

ExecNext ==
    \/ ExecNoChild \/ ExecStart \/ ChildWrites \/ ChildEnds
    \/ ExecRead \/ ExecGrow \/ ExecGivesUp \/ ExecEof \/ ExecWait

-----------------------------------------------------------------------------
(* ExecImage: the buffer has what was read of the command and room for the *)
(* NUL behind it.                                                          *)
ExecImage ==
    epc \in {"read", "wait"} => buffer = SubSeq(source, 1, taken) /\ Len(buffer) < bufSize

(* ExecDone: what is returned, when it is not NULL, is all the command has *)
(* written, and the command is reaped.                                     *)
ExecDone ==
    epc = "returned" /\ result # NULL =>
        child = "reaped" /\ result = SubSeq(source, 1, produced) /\ produced \in {0, Len(source)}
=============================================================================
