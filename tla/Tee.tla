-------------------------------- MODULE Tee ---------------------------------
(***************************************************************************)
(* sys/tee.c: standard input to standard output and to some files.         *)
(***************************************************************************)
EXTENDS ByteStream

CONSTANT TeeBuffer       \* the size of its buffer, 4096

VARIABLES
    appends,    \* -a
    names,      \* the outputs that are still to be opened
    fds,        \* those that are open
    tpc,        \* open | read | write | exit
    chunk,      \* what was read
    turn,       \* the place in fds that is written next
    olds,       \* what the outputs held
    broken      \* the outputs that did not take all they were given

teeVars == <<appends, names, fds, tpc, chunk, turn, olds, broken>>

TeeInit(a, files) ==
    /\ appends = a /\ names = files /\ fds = <<"stdout">> /\ tpc = "open"
    /\ chunk = <<>> /\ turn = 1 /\ olds = [s \in DOMAIN sinks |-> sinks[s].bytes]
    /\ broken = {}

TeeOpen ==
    /\ tpc = "open" /\ names # <<>>
    /\ LET s == Head(names)
           kept == IF appends THEN sinks[s].bytes ELSE <<>>
       IN sinks' = [sinks EXCEPT ![s] = [bytes |-> kept, pos |-> Len(kept)]]
    /\ fds' = Append(fds, Head(names)) /\ names' = Tail(names)
    /\ UNCHANGED <<source, taken, status, appends, tpc, chunk, turn, olds, broken>>

(* The loop goes on, the output is not among the fds.                      *)
TeeOpenFails ==
    /\ tpc = "open" /\ names # <<>> /\ CallsFail
    /\ names' = Tail(names)
    /\ UNCHANGED <<streamVars, appends, fds, tpc, chunk, turn, olds, broken>>

TeeRead ==
    /\ tpc = "read" \/ (tpc = "open" /\ names = <<>>)
    /\ \E n \in 1..Min({TeeBuffer, Left}) :
         /\ chunk' = Coming(n)
         /\ taken' = taken + n
    /\ tpc' = "write" /\ turn' = 1
    /\ UNCHANGED <<source, sinks, status, appends, names, fds, olds, broken>>

TeeTurn ==
    /\ turn' = turn + 1
    /\ tpc' = IF turn = Len(fds) THEN "read" ELSE "write"
    /\ UNCHANGED <<source, taken, status, appends, names, fds, chunk, olds>>

(* What a short write leaves over is dropped.                              *)
TeeWrite ==
    /\ tpc = "write"
    /\ \E n \in 1..Len(chunk) :
         /\ n < Len(chunk) => CallsFail
         /\ Write(fds[turn], SubSeq(chunk, 1, n))
         /\ broken' = IF n < Len(chunk) THEN broken \cup {fds[turn]} ELSE broken
    /\ TeeTurn

TeeWriteFails ==
    /\ tpc = "write" /\ CallsFail
    /\ broken' = broken \cup {fds[turn]}
    /\ UNCHANGED sinks
    /\ TeeTurn

(* The end of the input, or a read that fails; the status is 0 anyhow.     *)
TeeEnds ==
    /\ tpc = "read" \/ (tpc = "open" /\ names = <<>>)
    /\ Left = 0 \/ CallsFail
    /\ tpc' = "exit" /\ status' = 0
    /\ UNCHANGED <<source, taken, sinks, appends, names, fds, chunk, turn, olds, broken>>

TeeNext == TeeOpen \/ TeeOpenFails \/ TeeRead \/ TeeWrite \/ TeeWriteFails \/ TeeEnds

-----------------------------------------------------------------------------
(* TeeImage: between two reads an output that took all it was given holds  *)
(* all that was read, behind what it held with -a, whatever happened to    *)
(* the other outputs.                                                      *)
TeeImage ==
    tpc \in {"read", "exit"} =>
        \A s \in ToSet(fds) \ broken :
            sinks[s].bytes = (IF appends THEN olds[s] ELSE <<>>) \o SubSeq(source, 1, taken)
=============================================================================
