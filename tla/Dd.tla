--------------------------------- MODULE Dd ---------------------------------
(***************************************************************************)
(* file/dd.c: blocks of up to ibs bytes from the input, written in pieces  *)
(* of up to obs bytes.  Abstracted: the statistics, status=, the flags of  *)
(* open(), and fsync(), whose failure does not change the status.          *)
(***************************************************************************)
EXTENDS ByteStream

VARIABLES
    conv,       \* ibs, obs, count, skip, seek, and the flags of conv=
    dpc,        \* open | read | write | exit
    block,      \* inbuf, as far as bytes_read
    written,    \* bytes_written of it
    copied,     \* blocks_copied
    cuts,       \* how many bytes each read returned
    prior       \* the output as it was

ddVars == <<conv, dpc, block, written, copied, cuts, prior>>

(* Sizes are positive; what skips or counts blocks is not.                 *)
DdOptions ==
    [ibs : Nat \ {0}, obs : Nat \ {0}, count : Nat, skip : Nat, seek : Nat,
     sync : BOOLEAN, noerror : BOOLEAN, notrunc : BOOLEAN, sparse : BOOLEAN,
     pipeIn : BOOLEAN, pipeOut : BOOLEAN]

DdInit(o, old) ==
    /\ conv = o /\ dpc = "open" /\ block = <<>> /\ written = 0 /\ copied = 0
    /\ cuts = <<>> /\ prior = old

DdStop(s) ==
    /\ dpc' = "exit" /\ status' = s
    /\ UNCHANGED <<conv, block, written, copied, cuts, prior, source, taken, sinks>>

(* The output is truncated unless conv=notrunc.                            *)
Truncated ==
    [sinks EXCEPT !["out"].bytes = IF conv.notrunc \/ conv.pipeOut THEN @ ELSE <<>>]

(* lseek() of skip= and seek= refuses a pipe.                              *)
Seekable == (conv.skip > 0 => ~conv.pipeIn) /\ (conv.seek > 0 => ~conv.pipeOut)

DdOpen ==
    /\ dpc = "open" /\ Seekable
    /\ taken' = Min({conv.skip * conv.ibs, Len(source)})
    /\ sinks' = [Truncated EXCEPT !["out"].pos = conv.seek * conv.obs]
    /\ dpc' = "read"
    /\ UNCHANGED <<source, status, conv, block, written, copied, cuts, prior>>

(* By then the output is truncated.                                        *)
DdSeekFails ==
    /\ dpc = "open" /\ ~Seekable
    /\ sinks' = Truncated
    /\ dpc' = "exit" /\ status' = 1
    /\ UNCHANGED <<conv, block, written, copied, cuts, prior, source, taken>>

DdOpenFails == dpc = "open" /\ CallsFail /\ DdStop(1)

Filled(bytes) ==
    IF conv.sync THEN bytes \o [k \in 1..(conv.ibs - Len(bytes)) |-> 0] ELSE bytes

Hole(bytes) == conv.sparse /\ ToSet(bytes) \subseteq {0}

Wanted == conv.count = 0 \/ copied < conv.count

(* One read(); a block of zeros is left out with conv=sparse.              *)
DdRead ==
    /\ dpc = "read" /\ Wanted
    /\ \E n \in 1..Min({conv.ibs, Left}) :
         /\ ~conv.pipeIn => n = Min({conv.ibs, Left})
         /\ taken' = taken + n
         /\ cuts' = Append(cuts, n)
         /\ LET bytes == Filled(Coming(n))
            IN IF Hole(bytes)
                 THEN /\ ~conv.pipeOut
                      /\ sinks' = [sinks EXCEPT !["out"].pos = @ + Len(bytes)]
                      /\ copied' = copied + 1
                      /\ UNCHANGED <<dpc, block, written>>
                 ELSE /\ dpc' = "write" /\ block' = bytes /\ written' = 0
                      /\ UNCHANGED <<copied, sinks>>
    /\ UNCHANGED <<source, status, conv, prior>>

DdHoleInPipe ==
    /\ dpc = "read" /\ Wanted /\ conv.pipeOut /\ Left > 0
    /\ \E n \in 1..Min({conv.ibs, Left}) : Hole(Filled(Coming(n)))
    /\ DdStop(1)

(* A read that fails: the next one with conv=noerror, the end without.     *)
DdReadFails ==
    /\ dpc = "read" /\ Wanted /\ CallsFail /\ ~conv.noerror
    /\ DdStop(1)

(* write() may take less than the piece; the rest goes into the next one.  *)
\* Mutant of DdWrite: what a short write left over is not written
DdWrite_Short ==
    /\ dpc = "write"
    /\ LET piece == Min({conv.obs, Len(block) - written})
       IN \E n \in 1..piece :
            /\ Write("out", SubSeq(block, written + 1, written + n))
            /\ written' = written + piece
    /\ IF written' = Len(block) THEN dpc' = "read" /\ copied' = copied + 1
                                ELSE UNCHANGED <<dpc, copied>>
    /\ UNCHANGED <<source, taken, status, conv, block, cuts, prior>>

DdWrite ==
    /\ dpc = "write"
    /\ \E n \in 1..Min({conv.obs, Len(block) - written}) :
         /\ Write("out", SubSeq(block, written + 1, written + n))
         /\ written' = written + n
    /\ IF written' = Len(block) THEN dpc' = "read" /\ copied' = copied + 1
                                ELSE UNCHANGED <<dpc, copied>>
    /\ UNCHANGED <<source, taken, status, conv, block, cuts, prior>>

DdWriteFails == dpc = "write" /\ CallsFail /\ DdStop(1)

(* The count is reached, or the input ends.                                *)
DdEnds == dpc = "read" /\ (~Wanted \/ Left = 0) /\ DdStop(0)

DdNext ==
    \/ DdOpen \/ DdSeekFails \/ DdOpenFails \/ DdRead \/ DdHoleInPipe \/ DdReadFails
    \/ DdWrite \/ DdWriteFails \/ DdEnds

-----------------------------------------------------------------------------
(* The blocks as they were read, each filled up for conv=sync.             *)
Blocks ==
    LET from == Min({conv.skip * conv.ibs, Len(source)})
        start[i \in 1..(Len(cuts) + 1)] ==
            IF i = 1 THEN from ELSE start[i - 1] + cuts[i - 1]
    IN [i \in DOMAIN cuts |-> Filled(SubSeq(source, start[i] + 1, start[i] + cuts[i]))]

(* DdImage: whatever the sizes of the reads and the writes, the output is  *)
(* what it was, or nothing, with the blocks in their order from seek= on,  *)
(* and holes read as the zeros they stand for (unless old bytes are there, *)
(* which conv=notrunc,sparse leaves).                                      *)
DdImage ==
    LET all == FlattenSeq(Blocks)
        put == Len(all) - (IF dpc = "write" THEN Len(block) - written ELSE 0)
        base == conv.seek * conv.obs
        out == sinks["out"].bytes
        old == IF conv.notrunc THEN prior ELSE <<>>
    IN dpc \in {"read", "write"} /\ ~(conv.sparse /\ conv.notrunc) =>
         /\ sinks["out"].pos = base + put
         /\ \A k \in 1..Max({base + put, Len(out), Len(old)}) :
              (IF k \in DOMAIN out THEN out[k] ELSE 0) =
                  (IF k - base \in 1..put THEN all[k - base]
                   ELSE IF k \in DOMAIN old THEN old[k] ELSE 0)

(* DdDone: dd says 0 when it has copied count= blocks or the whole input,  *)
(* and what it has copied is in the output but for a hole at its end.      *)
DdDone ==
    dpc = "exit" /\ status = 0 =>
        /\ copied = Len(cuts)
        /\ copied = conv.count \/ (Left = 0 /\ (conv.count = 0 \/ copied < conv.count))
        /\ Len(sinks["out"].bytes) >= sinks["out"].pos \/ conv.sparse \/ cuts = <<>>
=============================================================================
