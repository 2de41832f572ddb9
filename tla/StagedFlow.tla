----------------------------- MODULE StagedFlow -----------------------------
(***************************************************************************)
(* What "a | b | c" means to whoever types it: stages joined by bounded    *)
(* channels.  A stage sees the end of its input when the stage on its left *)
(* is over and the channel is drained, and is stopped from writing when    *)
(* the stage on its right is over: neither of them earlier.                *)
(* SimpshPipeline, which has only open file descriptors to decide by, is   *)
(* shown to implement it.                                                  *)
(***************************************************************************)
EXTENDS Integers

CONSTANTS N,            \* the stages are 0..N-1
          Cap,          \* what a channel holds
          Items         \* what the terminal has to offer to stage 0

Stages == 0..(N - 1)
Inner == 0..(N - 2)     \* channel i joins stage i to stage i + 1

VARIABLES stage,        \* "waiting", "running" or how the stage ended
          chan,         \* how much each channel holds
          input         \* what is left at the terminal

fvars == <<stage, chan, input>>

Over(i) == stage[i] \notin {"waiting", "running"}

FInit ==
    /\ stage = [i \in Stages |-> "waiting"]
    /\ chan = [i \in Inner |-> 0]
    /\ input = Items

Start(i) ==
    /\ stage[i] = "waiting"
    /\ stage' = [stage EXCEPT ![i] = "running"]
    /\ UNCHANGED <<chan, input>>

\* A stage that cannot be started, or that runs and decides to end.
Stop(i) ==
    /\ ~Over(i)
    /\ stage' = [stage EXCEPT ![i] = IF @ = "waiting" THEN "failed" ELSE "end"]
    /\ UNCHANGED <<chan, input>>

Take(i) ==
    /\ stage[i] = "running"
    /\ IF i = 0 THEN /\ input > 0
                     /\ input' = input - 1
                     /\ UNCHANGED chan
                ELSE /\ chan[i - 1] > 0
                     /\ chan' = [chan EXCEPT ![i - 1] = @ - 1]
                     /\ UNCHANGED input
    /\ UNCHANGED stage

\* A write may still succeed for a while after the reader is over.
Put(i) ==
    /\ stage[i] = "running"
    /\ i + 1 \in Stages
    /\ chan[i] < Cap
    /\ chan' = [chan EXCEPT ![i] = @ + 1]
    /\ UNCHANGED <<stage, input>>

EndOfInput(i) ==
    /\ stage[i] = "running"
    /\ IF i = 0 THEN input = 0
                ELSE chan[i - 1] = 0 /\ Over(i - 1)
    /\ stage' = [stage EXCEPT ![i] = "eof"]
    /\ UNCHANGED <<chan, input>>

NobodyReads(i) ==
    /\ stage[i] = "running"
    /\ i + 1 \in Stages /\ Over(i + 1)
    /\ stage' = [stage EXCEPT ![i] = "epipe"]
    /\ UNCHANGED <<chan, input>>

FNext ==
    \E i \in Stages : \/ Start(i) \/ Stop(i) \/ Take(i) \/ Put(i)
                      \/ EndOfInput(i) \/ NobodyReads(i)

FSpec == FInit /\ [][FNext]_fvars
=============================================================================
