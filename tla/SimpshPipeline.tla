--------------------------- MODULE SimpshPipeline ---------------------------
(***************************************************************************)
(* How devel/simpsh.c runs "a | b | c": the shell makes all the pipes,     *)
(* forks a child per stage, closes its own pipe ends and waits; each child *)
(* puts its two ends on standard input and output, closes the pipefds and  *)
(* executes the command.  Every system call is a step of its own.          *)
(*                                                                         *)
(* External and modelled from that use: a pipe is a bounded count of items *)
(* (their order is the kernel's), and a command is one of four programs.   *)
(***************************************************************************)
EXTENDS Integers, FiniteSets

CONSTANTS N,            \* pipeCount
          Cap,          \* items a pipe holds
          Items,        \* items at the terminal, and made by a "source"
          Programs,     \* the programs of the stages: functions on Stage
          CallsFail     \* whether pipe(), fork() and execvp() may fail

ASSUME StagesAssumption == N \in Nat /\ N >= 2
ASSUME CapAssumption == Cap \in Nat /\ Cap >= 1
ASSUME ItemsAssumption == Items \in Nat

Stage == 0..(N - 1)
Pipe == 0..(N - 2)              \* pipe i joins stage i to stage i + 1
Program == {"filter",           \* copies input to output until it ends
            "source",           \* writes Items items, reads nothing
            "yes",              \* writes for ever
            "head"}             \* copies one item, then exits

ASSUME ProgramsAssumption == Programs \subseteq [Stage -> Program]

End == 0..(2 * (N - 1) - 1)     \* the indexes of pipefds
ReadEnd(i) == 2 * i
WriteEnd(i) == 2 * i + 1
Terminal == 2 * (N - 1)         \* what the shell's own 0 and 1 refer to

\* What standard input and output of a stage are to be.
In(i) == IF i > 0 THEN ReadEnd(i - 1) ELSE Terminal
Out(i) == IF i < N - 1 THEN WriteEnd(i) ELSE Terminal

VARIABLES pc, idx,      \* where the shell is, and the index of that loop
          shell,        \* the pipefds open in the shell
          child,        \* [Stage -> where the child is]
          cidx,         \* the index of the child's closing loop
          ends,         \* [Stage -> the pipefds open in the child]
          stdin, stdout,
          reaped,       \* children that waitpid() returned for
          prog,
          chan,         \* [Pipe -> items inside]
          input,        \* items left at the terminal
          work          \* [Stage -> items it has still to write]

shellVars == <<pc, idx, shell, reaped>>
childVars == <<child, cidx, ends, stdin, stdout>>
dataVars == <<chan, input, work>>
vars == <<shellVars, childVars, dataVars, prog>>

Ended == {"eof", "epipe", "end", "failed"}

\* The processes that hold a pipe end, the shell apart.
Holds(i, e) == e \in ends[i] \cup {stdin[i], stdout[i]}
IsOpen(e) == e \in shell \/ \E i \in Stage : Holds(i, e)

Init ==
    /\ pc = "pipe" /\ idx = 0
    /\ shell = {}
    /\ child = [i \in Stage |-> "unborn"]
    /\ cidx = [i \in Stage |-> 0]
    /\ ends = [i \in Stage |-> {}]
    /\ stdin = [i \in Stage |-> Terminal]
    /\ stdout = [i \in Stage |-> Terminal]
    /\ reaped = {}
    /\ prog \in Programs
    /\ chan = [i \in Pipe |-> 0]
    /\ input = Items
    /\ work = [i \in Stage |-> CASE prog[i] = "source" -> Items
                                 [] prog[i] = "yes"    -> 1
                                 [] OTHER              -> 0]

-----------------------------------------------------------------------------
\* The shell.

\* The next turn of the loop over n, or the loop behind it.
Loop(n, then) ==
    IF idx + 1 < n THEN pc' = pc /\ idx' = idx + 1
                   ELSE pc' = then /\ idx' = 0

MakePipe ==
    /\ pc = "pipe"
    /\ shell' = shell \cup {ReadEnd(idx), WriteEnd(idx)}
    /\ Loop(N - 1, "fork")
    /\ UNCHANGED <<childVars, dataVars, reaped, prog>>

\* The error path frees pipefds and lines and goes on with the loop that uses
\* them: what the shell does from there on is undefined.
PipeFails ==
    /\ CallsFail
    /\ pc = "pipe"
    /\ pc' = "undefined"
    /\ UNCHANGED <<idx, shell, reaped, childVars, dataVars, prog>>

\* Mutant of Fork: the shell closes a pipe as soon as it has forked the writer.
Fork_ClosesAtOnce ==
    /\ pc = "fork"
    /\ child' = [child EXCEPT ![idx] = "dup_in"]
    /\ ends' = [ends EXCEPT ![idx] = shell]
    /\ shell' = shell \ {ReadEnd(idx), WriteEnd(idx)}
    /\ Loop(N, "close")
    /\ UNCHANGED <<reaped, cidx, stdin, stdout, dataVars, prog>>

Fork ==
    /\ pc = "fork"
    /\ child' = [child EXCEPT ![idx] = "dup_in"]
    /\ ends' = [ends EXCEPT ![idx] = shell]
    /\ Loop(N, "close")
    /\ UNCHANGED <<shell, reaped, cidx, stdin, stdout, dataVars, prog>>

ForkFails ==
    /\ CallsFail
    /\ pc = "fork"
    /\ child' = [child EXCEPT ![idx] = "none"]
    /\ Loop(N, "close")
    /\ UNCHANGED <<shell, reaped, cidx, ends, stdin, stdout, dataVars, prog>>

\* Mutant of CloseEnd: only the read ends are closed.
CloseEnd_ReadOnly ==
    /\ pc = "close"
    /\ shell' = IF idx % 2 = 0 THEN shell \ {idx} ELSE shell
    /\ Loop(2 * (N - 1), "wait")
    /\ UNCHANGED <<childVars, reaped, dataVars, prog>>

CloseEnd ==
    /\ pc = "close"
    /\ shell' = shell \ {idx}
    /\ Loop(2 * (N - 1), "wait")
    /\ UNCHANGED <<childVars, reaped, dataVars, prog>>

\* Mutant of Wait: a stage that was not forked ends the loop.
Wait_StopsEarly ==
    /\ pc = "wait"
    /\ \/ child[idx] = "none" /\ pc' = "done" /\ UNCHANGED <<idx, reaped>>
       \/ child[idx] \in Ended /\ reaped' = reaped \cup {idx} /\ Loop(N, "done")
    /\ UNCHANGED <<shell, childVars, dataVars, prog>>

Wait ==
    /\ pc = "wait"
    /\ \/ child[idx] = "none" /\ UNCHANGED reaped
       \/ child[idx] \in Ended /\ reaped' = reaped \cup {idx}
    /\ Loop(N, "done")
    /\ UNCHANGED <<shell, childVars, dataVars, prog>>

Shell == MakePipe \/ PipeFails \/ Fork \/ ForkFails \/ CloseEnd \/ Wait

-----------------------------------------------------------------------------
\* A child, up to execvp().

DupIn(i) ==
    /\ child[i] = "dup_in"
    /\ child' = [child EXCEPT ![i] = "dup_out"]
    /\ stdin' = [stdin EXCEPT ![i] = IF i > 0 THEN ReadEnd(i - 1) ELSE @]
    /\ UNCHANGED <<cidx, ends, stdout, shellVars, dataVars, prog>>

DupOut(i) ==
    /\ child[i] = "dup_out"
    /\ child' = [child EXCEPT ![i] = "close"]
    /\ stdout' = [stdout EXCEPT ![i] = IF i < N - 1 THEN WriteEnd(i) ELSE @]
    /\ UNCHANGED <<cidx, ends, stdin, shellVars, dataVars, prog>>

\* Mutant of CloseInChild: a child closes the ends of its own two pipes only.
CloseInChild_OwnOnly(i) ==
    /\ child[i] = "close"
    /\ ends' = [ends EXCEPT ![i] = IF (cidx[i] \div 2) \in {i - 1, i}
                                   THEN @ \ {cidx[i]} ELSE @]
    /\ IF cidx[i] + 1 \in End
       THEN cidx' = [cidx EXCEPT ![i] = @ + 1] /\ UNCHANGED child
       ELSE child' = [child EXCEPT ![i] = "exec"] /\ UNCHANGED cidx
    /\ UNCHANGED <<stdin, stdout, shellVars, dataVars, prog>>

CloseInChild(i) ==
    /\ child[i] = "close"
    /\ ends' = [ends EXCEPT ![i] = @ \ {cidx[i]}]
    /\ IF cidx[i] + 1 \in End
       THEN cidx' = [cidx EXCEPT ![i] = @ + 1] /\ UNCHANGED child
       ELSE child' = [child EXCEPT ![i] = "exec"] /\ UNCHANGED cidx
    /\ UNCHANGED <<stdin, stdout, shellVars, dataVars, prog>>

\* The kernel closes what an exiting process holds.
Exit(i, how) ==
    /\ child' = [child EXCEPT ![i] = how]
    /\ ends' = [ends EXCEPT ![i] = {}]
    /\ stdin' = [stdin EXCEPT ![i] = Terminal]
    /\ stdout' = [stdout EXCEPT ![i] = Terminal]
    /\ UNCHANGED <<cidx, shellVars, prog>>

Exec(i) ==
    /\ child[i] = "exec"
    /\ child' = [child EXCEPT ![i] = "run"]
    /\ UNCHANGED <<cidx, ends, stdin, stdout, shellVars, dataVars, prog>>

ExecFails(i) ==                 \* _exit(1)
    /\ CallsFail
    /\ child[i] = "exec"
    /\ Exit(i, "failed")
    /\ UNCHANGED dataVars

-----------------------------------------------------------------------------
\* A command that runs.

Reads(i) == prog[i] \in {"filter", "head"} /\ work[i] = 0
PipeOf(e) == e \div 2

ReadItem(i) ==
    /\ child[i] = "run" /\ Reads(i)
    /\ IF stdin[i] = Terminal
       THEN /\ input > 0
            /\ input' = input - 1
            /\ UNCHANGED chan
       ELSE /\ chan[PipeOf(stdin[i])] > 0
            /\ chan' = [chan EXCEPT ![PipeOf(stdin[i])] = @ - 1]
            /\ UNCHANGED input
    /\ work' = [work EXCEPT ![i] = 1]
    /\ UNCHANGED <<shellVars, childVars, prog>>

\* read() returns 0: the pipe is empty and nobody holds its write end.
ReadEof(i) ==
    /\ child[i] = "run" /\ Reads(i)
    /\ IF stdin[i] = Terminal
       THEN input = 0
       ELSE /\ chan[PipeOf(stdin[i])] = 0
            /\ ~IsOpen(WriteEnd(PipeOf(stdin[i])))
    /\ Exit(i, "eof")
    /\ UNCHANGED dataVars

Written(i) ==
    IF prog[i] = "yes" THEN UNCHANGED work
                       ELSE work' = [work EXCEPT ![i] = @ - 1]

WriteItem(i) ==
    /\ child[i] = "run" /\ work[i] > 0
    /\ IF stdout[i] = Terminal
       THEN UNCHANGED chan
       ELSE /\ chan[PipeOf(stdout[i])] < Cap
            /\ IsOpen(ReadEnd(PipeOf(stdout[i])))
            /\ chan' = [chan EXCEPT ![PipeOf(stdout[i])] = @ + 1]
    /\ Written(i)
    /\ UNCHANGED <<input, shellVars, prog>>
    /\ IF prog[i] = "head"
       THEN /\ child' = [child EXCEPT ![i] = "leave"]
            /\ UNCHANGED <<cidx, ends, stdin, stdout>>
       ELSE UNCHANGED childVars

\* SIGPIPE: a write, and nobody holds the read end.
WriteFails(i) ==
    /\ child[i] = "run" /\ work[i] > 0
    /\ stdout[i] # Terminal
    /\ ~IsOpen(ReadEnd(PipeOf(stdout[i])))
    /\ Exit(i, "epipe")
    /\ UNCHANGED dataVars

Leave(i) ==
    /\ \/ child[i] = "leave"
       \/ child[i] = "run" /\ prog[i] = "source" /\ work[i] = 0
    /\ Exit(i, "end")
    /\ UNCHANGED dataVars

Child(i) ==
    \/ DupIn(i) \/ DupOut(i) \/ CloseInChild(i) \/ Exec(i) \/ ExecFails(i)
    \/ ReadItem(i) \/ ReadEof(i) \/ WriteItem(i) \/ WriteFails(i) \/ Leave(i)

Stopped == pc \in {"done", "undefined"} /\ UNCHANGED vars

Next == Shell \/ (\E i \in Stage : Child(i)) \/ Stopped

Spec == Init /\ [][Next]_vars

\* The kernel schedules every process that can go on.
FairSpec == Spec /\ WF_vars(Shell) /\ \A i \in Stage : WF_vars(Child(i))

-----------------------------------------------------------------------------
TypeOK ==
    /\ pc \in {"pipe", "fork", "close", "wait", "done", "undefined"}
    /\ idx \in Nat
    /\ shell \subseteq End
    /\ child \in [Stage -> {"unborn", "none", "dup_in", "dup_out", "close",
                            "exec", "run", "leave"} \cup Ended]
    /\ cidx \in [Stage -> End]
    /\ ends \in [Stage -> SUBSET End]
    /\ stdin \in [Stage -> End \cup {Terminal}]
    /\ stdout \in [Stage -> End \cup {Terminal}]
    /\ reaped \subseteq Stage
    /\ prog \in [Stage -> Program]
    /\ chan \in [Pipe -> 0..Cap]
    /\ input \in 0..Items
    /\ work \in [Stage -> Nat]

\* A command is executed with the pipe of its left neighbour as its input,
\* that of its right neighbour as its output, and no other pipe end open:
\* one end too many and somebody waits for an end of input for ever.
OwnEndsOnly ==
    \A i \in Stage : child[i] \in {"exec", "run", "leave"} =>
        /\ ends[i] = {}
        /\ stdin[i] = In(i)
        /\ stdout[i] = Out(i)

\* When the shell reads the next line it has no pipe end left open, and no
\* child of the pipeline is running or waits to be reaped.
NothingLeftBehind ==
    pc = "done" =>
        /\ \A e \in End : ~IsOpen(e)
        /\ reaped = {i \in Stage : child[i] # "none"}
        /\ \A i \in reaped : child[i] \in Ended

\* The shell comes back to its prompt, also behind a stage that could not be
\* forked or executed, one that stops reading, and one that writes for ever.
ComesBack == <>(pc \in {"done", "undefined"})

\* Ends of input and broken pipes mean what a user takes them for.
StageOf(c) == CASE c \in Ended          -> c
                [] c = "none"           -> "failed"
                [] c \in {"run", "leave"} -> "running"
                [] OTHER                -> "waiting"
stages == [i \in Stage |-> StageOf(child[i])]
Flow == INSTANCE StagedFlow WITH stage <- stages
ImplementsFlow == Flow!FSpec
=============================================================================
