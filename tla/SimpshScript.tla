---------------------------- MODULE SimpshScript ----------------------------
(***************************************************************************)
(* The read-and-execute loop of devel/simpsh.c: where it takes its next    *)
(* line from, which commands of a list it executes, what it leaves in the  *)
(* environment, and when it stops.  A line ends with a newline and is cut  *)
(* into commands at ';'; a command is one of a few kinds.  SimpshPipeline  *)
(* models what happens inside a pipeline.                                  *)
(***************************************************************************)
EXTENDS Integers, Sequences

CONSTANTS Scripts,      \* what the shell is given: sequences of lines, which
                        \* are sequences of kinds
          Modes,        \* how it is run, [file, tty, forks : BOOLEAN]: from a
                        \* file or standard input, which may be a terminal,
                        \* and where fork() never fails or may
          CloseSeeks    \* whether fclose() moves the offset of a file back
                        \* over what was buffered and not read (musl, bionic)

Kind == {"run",         \* an external command
         "with",        \* A=inner in front of an external command
         "missing",     \* a command that execvp() does not find
         "assign",      \* A=outer alone
         "builtin",     \* cd, unset of another variable, nothing at all
         "pipeline",
         "exit"}

ASSUME ScriptsAssumption == Scripts \subseteq Seq(Seq(Kind))
ASSUME ModesAssumption ==
    Modes \subseteq [file : BOOLEAN, tty : BOOLEAN, forks : BOOLEAN]

VARIABLES script, mode,
          offset,       \* how far the open file is read, in lines; a child
                        \* forked by the shell shares it
          buf,          \* lines in the shell's stream that fgets() has still
                        \* to return
          lineNo,       \* number of the line being executed
          lines,        \* its commands
          lineCount,    \* how many of them were executed
          env,          \* A, as the shell exports it
          ran,          \* history: [line, cmd, env] of each command executed
          pc            \* "read", "exec" or "done"

vars == <<script, mode, offset, buf, lineNo, lines, lineCount, env, ran, pc>>
inputVars == <<script, mode>>

Init ==
    /\ script \in Scripts
    /\ mode \in Modes
    /\ offset = 0
    /\ buf = <<>>
    /\ lineNo = 0
    /\ lines = <<>>
    /\ lineCount = 0
    /\ env = "unset"
    /\ ran = <<>>
    /\ pc = "read"

-----------------------------------------------------------------------------
\* Reading.

\* Line n of the script becomes the one to execute.
Execute(n) ==
    /\ lineNo' = n
    /\ lines' = script[n]
    /\ lineCount' = 0
    /\ pc' = IF script[n] = <<>> THEN "read" ELSE "exec"
    /\ UNCHANGED <<inputVars, env, ran>>

\* fgets() out of the stream's buffer, which is filled with the whole rest of
\* the file when it is empty.
ReadFile ==
    /\ pc = "read" /\ mode.file
    /\ LET rest == IF buf # <<>> THEN buf
                   ELSE [i \in 1..(Len(script) - offset) |-> offset + i]
       IN  /\ rest # <<>>
           /\ buf' = Tail(rest)
           /\ offset' = IF buf # <<>> THEN offset ELSE Len(script)
           /\ Execute(Head(rest))

\* Mutant of EndOfFile: fgets() is called again.
EndOfFile_Retries ==
    /\ pc = "read" /\ mode.file
    /\ buf = <<>> /\ offset = Len(script)
    /\ UNCHANGED vars

EndOfFile ==
    /\ pc = "read" /\ mode.file
    /\ buf = <<>> /\ offset = Len(script)
    /\ pc' = "done"
    /\ UNCHANGED <<inputVars, offset, buf, lineNo, lines, lineCount, env, ran>>

\* read() of standard input takes a line at a time, with no buffer between.
ReadStdin ==
    /\ pc = "read" /\ ~mode.file
    /\ offset < Len(script)
    /\ offset' = offset + 1
    /\ Execute(offset + 1)
    /\ UNCHANGED buf

\* At the end of input read() returns 0, and the loop goes round.
ReadNothing ==
    /\ pc = "read" /\ ~mode.file
    /\ offset = Len(script)
    /\ UNCHANGED vars

-----------------------------------------------------------------------------
\* Executing lines[lineCount].

Current == lines[lineCount + 1]
At(kinds) == pc = "exec" /\ Current \in kinds
Log(e) == ran' = Append(ran, [line |-> lineNo, cmd |-> lineCount + 1, env |-> e])

\* Mutant of EndOfCommand: the count is not advanced.
EndOfCommand_Again ==
    /\ lineCount' = lineCount
    /\ pc' = IF lineCount + 1 < Len(lines) THEN "exec"
             ELSE IF mode.tty THEN "read" ELSE "done"

\* Mutant of EndOfCommand: the last command of a list is not reached.
EndOfCommand_Early ==
    /\ lineCount' = lineCount + 1
    /\ pc' = IF lineCount + 2 < Len(lines) THEN "exec"
             ELSE IF mode.tty THEN "read" ELSE "done"

\* The next command of the list; behind the last one the shell goes on if
\* standard input is a terminal, whatever it reads from.
EndOfCommand ==
    /\ lineCount' = lineCount + 1
    /\ pc' = IF lineCount + 1 < Len(lines) THEN "exec"
             ELSE IF mode.tty THEN "read" ELSE "done"

\* "continue": the rest of the list is dropped.
Skip ==
    /\ lineCount' = lineCount + 1
    /\ pc' = "read"

Run ==
    /\ At({"run"})
    /\ Log(env)
    /\ EndOfCommand
    /\ UNCHANGED <<inputVars, offset, buf, lineNo, lines, env>>

\* Mutant of RunWith: the variable stays.
RunWith_Stays ==
    /\ At({"with"})
    /\ Log("inner")
    /\ env' = "inner"
    /\ EndOfCommand
    /\ UNCHANGED <<inputVars, offset, buf, lineNo, lines>>

\* The variable is set for the shell and unset behind the command.
RunWith ==
    /\ At({"with"})
    /\ Log("inner")
    /\ env' = "unset"
    /\ EndOfCommand
    /\ UNCHANGED <<inputVars, offset, buf, lineNo, lines>>

\* fork() fails: the unsetting belongs to the branch of the parent.
ForkFailure ==
    /\ ~mode.forks
    /\ At({"run", "with", "missing"})
    /\ env' = IF Current = "with" THEN "inner" ELSE env
    /\ EndOfCommand
    /\ UNCHANGED <<inputVars, offset, buf, lineNo, lines, ran>>

\* The child reports the error and calls exit(), which runs the handler that
\* lib/xio.c registered: fclose() of the script's stream.
ExecFailure ==
    /\ At({"missing"})
    /\ Log(env)
    /\ offset' = IF CloseSeeks /\ mode.file /\ offset >= Len(buf)
                 THEN offset - Len(buf) ELSE offset
    /\ EndOfCommand
    /\ UNCHANGED <<inputVars, buf, lineNo, lines, env>>

Builtin ==
    /\ At({"builtin", "assign"})
    /\ Log(env)
    /\ env' = IF Current = "assign" THEN "outer" ELSE env
    /\ Skip
    /\ UNCHANGED <<inputVars, offset, buf, lineNo, lines>>

Pipeline ==
    /\ At({"pipeline"})
    /\ Log(env)
    /\ Skip
    /\ UNCHANGED <<inputVars, offset, buf, lineNo, lines, env>>

ExitCommand ==
    /\ At({"exit"})
    /\ Log(env)
    /\ lineCount' = lineCount + 1
    /\ pc' = "done"
    /\ UNCHANGED <<inputVars, offset, buf, lineNo, lines, env>>

Stopped == pc = "done" /\ UNCHANGED vars

Next ==
    \/ ReadFile \/ EndOfFile \/ ReadStdin \/ ReadNothing
    \/ Run \/ RunWith \/ ForkFailure \/ ExecFailure
    \/ Builtin \/ Pipeline \/ ExitCommand
    \/ Stopped

Spec == Init /\ [][Next]_vars
FairSpec == Spec /\ WF_vars(Next)       \* the loop never sleeps for good

-----------------------------------------------------------------------------
TypeOK ==
    /\ offset \in 0..Len(script)
    /\ \A i \in 1..Len(buf) : buf[i] \in 1..Len(script)
    /\ lineNo \in 0..Len(script)
    /\ \A i \in 1..Len(lines) : lines[i] \in Kind
    /\ lineCount \in 0..Len(lines)
    /\ env \in {"unset", "outer", "inner"}
    /\ pc \in {"read", "exec", "done"}

Before(a, b) == a.line < b.line \/ (a.line = b.line /\ a.cmd < b.cmd)

\* The commands of a script are executed in its order and none of them twice:
\* "Like: echo a; echo b or: echo a (newline) echo b".
OnceInOrder == \A i \in 2..Len(ran) : Before(ran[i - 1], ran[i])

\* No command but its own sees the value of "A=inner command".
InnerStaysInside ==
    mode.forks => \A i \in 1..Len(ran) :
        ran[i].env = "inner" => script[ran[i].line][ran[i].cmd] = "with"

\* At every step the commands that ran are a part of the script, each once
\* and in its place, with the variables that were meant for it.
RanAsWritten == TypeOK /\ OnceInOrder /\ InnerStaysInside

\* The commands in front of the first one that ends a line early.
Reached(l) ==
    {k \in 1..Len(script[l]) :
        \A m \in 1..(k - 1) : script[l][m] \in {"run", "with", "missing"}}

\* A shell on a terminal that comes to the end of a file has executed each
\* list of external commands to its last one, found or not, and up to the
\* first built-in command or pipeline any other line.
NothingSkipped ==
    pc = "done" /\ mode.file /\ mode.tty /\ mode.forks =>
        \A l \in 1..Len(script) : \A k \in Reached(l) :
            \/ \E i \in 1..Len(ran) : ran[i].line = l /\ ran[i].cmd = k
            \/ script[lineNo][lineCount] = "exit"

\* A shell that executes a file comes to an end.
FileEnds == mode.file ~> pc = "done"

\* Stated by the comment over the call of parse_command() that cuts a line
\* at ';' ("echo a; echo b or: echo a, echo b"): every command of a list is
\* executed, up to an "exit".
ListsToTheEnd ==
    pc = "read" /\ lineNo > 0 => lineCount = Len(lines)
=============================================================================
