------------------------- MODULE SimpshScriptProofs -------------------------
(***************************************************************************)
(* For scripts of any length, with any number of commands to a line: what  *)
(* the shell executed is always a part of the script, each command once    *)
(* and in its place as long as fclose() leaves the offset of the script    *)
(* alone, and no list of external commands is cut short, whatever fclose() *)
(* does.                                                                   *)
(*                                                                         *)
(* The inductive invariant ties the three places where the shell keeps its *)
(* position - the offset of the open file, the buffer of its stream and    *)
(* the line that it executes - to each other and to the history.  What is  *)
(* buffered is always the tail of the script right behind the current      *)
(* line, also when the file was read anew from an earlier offset.          *)
(***************************************************************************)
EXTENDS SimpshScript, SequenceTheorems, TLAPS

Event == [line : Nat, cmd : Nat, env : {"unset", "outer", "inner"}]

TypeInv ==
    /\ script \in Seq(Seq(Kind))
    /\ mode \in [file : BOOLEAN, tty : BOOLEAN, forks : BOOLEAN]
    /\ offset \in 0..Len(script)
    /\ buf \in Seq(Nat)
    /\ lineNo \in 0..Len(script)
    /\ lineNo = 0 => lines = <<>>
    /\ lineNo # 0 => lines = script[lineNo]
    /\ lineCount \in 0..Len(lines)
    /\ env \in {"unset", "outer", "inner"}
    /\ pc \in {"read", "exec", "done"}
    /\ pc = "exec" => lineCount < Len(lines)
    /\ ran \in Seq(Event)

\* The stream holds the lines behind the current one, to the last.
Position ==
    /\ mode.file =>
        /\ Len(buf) <= Len(script)
        /\ \A i \in 1..Len(buf) : buf[i] = Len(script) - Len(buf) + i
        /\ lineNo # 0 => lineNo = Len(script) - Len(buf)
        /\ lineNo = 0 => offset = 0 /\ buf = <<>>
    /\ ~mode.file => buf = <<>> /\ lineNo = offset

\* Nothing ran that is ahead of the shell, and the file was read once.
Ordered ==
    /\ mode.file /\ lineNo # 0 => offset = Len(script)
    /\ \A i \in 1..Len(ran) :
        \/ ran[i].line < lineNo
        \/ ran[i].line = lineNo /\ ran[i].cmd <= lineCount
    /\ OnceInOrder

Inner ==
    /\ mode.forks => env # "inner"
    /\ InnerStaysInside

DidRun(l, k) == \E i \in 1..Len(ran) : ran[i].line = l /\ ran[i].cmd = k
Covered(l) == \A k \in Reached(l) : DidRun(l, k)

\* Of the lines up to the current one nothing is left out, but for the
\* commands of its list that are still to come.
Complete ==
    mode.file /\ mode.tty /\ mode.forks =>
        /\ \A l \in 1..(lineNo - 1) : Covered(l)
        /\ pc = "read" /\ lineNo # 0 => Covered(lineNo)
        /\ pc = "exec" => \A k \in 1..lineCount :
               /\ lines[k] \in {"run", "with", "missing"}
               /\ DidRun(lineNo, k)
        /\ pc = "done" => \/ \A l \in 1..Len(script) : Covered(l)
                          \/ script[lineNo][lineCount] = "exit"

IInv == TypeInv /\ Position /\ Inner /\ Complete
OnceInv == IInv /\ Ordered

-----------------------------------------------------------------------------
LEMMA InitInv == Init => OnceInv
<1> SUFFICES ASSUME Init PROVE OnceInv
  OBVIOUS
<1> USE DEF Init
<1>1. TypeInv
  BY ScriptsAssumption, ModesAssumption DEF TypeInv
<1>2. Position
  BY <1>1 DEF Position, TypeInv
<1>3. Ordered
  BY DEF Ordered, OnceInOrder
<1>4. Inner
  BY DEF Inner, InnerStaysInside
<1>5. Complete
  BY DEF Complete
<1> QED
  BY <1>1, <1>2, <1>3, <1>4, <1>5 DEF IInv, OnceInv

\* Execute(n) makes the list of line n the one to execute, from its start.
LEMMA ExecuteType ==
    ASSUME TypeInv, NEW n \in 1..Len(script), Execute(n),
           offset' \in 0..Len(script), buf' \in Seq(Nat)
    PROVE  TypeInv' /\ script' = script /\ mode' = mode /\ lineNo' = n
<1> USE DEF Execute, inputVars
<1>1. script' = script /\ mode' = mode /\ lineNo' = n /\ lines' = script[n]
      /\ lineCount' = 0 /\ env' = env /\ ran' = ran
  OBVIOUS
<1>2. script[n] \in Seq(Kind)
  BY DEF TypeInv
<1>3. script[n] # <<>> => 0 < Len(script[n])
  BY <1>2
<1> QED
  BY <1>1, <1>2, <1>3 DEF TypeInv

\* A file is read in order: the line behind the current one, or behind the
\* offset when nothing is buffered, and what is left is the tail behind it.
LEMMA ReadFileStep ==
    ASSUME TypeInv, Position, ReadFile
    PROVE  /\ TypeInv' /\ Position' /\ lineNo' \in 1..Len(script)
           /\ script' = script /\ mode' = mode /\ Execute(lineNo')
           /\ buf # <<>> => lineNo' = Len(script) - Len(buf) + 1
           /\ buf = <<>> => lineNo' = offset + 1 /\ offset' = Len(script)
           /\ buf # <<>> => offset' = offset
<1> DEFINE fresh == [i \in 1..(Len(script) - offset) |-> offset + i]
           rest == IF buf # <<>> THEN buf ELSE fresh
<1>0. mode.file /\ rest # <<>> /\ buf' = Tail(rest) /\ Execute(Head(rest))
      /\ offset' = IF buf # <<>> THEN offset ELSE Len(script)
  BY DEF ReadFile
<1>1. /\ rest \in Seq(Nat) /\ Len(rest) \in 1..Len(script)
      /\ \A i \in 1..Len(rest) : rest[i] = Len(script) - Len(rest) + i
      /\ buf = <<>> => Len(rest) = Len(script) - offset
  <2>1. CASE buf # <<>>
    BY <1>0, <2>1 DEF TypeInv, Position
  <2>2. CASE buf = <<>>
    <3>1. rest = fresh /\ Len(script) - offset \in Nat
      BY <2>2 DEF TypeInv
    <3>2. fresh \in Seq(Nat) /\ Len(fresh) = Len(script) - offset
      BY <3>1, SMTT(60) DEF TypeInv
    <3>3. \A i \in 1..Len(fresh) : fresh[i] = offset + i
      BY <3>2
    <3>4. \A q \in Seq(Nat) : q # <<>> => Len(q) # 0
      OBVIOUS
    <3> HIDE DEF fresh
    <3>5. fresh # <<>>
      BY <3>1, <1>0
    <3>6. Len(script) \in Nat /\ offset \in Nat
      BY DEF TypeInv
    <3> HIDE DEF rest
    <3>7. Len(fresh) \in 1..Len(script)
      BY <3>1, <3>2, <3>4, <3>5, <3>6
    <3>8. \A i \in 1..Len(fresh) : fresh[i] = Len(script) - Len(fresh) + i
      BY <3>2, <3>3, <3>6
    <3> QED
      BY <3>1, <3>2, <3>7, <3>8
  <2> QED
    BY <2>1, <2>2
<1> HIDE DEF rest
<1>2. /\ Head(rest) = Len(script) - Len(rest) + 1
      /\ Tail(rest) \in Seq(Nat) /\ Len(Tail(rest)) = Len(rest) - 1
      /\ \A i \in 1..Len(Tail(rest)) : Tail(rest)[i] = rest[i + 1]
  BY <1>0, <1>1
<1>3. Len(script) \in Nat /\ offset \in 0..Len(script)
  BY DEF TypeInv
<1>4. Head(rest) \in 1..Len(script)
  BY <1>1, <1>2, <1>3
<1>5. TypeInv' /\ script' = script /\ mode' = mode /\ lineNo' = Head(rest)
  BY <1>0, <1>2, <1>3, <1>4, ExecuteType
<1>6. Position'
  BY <1>0, <1>1, <1>2, <1>3, <1>4, <1>5 DEF Position
<1>7. buf # <<>> => rest = buf
  BY DEF rest
<1> QED
  BY <1>0, <1>1, <1>2, <1>3, <1>4, <1>5, <1>6, <1>7

LEMMA ReadStdinStep ==
    ASSUME TypeInv, Position, ReadStdin
    PROVE  /\ TypeInv' /\ Position' /\ lineNo' \in 1..Len(script)
           /\ script' = script /\ mode' = mode /\ Execute(lineNo')
           /\ ~mode.file /\ lineNo' = lineNo + 1
<1>1. ~mode.file /\ offset + 1 \in 1..Len(script) /\ Execute(offset + 1)
      /\ offset' = offset + 1 /\ buf' = buf
  BY DEF ReadStdin, TypeInv
<1>2. TypeInv' /\ script' = script /\ mode' = mode /\ lineNo' = offset + 1
  BY <1>1, ExecuteType DEF TypeInv
<1> QED
  BY <1>1, <1>2 DEF Position

-----------------------------------------------------------------------------
\* What all the steps that execute a command have in common.
Command ==
    \/ Run \/ RunWith \/ ForkFailure \/ ExecFailure
    \/ Builtin \/ Pipeline \/ ExitCommand

LEMMA CommandShape ==
    ASSUME TypeInv, Command
    PROVE  /\ pc = "exec" /\ lineCount' = lineCount + 1
           /\ lineCount + 1 \in 1..Len(lines)
           /\ lineNo \in 1..Len(script) /\ lines = script[lineNo]
           /\ Current \in Kind
           /\ UNCHANGED <<script, mode, buf, lineNo, lines>>
           /\ offset' = offset \/ (CloseSeeks /\ mode.file /\ offset' \in 0..Len(script))
           /\ env' \in {"unset", "outer", "inner"}
           /\ pc' \in {"read", "exec", "done"}
           /\ pc' = "exec" => lineCount + 1 < Len(lines)
           /\ \/ ran' = ran /\ ForkFailure
              \/ \E e \in {"unset", "outer", "inner"} : Log(e)
<1> USE DEF inputVars, At, EndOfCommand, Skip
<1>1. pc = "exec" /\ lineCount' = lineCount + 1
  BY DEF Command, Run, RunWith, ForkFailure, ExecFailure, Builtin, Pipeline, ExitCommand
<1>2. lineCount + 1 \in 1..Len(lines)
  BY <1>1 DEF TypeInv
<1>3. lineNo \in 1..Len(script) /\ lines = script[lineNo] /\ lines \in Seq(Kind)
  BY <1>2 DEF TypeInv
<1>4. Current \in Kind
  BY <1>2, <1>3 DEF Current
<1>5. UNCHANGED <<script, mode, buf, lineNo, lines>>
  BY DEF Command, Run, RunWith, ForkFailure, ExecFailure, Builtin, Pipeline, ExitCommand
<1>6. offset' = offset \/ (CloseSeeks /\ mode.file /\ offset' \in 0..Len(script))
  BY DEF TypeInv, Command, Run, RunWith, ForkFailure, ExecFailure, Builtin, Pipeline,
         ExitCommand
<1>7. env' \in {"unset", "outer", "inner"}
  BY DEF TypeInv, Command, Run, RunWith, ForkFailure, ExecFailure, Builtin, Pipeline,
         ExitCommand
<1>8. pc' \in {"read", "exec", "done"} /\ (pc' = "exec" => lineCount + 1 < Len(lines))
  BY <1>1 DEF Command, Run, RunWith, ForkFailure, ExecFailure, Builtin, Pipeline, ExitCommand
<1>9. \/ ran' = ran /\ ForkFailure
      \/ \E e \in {"unset", "outer", "inner"} : Log(e)
  BY DEF TypeInv, Command, Run, RunWith, ForkFailure, ExecFailure, Builtin, Pipeline,
         ExitCommand
<1> QED
  BY <1>1, <1>2, <1>3, <1>4, <1>5, <1>6, <1>7, <1>8, <1>9

\* A logged command comes behind those that are in the history.
LEMMA LogAppends ==
    ASSUME TypeInv, NEW e \in {"unset", "outer", "inner"}, Log(e)
    PROVE  /\ ran' \in Seq(Event) /\ Len(ran') = Len(ran) + 1
           /\ \A i \in 1..Len(ran) : ran'[i] = ran[i]
           /\ ran'[Len(ran) + 1] = [line |-> lineNo, cmd |-> lineCount + 1, env |-> e]
<1> DEFINE x == [line |-> lineNo, cmd |-> lineCount + 1, env |-> e]
<1>1. x \in Event /\ ran \in Seq(Event)
  BY DEF TypeInv, Event
<1>2. ran' = Append(ran, x)
  BY DEF Log
<1> HIDE DEF x
<1>3. /\ ran' \in Seq(Event) /\ Len(ran') = Len(ran) + 1
      /\ \A i \in 1..Len(ran) : ran'[i] = ran[i] /\ ran'[Len(ran) + 1] = x
  BY <1>1, <1>2
<1>4. ran'[Len(ran) + 1] = x
  BY <1>1, <1>2
<1> QED
  BY <1>3, <1>4 DEF x

LEMMA CommandStep ==
    ASSUME TypeInv, Position, Command
    PROVE  TypeInv' /\ Position'
<1>1. ran' \in Seq(Event)
  BY CommandShape, LogAppends DEF TypeInv
<1>2. TypeInv'
  BY <1>1, CommandShape DEF TypeInv
<1>3. /\ UNCHANGED <<script, mode, buf, lineNo>> /\ lineNo # 0
      /\ ~mode.file => offset' = offset
  BY CommandShape DEF TypeInv
<1>4. Position'
  BY <1>3 DEF Position
<1> QED
  BY <1>2, <1>4

\* The steps of the system, by what they do to the position.
LEMMA Steps ==
    ASSUME [Next]_vars
    PROVE  ReadFile \/ ReadStdin \/ Command \/ EndOfFile \/ UNCHANGED vars
BY DEF Next, Command, ReadNothing, Stopped

LEMMA PositionStep ==
    ASSUME TypeInv, Position, [Next]_vars
    PROVE  TypeInv' /\ Position'
<1>1. CASE EndOfFile
  BY <1>1 DEF EndOfFile, TypeInv, Position, inputVars
<1>2. CASE UNCHANGED vars
  BY <1>2 DEF vars, TypeInv, Position
<1> QED
  BY <1>1, <1>2, Steps, ReadFileStep, ReadStdinStep, CommandStep

-----------------------------------------------------------------------------
LEMMA EventTypes ==
    ASSUME TypeInv
    PROVE  \A i \in 1..Len(ran) : ran[i].line \in Nat /\ ran[i].cmd \in Nat
<1>1. ASSUME NEW i \in 1..Len(ran) PROVE ran[i] \in Event
  BY DEF TypeInv
<1> QED
  BY <1>1 DEF Event

\* Reading moves ahead of everything in the history.
LEMMA ReadOrdered ==
    ASSUME ~CloseSeeks, TypeInv, Position, Ordered, ReadFile \/ ReadStdin
    PROVE  Ordered'
<1>1. /\ lineNo' \in 1..Len(script) /\ script' = script /\ mode' = mode
      /\ Execute(lineNo')
  BY ReadFileStep, ReadStdinStep
<1>2. ran' = ran /\ lineCount' = 0
  BY <1>1 DEF Execute
<1>3. Len(script) \in Nat /\ lineNo \in Nat /\ offset \in 0..Len(script)
  BY DEF TypeInv
<1>4. lineNo' > lineNo /\ (mode.file => offset' = Len(script))
  <2>1. CASE ReadStdin
    BY <2>1, <1>3, ReadStdinStep
  <2>2. CASE ReadFile /\ buf # <<>>
    BY <2>2, <1>1, <1>3, ReadFileStep DEF Position, Ordered
  <2>3. CASE ReadFile /\ buf = <<>>
    <3>1. lineNo' = offset + 1 /\ offset' = Len(script) /\ mode.file
      BY <2>3, ReadFileStep DEF ReadFile
    <3>2. lineNo = 0
      BY <3>1, <1>1, <1>3 DEF Ordered
    <3> QED
      BY <3>1, <3>2, <1>3 DEF Position
  <2> QED
    BY <2>1, <2>2, <2>3
<1>5. \A i \in 1..Len(ran) : ran[i].line \in Nat
  BY EventTypes
<1>6. \A i \in 1..Len(ran) : ran[i].line < lineNo'
  BY <1>1, <1>3, <1>4, <1>5 DEF Ordered
<1>7. OnceInOrder'
  BY <1>2 DEF Ordered, OnceInOrder, Before
<1> QED
  BY <1>1, <1>2, <1>4, <1>6, <1>7 DEF Ordered

\* A command that runs is behind the last one that ran.
LEMMA CommandOrdered ==
    ASSUME ~CloseSeeks, TypeInv, Position, Ordered, Command
    PROVE  Ordered'
<1>1. /\ UNCHANGED <<script, mode, lineNo, offset>> /\ lineCount' = lineCount + 1
      /\ lineCount \in Nat /\ lineNo \in Nat /\ ran \in Seq(Event)
  BY CommandShape DEF TypeInv
<1>2. CASE ran' = ran
  <2>1. \A i \in 1..Len(ran') : \/ ran'[i].line < lineNo
                                \/ ran'[i].line = lineNo /\ ran'[i].cmd <= lineCount + 1
    BY <1>1, <1>2, EventTypes DEF Ordered
  <2>2. OnceInOrder'
    BY <1>2 DEF Ordered, OnceInOrder, Before
  <2> QED
    BY <1>1, <2>1, <2>2 DEF Ordered
<1>3. ASSUME NEW e \in {"unset", "outer", "inner"}, Log(e)
      PROVE  Ordered'
  <2>1. /\ Len(ran') = Len(ran) + 1 /\ Len(ran) \in Nat
        /\ \A i \in 1..Len(ran) : ran'[i] = ran[i]
        /\ ran'[Len(ran) + 1].line = lineNo
        /\ ran'[Len(ran) + 1].cmd = lineCount + 1
    BY <1>1, <1>3, LogAppends
  <2>2. \A i \in 1..Len(ran) : /\ ran[i].cmd \in Nat /\ ran[i].line \in Nat
                               /\ \/ ran[i].line < lineNo
                                  \/ ran[i].line = lineNo /\ ran[i].cmd <= lineCount
    BY EventTypes DEF Ordered
  <2>3. \A i \in 2..Len(ran') : Before(ran'[i - 1], ran'[i])
    <3> SUFFICES ASSUME NEW i \in 2..Len(ran')
                 PROVE  Before(ran'[i - 1], ran'[i])
      OBVIOUS
    <3>1. CASE i = Len(ran) + 1
      <4>1. i - 1 \in 1..Len(ran) /\ i - 1 = Len(ran)
        BY <3>1, <2>1
      <4>2. ran'[i - 1] = ran[i - 1]
        BY <4>1, <2>1
      <4> QED
        BY <4>1, <4>2, <3>1, <2>1, <2>2, <1>1 DEF Before
    <3>2. CASE i # Len(ran) + 1
      <4>1. i - 1 \in 1..Len(ran) /\ i \in 2..Len(ran)
        BY <3>2, <2>1
      <4>2. ran'[i - 1] = ran[i - 1] /\ ran'[i] = ran[i]
        BY <4>1, <2>1
      <4> QED
        BY <4>1, <4>2 DEF Ordered, OnceInOrder
    <3> QED
      BY <3>1, <3>2
  <2>4. \A i \in 1..Len(ran') : \/ ran'[i].line < lineNo
                                \/ ran'[i].line = lineNo /\ ran'[i].cmd <= lineCount + 1
    BY <1>1, <2>1, <2>2
  <2> QED
    BY <1>1, <2>3, <2>4 DEF Ordered, OnceInOrder
<1> QED
  BY <1>2, <1>3, CommandShape

LEMMA OrderedStep ==
    ASSUME ~CloseSeeks, TypeInv, Position, Ordered, [Next]_vars
    PROVE  Ordered'
<1>1. CASE EndOfFile \/ UNCHANGED vars
  BY <1>1 DEF EndOfFile, vars, inputVars, Ordered, OnceInOrder, Before
<1> QED
  BY <1>1, Steps, ReadOrdered, CommandOrdered

-----------------------------------------------------------------------------
\* "A=inner" is set for one command: where fork() succeeds it is unset before
\* the shell gets to the next one.
LEMMA InnerStep ==
    ASSUME TypeInv, Inner, [Next]_vars
    PROVE  Inner'
<1>1. CASE Command
  <2>1. /\ UNCHANGED <<script, mode, lineNo>> /\ lineNo \in 1..Len(script)
        /\ Current = script[lineNo][lineCount + 1]
    BY <1>1, CommandShape DEF Current
  <2>2. mode.forks => env' # "inner"
    BY <1>1, <2>1 DEF Inner, Command, Run, RunWith, ForkFailure, ExecFailure, Builtin,
                      Pipeline, ExitCommand
  <2>3. ASSUME mode.forks
        PROVE  Log(env) \/ (Log("inner") /\ Current = "with")
    BY <1>1, <2>3 DEF At, Command, Run, RunWith, ForkFailure, ExecFailure, Builtin,
                      Pipeline, ExitCommand
  <2>4. ASSUME mode.forks, NEW e \in {"unset", "outer", "inner"}, Log(e),
               e = "inner" => Current = "with"
        PROVE  InnerStaysInside'
    <3>1. /\ Len(ran') = Len(ran) + 1 /\ Len(ran) \in Nat
          /\ \A i \in 1..Len(ran) : ran'[i] = ran[i]
          /\ ran'[Len(ran) + 1] = [line |-> lineNo, cmd |-> lineCount + 1, env |-> e]
      BY <2>4, LogAppends DEF TypeInv
    <3>2. ASSUME NEW i \in 1..Len(ran'), ran'[i].env = "inner"
          PROVE  script[ran'[i].line][ran'[i].cmd] = "with"
      <4>1. CASE i = Len(ran) + 1
        BY <4>1, <3>1, <3>2, <2>1, <2>4
      <4>2. CASE i \in 1..Len(ran)
        BY <4>2, <3>1, <3>2, <2>4 DEF Inner, InnerStaysInside
      <4> QED
        BY <4>1, <4>2, <3>1
    <3> QED
      BY <3>2, <2>1 DEF InnerStaysInside
  <2>5. mode.forks => InnerStaysInside'
    <3>1. ASSUME mode.forks PROVE env \in {"unset", "outer"}
      BY <3>1 DEF Inner, TypeInv
    <3> QED
      BY <3>1, <2>3, <2>4
  <2>6. ~mode.forks => InnerStaysInside'
    BY <2>1 DEF InnerStaysInside
  <2> QED
    BY <2>1, <2>2, <2>5, <2>6 DEF Inner
<1>2. CASE EndOfFile \/ UNCHANGED vars
  BY <1>2 DEF EndOfFile, vars, inputVars, Inner, InnerStaysInside
<1>3. CASE ReadFile \/ ReadStdin
  BY <1>3 DEF ReadFile, ReadStdin, Execute, inputVars, Inner, InnerStaysInside
<1> QED
  BY <1>1, <1>2, <1>3, Steps

-----------------------------------------------------------------------------
\* The history only grows, and a logged command is in it.
LEMMA DidRunGrows ==
    ASSUME TypeInv, NEW e \in {"unset", "outer", "inner"}, Log(e)
    PROVE  /\ \A l, k : DidRun(l, k) => DidRun(l, k)'
           /\ \A l, k : l = lineNo /\ k = lineCount + 1 => DidRun(l, k)'
<1>1. /\ Len(ran') = Len(ran) + 1 /\ Len(ran) \in Nat
      /\ \A i \in 1..Len(ran) : ran'[i] = ran[i]
      /\ ran'[Len(ran) + 1] = [line |-> lineNo, cmd |-> lineCount + 1, env |-> e]
  BY LogAppends DEF TypeInv
<1>2. ASSUME NEW l, NEW k, DidRun(l, k) PROVE DidRun(l, k)'
  <2>1. PICK i \in 1..Len(ran) : ran[i].line = l /\ ran[i].cmd = k
    BY <1>2 DEF DidRun
  <2>2. i \in 1..Len(ran') /\ ran'[i] = ran[i]
    BY <1>1
  <2> QED
    BY <2>1, <2>2 DEF DidRun
<1>3. ASSUME NEW l, NEW k, l = lineNo, k = lineCount + 1 PROVE DidRun(l, k)'
  <2>1. Len(ran) + 1 \in 1..Len(ran')
    BY <1>1
  <2> QED
    BY <1>1, <1>3, <2>1 DEF DidRun
<1> QED
  BY <1>2, <1>3

\* A list is left behind its last command or behind the first that is not an
\* external one, and the shell ends in the middle of a file at "exit" only.
LEMMA CommandComplete ==
    ASSUME TypeInv, Complete, Command
    PROVE  Complete'
<1>1. /\ UNCHANGED <<script, mode, lineNo, lines>> /\ pc = "exec"
      /\ lineNo \in 1..Len(script) /\ lines = script[lineNo]
      /\ lineCount' = lineCount + 1 /\ lineCount + 1 \in 1..Len(lines)
      /\ lineCount \in Nat /\ Current = lines[lineCount + 1] /\ Len(lines) \in Nat
  BY CommandShape DEF Current, TypeInv
<1> SUFFICES ASSUME mode.file, mode.tty, mode.forks
             PROVE  /\ \A l \in 1..(lineNo - 1) : Covered(l)'
                    /\ pc' = "read" => \A l : l = lineNo => Covered(l)'
                    /\ pc' = "exec" => \A k \in 1..(lineCount + 1) :
                           /\ lines[k] \in {"run", "with", "missing"}
                           /\ \A l : l = lineNo => DidRun(l, k)'
                    /\ pc' = "done" => script[lineNo][lineCount + 1] = "exit"
  <2>1. /\ \A l : l = lineNo => (Covered(l)' <=> Covered(lineNo)')
        /\ \A l, k : l = lineNo => (DidRun(l, k)' <=> DidRun(lineNo, k)')
    BY <1>1 DEF Covered, DidRun, Reached
  <2> QED
    BY <2>1, <1>1 DEF Complete
<1>2. PICK e \in {"unset", "outer", "inner"} : Log(e)
  BY CommandShape DEF ForkFailure
<1>3. /\ \A l, k : DidRun(l, k) => DidRun(l, k)'
      /\ \A k \in 1..(lineCount + 1) : \A l : l = lineNo => DidRun(l, k)'
  <2>1. /\ \A l, k : DidRun(l, k) => DidRun(l, k)'
        /\ \A l, k : l = lineNo /\ k = lineCount + 1 => DidRun(l, k)'
    BY <1>2, DidRunGrows
  <2>2. \A k \in 1..lineCount : DidRun(lineNo, k)
    BY <1>1 DEF Complete
  <2>3. \A k \in 1..(lineCount + 1) : k \in 1..lineCount \/ k = lineCount + 1
    BY <1>1
  <2> QED
    BY <2>1, <2>2, <2>3
<1>4. \A l : Reached(l)' = Reached(l)
  BY <1>1 DEF Reached
<1>5. \A l \in 1..(lineNo - 1) : Covered(l)'
  BY <1>1, <1>3, <1>4 DEF Complete, Covered
<1>6. \A k \in 1..lineCount : lines[k] \in {"run", "with", "missing"}
  BY <1>1 DEF Complete
<1>7. CASE Current \in {"run", "with", "missing"}
  <2>1. pc' = IF lineCount + 1 < Len(lines) THEN "exec" ELSE "read"
    BY <1>7 DEF Command, Run, RunWith, ForkFailure, ExecFailure, Builtin, Pipeline,
                ExitCommand, At, EndOfCommand
  <2>2. \A k \in 1..(lineCount + 1) : lines[k] \in {"run", "with", "missing"}
    BY <1>1, <1>6, <1>7
  <2>3. pc' = "read" => Reached(lineNo) \subseteq 1..(lineCount + 1)
    BY <1>1, <2>1 DEF Reached
  <2>4. pc' = "read" => \A l : l = lineNo => Covered(l)'
    BY <2>3, <1>3, <1>4 DEF Covered
  <2> QED
    BY <1>3, <1>5, <2>1, <2>2, <2>4
<1>8. CASE Current \in {"builtin", "assign", "pipeline"}
  <2>1. pc' = "read"
    BY <1>8 DEF Command, Run, RunWith, ForkFailure, ExecFailure, Builtin, Pipeline,
                ExitCommand, At, Skip
  <2>2. Reached(lineNo) \subseteq 1..(lineCount + 1)
    <3>1. ASSUME NEW k \in Reached(lineNo), ~ (k \in 1..(lineCount + 1)) PROVE FALSE
      <4>1. k \in 1..Len(lines) /\ lineCount + 1 \in 1..(k - 1)
        BY <1>1, <3>1 DEF Reached
      <4>2. script[lineNo][lineCount + 1] \in {"run", "with", "missing"}
        BY <3>1, <4>1 DEF Reached
      <4> QED
        BY <4>2, <1>1, <1>8
    <3> QED
      BY <3>1
  <2> QED
    BY <2>1, <2>2, <1>3, <1>4, <1>5 DEF Covered
<1>9. CASE Current = "exit"
  BY <1>1, <1>5, <1>9 DEF Command, Run, RunWith, ForkFailure, ExecFailure, Builtin, Pipeline,
                ExitCommand, At
<1> QED
  BY <1>7, <1>8, <1>9, CommandShape DEF Kind

\* The next line of a file is at most one ahead of what was covered, and a
\* file is at its end when its last line is covered.
LEMMA CompleteStep ==
    ASSUME TypeInv, Position, Complete, [Next]_vars
    PROVE  Complete'
<1> USE DEF Covered, DidRun, Reached
<1>1. CASE Command
  BY <1>1, CommandComplete
<1>2. CASE ReadFile
  <2>1. /\ lineNo' \in 1..Len(script) /\ script' = script /\ mode' = mode
        /\ Execute(lineNo') /\ pc = "read"
        /\ buf # <<>> => lineNo' = Len(script) - Len(buf) + 1
        /\ buf = <<>> => lineNo' = offset + 1
    BY <1>2, ReadFileStep DEF ReadFile
  <2>2. /\ ran' = ran /\ lineCount' = 0
        /\ pc' = IF script[lineNo'] = <<>> THEN "read" ELSE "exec"
    BY <2>1 DEF Execute
  <2>3. Len(script) \in Nat /\ lineNo \in 0..Len(script) /\ lineNo' \in Nat
    BY <2>1 DEF TypeInv
  <2>4. mode.file => \A l \in 1..(lineNo' - 1) : l \in 1..lineNo
    <3>1. CASE lineNo = 0
      BY <3>1, <2>1, <2>3 DEF Position
    <3>2. CASE lineNo # 0 /\ buf # <<>>
      BY <3>2, <2>1, <2>3 DEF Position
    <3>3. CASE lineNo # 0 /\ buf = <<>>
      BY <3>3, <2>1, <2>3 DEF Position
    <3> QED
      BY <3>1, <3>2, <3>3
  <2>5. mode.file /\ mode.tty /\ mode.forks => \A l \in 1..lineNo : Covered(l)
    <3> HIDE DEF Covered
    <3>1. \A l \in 1..lineNo : l = lineNo \/ l \in 1..(lineNo - 1)
      BY <2>3
    <3> QED
      BY <3>1, <2>1, <2>3 DEF Complete
  <2>6. \A l : Covered(l)' <=> Covered(l)
    BY <2>1, <2>2
  <2>7. \A l : script[l] = <<>> => Covered(l)
    OBVIOUS
  <2> HIDE DEF Covered
  <2>8. pc' = "read" => Covered(lineNo')
    BY <2>2, <2>7
  <2>9. \A l : l = lineNo' => (Covered(l)' <=> Covered(lineNo)')
    BY DEF Covered
  <2>10. mode.file /\ mode.tty /\ mode.forks =>
           /\ \A l \in 1..(lineNo' - 1) : Covered(l)'
           /\ pc' = "read" => Covered(lineNo)'
    BY <2>4, <2>5, <2>6, <2>8, <2>9
  <2> QED
    BY <2>1, <2>2, <2>10 DEF Complete
<1>3. CASE ReadStdin
  BY <1>3, ReadStdinStep DEF Complete
<1>4. CASE EndOfFile
  <2>1. UNCHANGED <<script, mode, lineNo, lineCount, lines, ran>> /\ pc = "read"
        /\ pc' = "done" /\ mode.file /\ buf = <<>> /\ offset = Len(script)
    BY <1>4 DEF EndOfFile, inputVars
  <2>2. Len(script) \in Nat /\ lineNo = Len(script)
    BY <2>1 DEF Position, TypeInv
  <2>3. \A l \in 1..Len(script) : l = lineNo \/ l \in 1..(lineNo - 1)
    BY <2>2
  <2>4. mode.tty /\ mode.forks => \A l \in 1..Len(script) : Covered(l)
    <3> HIDE DEF Covered
    <3> QED
      BY <2>1, <2>2, <2>3 DEF Complete
  <2> QED
    BY <2>1, <2>4 DEF Complete
<1>5. CASE UNCHANGED vars
  BY <1>5 DEF vars, Complete
<1> QED
  BY <1>1, <1>2, <1>3, <1>4, <1>5, Steps

-----------------------------------------------------------------------------
LEMMA IInvImplies ==
    ASSUME IInv
    PROVE  TypeOK /\ InnerStaysInside /\ NothingSkipped
<1>1. TypeOK
  <2>1. \A i \in 1..Len(buf) : buf[i] \in 1..Len(script)
    <3>1. Len(buf) \in Nat /\ Len(script) \in Nat
      BY DEF IInv, TypeInv
    <3>2. buf = <<>> \/ mode.file
      BY DEF IInv, Position
    <3> QED
      BY <3>1, <3>2 DEF IInv, Position
  <2>2. \A i \in 1..Len(lines) : lines[i] \in Kind
    <3>1. lineNo \in 1..Len(script) => script[lineNo] \in Seq(Kind)
      BY DEF IInv, TypeInv
    <3>2. CASE lineNo = 0
      BY <3>2 DEF IInv, TypeInv
    <3>3. CASE lineNo # 0
      <4>1. lineNo \in 1..Len(script) /\ lines = script[lineNo]
        BY <3>3 DEF IInv, TypeInv
      <4> QED
        BY <4>1, <3>1
    <3> QED
      BY <3>2, <3>3
  <2> QED
    BY <2>1, <2>2 DEF IInv, TypeInv, TypeOK
<1>2. NothingSkipped
  BY DEF IInv, Complete, Covered, DidRun, NothingSkipped
<1> QED
  BY <1>1, <1>2 DEF IInv, Inner

\* Whatever fclose() does to the offset: no command sees a variable that was
\* set for another one, and the position of the shell stays inside its script.
THEOREM InnerInside == Spec => [](TypeOK /\ InnerStaysInside)
<1>1. Init => IInv
  BY InitInv DEF OnceInv
<1>2. IInv /\ [Next]_vars => IInv'
  BY PositionStep, InnerStep, CompleteStep DEF IInv
<1> QED
  BY <1>1, <1>2, IInvImplies, PTL DEF Spec

\* Whatever fclose() does to the offset: a shell on a terminal that comes to
\* the end of its file has executed every list of external commands whole.
THEOREM ListsAreWhole == Spec => []NothingSkipped
<1>1. Init => IInv
  BY InitInv DEF OnceInv
<1>2. IInv /\ [Next]_vars => IInv'
  BY PositionStep, InnerStep, CompleteStep DEF IInv
<1> QED
  BY <1>1, <1>2, IInvImplies, PTL DEF Spec

\* As long as fclose() leaves the offset where it is, a script is executed in
\* its order, no command of it twice.
THEOREM ScriptRunsAsWritten ==
    ASSUME ~CloseSeeks
    PROVE  Spec => []RanAsWritten
<1>1. Init => OnceInv
  BY InitInv
<1>2. OnceInv /\ [Next]_vars => OnceInv'
  BY PositionStep, InnerStep, CompleteStep, OrderedStep DEF IInv, OnceInv
<1>3. OnceInv => RanAsWritten
  BY IInvImplies DEF OnceInv, Ordered, RanAsWritten
<1> QED
  BY <1>1, <1>2, <1>3, PTL DEF Spec

=============================================================================
