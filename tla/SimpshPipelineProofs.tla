------------------------ MODULE SimpshPipelineProofs ------------------------
(***************************************************************************)
(* For any number of stages, any pipe size and any commands: simpsh leaves *)
(* each command with its own two pipe ends and itself with none, and an    *)
(* end of input or a broken pipe seen by a stage is one.                   *)
(*                                                                         *)
(* The inductive invariant says which ends are open at each point of the   *)
(* shell's and of each child's program.  From it, a write end that nobody  *)
(* holds belongs to a stage that was forked, or could not be, and is over: *)
(* the shell has left its fork loop, and a child that is not over holds it.*)
(***************************************************************************)
EXTENDS SimpshPipeline, TLAPS

ChildType ==
    /\ child \in [Stage -> {"unborn", "none", "dup_in", "dup_out", "close",
                            "exec", "run", "leave"} \cup Ended]
    /\ cidx \in [Stage -> End]
    /\ ends \in [Stage -> SUBSET End]
    /\ stdin \in [Stage -> End \cup {Terminal}]
    /\ stdout \in [Stage -> End \cup {Terminal}]

DataType ==
    /\ prog \in [Stage -> Program]
    /\ chan \in [Pipe -> 0..Cap]
    /\ input \in 0..Items
    /\ work \in [Stage -> Nat]

\* What a child holds, by the point of its program it has reached.
ChildOK(i) ==
    /\ child[i] \in {"unborn", "none"} \cup Ended =>
           ends[i] = {} /\ stdin[i] = Terminal /\ stdout[i] = Terminal
    /\ child[i] = "dup_in" =>
           ends[i] = End /\ stdin[i] = Terminal /\ stdout[i] = Terminal
    /\ child[i] = "dup_out" =>
           ends[i] = End /\ stdin[i] = In(i) /\ stdout[i] = Terminal
    /\ child[i] = "close" =>
           /\ ends[i] = {e \in End : e >= cidx[i]}
           /\ stdin[i] = In(i) /\ stdout[i] = Out(i)
    /\ child[i] \in {"exec", "run", "leave"} =>
           ends[i] = {} /\ stdin[i] = In(i) /\ stdout[i] = Out(i)
    /\ child[i] \in {"unborn", "none", "dup_in", "dup_out"} => cidx[i] = 0

\* What the shell holds, by the loop it is in.
ShellOK ==
    /\ pc \in {"pipe", "fork", "close", "wait", "done", "undefined"}
    /\ idx \in Nat
    /\ shell \subseteq End
    /\ pc = "pipe" => idx \in Pipe /\ shell = {e \in End : e < 2 * idx}
    /\ pc = "fork" => idx \in Stage /\ shell = End
    /\ pc = "close" => idx \in End /\ shell = {e \in End : e >= idx}
    /\ pc = "wait" => idx \in Stage /\ shell = {}
    /\ pc = "done" => shell = {}

\* Which children exist.
BornOK(i) ==
    child[i] = "unborn" <=> \/ pc \in {"pipe", "undefined"}
                            \/ pc = "fork" /\ i >= idx

WaitOK ==
    /\ pc \in {"pipe", "fork", "close", "undefined"} => reaped = {}
    /\ pc = "wait" => reaped = {i \in Stage : i < idx /\ child[i] # "none"}
    /\ pc = "done" => reaped = {i \in Stage : child[i] # "none"}
    /\ \A i \in reaped : child[i] \in Ended

IInv ==
    /\ ChildType /\ DataType /\ ShellOK /\ WaitOK
    /\ \A i \in Stage : ChildOK(i)
    /\ \A i \in Stage : BornOK(i)

-----------------------------------------------------------------------------
USE DEF Stage, Pipe, End, Terminal, ReadEnd, WriteEnd

\* The indexes of pipefds: In and Out are ends or the terminal, and an end
\* tells its pipe.
LEMMA Indexes ==
    /\ Terminal \notin End
    /\ \A p \in Pipe : /\ ReadEnd(p) \in End /\ WriteEnd(p) \in End
                       /\ PipeOf(ReadEnd(p)) = p /\ PipeOf(WriteEnd(p)) = p
    /\ \A i \in Stage : In(i) \in End \cup {Terminal} /\ Out(i) \in End \cup {Terminal}
    /\ \A i \in Stage : In(i) # Terminal => i > 0 /\ i - 1 \in Pipe /\ In(i) = ReadEnd(i - 1)
    /\ \A i \in Stage : Out(i) # Terminal => i \in Pipe /\ Out(i) = WriteEnd(i)
<1>1. Terminal \notin End
  BY StagesAssumption
<1>2. \A p \in Pipe : /\ ReadEnd(p) \in End /\ WriteEnd(p) \in End
                      /\ PipeOf(ReadEnd(p)) = p /\ PipeOf(WriteEnd(p)) = p
  BY StagesAssumption, SMT DEF PipeOf
<1>3. \A i \in Stage : In(i) \in End \cup {Terminal} /\ Out(i) \in End \cup {Terminal}
  BY StagesAssumption DEF In, Out
<1>4. \A i \in Stage : In(i) # Terminal => i > 0 /\ i - 1 \in Pipe /\ In(i) = ReadEnd(i - 1)
  BY StagesAssumption DEF In
<1>5. \A i \in Stage : Out(i) # Terminal => i \in Pipe /\ Out(i) = WriteEnd(i)
  BY StagesAssumption DEF Out
<1> QED
  BY <1>1, <1>2, <1>3, <1>4, <1>5

LEMMA InitIInv == Init => IInv
<1> SUFFICES ASSUME Init PROVE IInv
  OBVIOUS
<1> USE DEF Init
<1>1. ChildType
  BY StagesAssumption DEF ChildType, Ended
<1>2. DataType
  <2>1. prog \in [Stage -> Program] /\ input \in 0..Items /\ chan \in [Pipe -> 0..Cap]
    BY ProgramsAssumption, ItemsAssumption, CapAssumption
  <2>2. work \in [Stage -> Nat]
    BY ItemsAssumption
  <2> QED
    BY <2>1, <2>2 DEF DataType
<1>3. ShellOK
  BY StagesAssumption DEF ShellOK
<1>4. WaitOK
  BY DEF WaitOK
<1>5. \A i \in Stage : ChildOK(i)
  BY StagesAssumption DEF ChildOK, Ended
<1>6. \A i \in Stage : BornOK(i)
  BY DEF BornOK
<1> QED
  BY <1>1, <1>2, <1>3, <1>4, <1>5, <1>6 DEF IInv

-----------------------------------------------------------------------------
\* The shell.

LEMMA ShellUnchangedChildren ==
    ASSUME IInv, UNCHANGED childVars
    PROVE  ChildType' /\ \A i \in Stage : ChildOK(i)'
BY DEF IInv, ChildType, ChildOK, childVars, In, Out

LEMMA UnchangedData ==
    ASSUME DataType, UNCHANGED <<dataVars, prog>>
    PROVE  DataType'
BY DEF DataType, dataVars

LEMMA MakePipeIInv == IInv /\ MakePipe => IInv'
<1> SUFFICES ASSUME IInv, MakePipe PROVE IInv'
  OBVIOUS
<1>1. /\ pc = "pipe" /\ idx \in Pipe /\ shell = {e \in End : e < 2 * idx}
      /\ shell' = shell \cup {2 * idx, 2 * idx + 1}
      /\ UNCHANGED <<childVars, dataVars, reaped, prog>>
      /\ IF idx + 1 < N - 1 THEN pc' = pc /\ idx' = idx + 1
                            ELSE pc' = "fork" /\ idx' = 0
  BY DEF IInv, ShellOK, MakePipe, Loop
<1>2. ChildType' /\ \A i \in Stage : ChildOK(i)'
  BY <1>1, ShellUnchangedChildren
<1>3. DataType'
  BY <1>1, UnchangedData DEF IInv
<1>4. ShellOK'
  <2>1. shell' = {e \in End : e < 2 * (idx + 1)}
    BY <1>1, StagesAssumption
  <2>2. CASE idx + 1 < N - 1
    BY <1>1, <2>1, <2>2, StagesAssumption DEF ShellOK
  <2>3. CASE ~(idx + 1 < N - 1)
    <3>1. shell' = End
      BY <1>1, <2>1, <2>3, StagesAssumption
    <3> QED
      BY <1>1, <2>3, <3>1, StagesAssumption DEF ShellOK
  <2> QED
    BY <2>2, <2>3
<1>5. WaitOK'
  BY <1>1, StagesAssumption DEF IInv, WaitOK, childVars
<1>6. \A i \in Stage : BornOK(i)'
  BY <1>1, StagesAssumption DEF IInv, BornOK, childVars
<1> QED
  BY <1>2, <1>3, <1>4, <1>5, <1>6 DEF IInv

LEMMA PipeFailsIInv == IInv /\ PipeFails => IInv'
<1> SUFFICES ASSUME IInv, PipeFails PROVE IInv'
  OBVIOUS
<1>1. /\ pc = "pipe" /\ pc' = "undefined"
      /\ UNCHANGED <<idx, shell, reaped, childVars, dataVars, prog>>
  BY DEF PipeFails
<1>2. ChildType' /\ \A i \in Stage : ChildOK(i)'
  BY <1>1, ShellUnchangedChildren
<1>3. DataType'
  BY <1>1, UnchangedData DEF IInv
<1>4. ShellOK' /\ WaitOK'
  BY <1>1 DEF IInv, ShellOK, WaitOK, childVars
<1>5. \A i \in Stage : BornOK(i)'
  BY <1>1 DEF IInv, BornOK, childVars
<1> QED
  BY <1>2, <1>3, <1>4, <1>5 DEF IInv

LEMMA ForkIInv == IInv /\ (Fork \/ ForkFails) => IInv'
<1> SUFFICES ASSUME IInv, Fork \/ ForkFails PROVE IInv'
  OBVIOUS
<1>1. /\ pc = "fork" /\ idx \in Stage /\ shell = End /\ reaped = {}
      /\ UNCHANGED <<shell, reaped, cidx, stdin, stdout, dataVars, prog>>
      /\ IF idx + 1 < N THEN pc' = pc /\ idx' = idx + 1
                        ELSE pc' = "close" /\ idx' = 0
      /\ \/ /\ child' = [child EXCEPT ![idx] = "dup_in"]
            /\ ends' = [ends EXCEPT ![idx] = End]
         \/ /\ child' = [child EXCEPT ![idx] = "none"]
            /\ UNCHANGED ends
  BY DEF IInv, ShellOK, WaitOK, Fork, ForkFails, Loop
<1>2. child[idx] = "unborn"
  BY <1>1 DEF IInv, BornOK
<1>3. ChildType'
  BY <1>1 DEF IInv, ChildType
<1>4. \A i \in Stage : ChildOK(i)'
  <2> SUFFICES ASSUME NEW i \in Stage PROVE ChildOK(i)'
    OBVIOUS
  <2>1. ChildOK(i) /\ ChildType
    BY DEF IInv
  <2>2. CASE i = idx
    BY <1>1, <1>2, <2>1, <2>2 DEF ChildOK, ChildType, Ended
  <2>3. CASE i # idx
    <3>1. UNCHANGED <<child[i], ends[i], cidx[i], stdin[i], stdout[i]>>
      BY <1>1, <2>1, <2>3 DEF ChildType
    <3> QED
      BY <3>1, <2>1 DEF ChildOK, In, Out
  <2> QED
    BY <2>2, <2>3
<1>5. DataType'
  BY <1>1, UnchangedData DEF IInv
<1>6. ShellOK'
  <2>1. CASE idx + 1 < N
    BY <1>1, <2>1, StagesAssumption DEF ShellOK
  <2>2. CASE ~(idx + 1 < N)
    BY <1>1, <2>2, StagesAssumption DEF ShellOK
  <2> QED
    BY <2>1, <2>2
<1>7. WaitOK'
  BY <1>1 DEF WaitOK
<1>8. \A i \in Stage : BornOK(i)'
  <2> SUFFICES ASSUME NEW i \in Stage PROVE BornOK(i)'
    OBVIOUS
  <2>1. BornOK(i) /\ ChildType
    BY DEF IInv
  <2>2. CASE i = idx
    BY <1>1, <2>1, <2>2, StagesAssumption DEF BornOK, ChildType
  <2>3. CASE i # idx
    <3>1. child'[i] = child[i]
      BY <1>1, <2>1, <2>3 DEF ChildType
    <3>2. (child[i] = "unborn") <=> i >= idx
      BY <1>1, <2>1 DEF BornOK
    <3> QED
      BY <1>1, <2>3, <3>1, <3>2, StagesAssumption DEF BornOK
  <2> QED
    BY <2>2, <2>3
<1> QED
  BY <1>3, <1>4, <1>5, <1>6, <1>7, <1>8 DEF IInv

LEMMA CloseEndIInv == IInv /\ CloseEnd => IInv'
<1> SUFFICES ASSUME IInv, CloseEnd PROVE IInv'
  OBVIOUS
<1>1. /\ pc = "close" /\ idx \in End /\ shell = {e \in End : e >= idx} /\ reaped = {}
      /\ shell' = shell \ {idx}
      /\ UNCHANGED <<childVars, reaped, dataVars, prog>>
      /\ IF idx + 1 < 2 * (N - 1) THEN pc' = pc /\ idx' = idx + 1
                                  ELSE pc' = "wait" /\ idx' = 0
  BY DEF IInv, ShellOK, WaitOK, CloseEnd, Loop
<1>2. ChildType' /\ \A i \in Stage : ChildOK(i)'
  BY <1>1, ShellUnchangedChildren
<1>3. DataType'
  BY <1>1, UnchangedData DEF IInv
<1>4. ShellOK'
  <2>1. shell' = {e \in End : e >= idx + 1}
    BY <1>1, StagesAssumption
  <2>2. CASE idx + 1 < 2 * (N - 1)
    BY <1>1, <2>1, <2>2, StagesAssumption DEF ShellOK
  <2>3. CASE ~(idx + 1 < 2 * (N - 1))
    <3>1. shell' = {}
      BY <1>1, <2>1, <2>3, StagesAssumption
    <3> QED
      BY <1>1, <2>3, <3>1, StagesAssumption DEF ShellOK
  <2> QED
    BY <2>2, <2>3
<1>5. WaitOK'
  BY <1>1, StagesAssumption DEF IInv, WaitOK, childVars
<1>6. \A i \in Stage : BornOK(i)'
  BY <1>1, StagesAssumption DEF IInv, BornOK, childVars
<1> QED
  BY <1>2, <1>3, <1>4, <1>5, <1>6 DEF IInv

LEMMA WaitIInv == IInv /\ Wait => IInv'
<1> SUFFICES ASSUME IInv, Wait PROVE IInv'
  OBVIOUS
<1>1. /\ pc = "wait" /\ idx \in Stage /\ shell = {}
      /\ reaped = {i \in Stage : i < idx /\ child[i] # "none"}
      /\ \/ child[idx] = "none" /\ UNCHANGED reaped
         \/ child[idx] \in Ended /\ reaped' = reaped \cup {idx}
      /\ UNCHANGED <<shell, childVars, dataVars, prog>>
      /\ IF idx + 1 < N THEN pc' = pc /\ idx' = idx + 1
                        ELSE pc' = "done" /\ idx' = 0
  BY DEF IInv, ShellOK, WaitOK, Wait, Loop
<1>2. ChildType' /\ \A i \in Stage : ChildOK(i)'
  BY <1>1, ShellUnchangedChildren
<1>3. DataType'
  BY <1>1, UnchangedData DEF IInv
<1>4. ShellOK'
  BY <1>1, StagesAssumption DEF ShellOK
<1>5. WaitOK'
  <2>1. reaped' = {i \in Stage : i < idx + 1 /\ child[i] # "none"}
    BY <1>1, StagesAssumption DEF Ended
  <2>2. \A i \in reaped' : child'[i] \in Ended
    BY <1>1 DEF IInv, WaitOK, childVars
  <2>3. CASE idx + 1 < N
    BY <1>1, <2>1, <2>2, <2>3 DEF WaitOK, childVars
  <2>4. CASE ~(idx + 1 < N)
    <3>1. reaped' = {i \in Stage : child[i] # "none"}
      BY <1>1, <2>1, <2>4, StagesAssumption
    <3> QED
      BY <1>1, <2>2, <2>4, <3>1 DEF WaitOK, childVars
  <2> QED
    BY <2>3, <2>4
<1>6. \A i \in Stage : BornOK(i)'
  BY <1>1, StagesAssumption DEF IInv, BornOK, childVars
<1> QED
  BY <1>2, <1>3, <1>4, <1>5, <1>6 DEF IInv

LEMMA ShellIInv == IInv /\ Shell => IInv'
BY MakePipeIInv, PipeFailsIInv, ForkIInv, CloseEndIInv, WaitIInv DEF Shell

-----------------------------------------------------------------------------
\* A child.

Active == {"dup_in", "dup_out", "close", "exec", "run", "leave"}

\* Child i, which is not over, goes on to c or ends as c, and touches nothing
\* that belongs to another process.
StepOf(i, c) ==
    /\ child[i] \in Active
    /\ c \in Active \cup Ended
    /\ child' = [child EXCEPT ![i] = c]
    /\ \A j \in Stage \ {i} : UNCHANGED <<ends[j], cidx[j], stdin[j], stdout[j]>>
    /\ UNCHANGED <<shellVars, prog>>

LEMMA StepOfIInv ==
    ASSUME IInv, NEW i \in Stage, NEW c, StepOf(i, c),
           ChildType', DataType', ChildOK(i)'
    PROVE  IInv'
<1>1. \A j \in Stage : ChildOK(j)'
  <2> SUFFICES ASSUME NEW j \in Stage, j # i PROVE ChildOK(j)'
    OBVIOUS
  <2>1. UNCHANGED <<child[j], ends[j], cidx[j], stdin[j], stdout[j]>>
    BY DEF StepOf, IInv, ChildType
  <2>2. ChildOK(j)
    BY DEF IInv
  <2> QED
    BY <2>1, <2>2 DEF ChildOK, In, Out
<1>2. ShellOK'
  BY DEF IInv, ShellOK, StepOf, shellVars
<1>3. \A j \in Stage : (child'[j] = "none" <=> child[j] = "none")
                       /\ (child'[j] = "unborn" <=> child[j] = "unborn")
  BY DEF StepOf, IInv, ChildType, Active, Ended
<1>4. WaitOK'
  <2>1. i \notin reaped
    BY DEF IInv, WaitOK, StepOf, Active, Ended
  <2>2. \A j \in reaped : child'[j] = child[j]
    BY <2>1 DEF StepOf, IInv, ChildType
  <2> QED
    BY <1>3, <2>2 DEF IInv, WaitOK, StepOf, shellVars
<1>5. \A j \in Stage : BornOK(j)'
  BY <1>3 DEF IInv, BornOK, StepOf, shellVars
<1> QED
  BY <1>1, <1>2, <1>4, <1>5 DEF IInv

LEMMA DupInIInv == ASSUME IInv, NEW i \in Stage, DupIn(i) PROVE IInv'
<1>1. /\ child[i] = "dup_in" /\ child' = [child EXCEPT ![i] = "dup_out"]
      /\ stdin' = [stdin EXCEPT ![i] = IF i > 0 THEN ReadEnd(i - 1) ELSE @]
      /\ UNCHANGED <<cidx, ends, stdout, shellVars, dataVars, prog>>
  BY DEF DupIn
<1>2. ChildType /\ ChildOK(i)
  BY DEF IInv
<1>3. stdin' = [stdin EXCEPT ![i] = In(i)] /\ In(i) \in End \cup {Terminal}
  BY <1>1, <1>2, Indexes DEF In, ChildOK
<1>4. ChildType'
  BY <1>1, <1>2, <1>3 DEF ChildType
<1>5. StepOf(i, "dup_out")
  BY <1>1, <1>2 DEF StepOf, Active, ChildType
<1>6. ChildOK(i)'
  BY <1>1, <1>2, <1>3 DEF ChildOK, ChildType, Ended, In
<1> QED
  BY <1>1, <1>4, <1>5, <1>6, StepOfIInv, UnchangedData DEF IInv

LEMMA DupOutIInv == ASSUME IInv, NEW i \in Stage, DupOut(i) PROVE IInv'
<1>1. /\ child[i] = "dup_out" /\ child' = [child EXCEPT ![i] = "close"]
      /\ stdout' = [stdout EXCEPT ![i] = IF i < N - 1 THEN WriteEnd(i) ELSE @]
      /\ UNCHANGED <<cidx, ends, stdin, shellVars, dataVars, prog>>
  BY DEF DupOut
<1>2. ChildType /\ ChildOK(i)
  BY DEF IInv
<1>3. stdout' = [stdout EXCEPT ![i] = Out(i)] /\ Out(i) \in End \cup {Terminal}
  BY <1>1, <1>2, Indexes DEF Out, ChildOK
<1>4. ChildType'
  BY <1>1, <1>2, <1>3 DEF ChildType
<1>5. StepOf(i, "close")
  BY <1>1, <1>2 DEF StepOf, Active, ChildType
<1>6. ChildOK(i)'
  <2>1. child'[i] = "close" /\ stdin'[i] = In(i) /\ stdout'[i] = Out(i) /\ cidx'[i] = 0
        /\ ends'[i] = End
    BY <1>1, <1>2, <1>3 DEF ChildOK, ChildType
  <2>2. End = {e \in End : e >= 0}
    BY StagesAssumption
  <2> QED
    BY <2>1, <2>2 DEF ChildOK, Ended, In, Out
<1> QED
  BY <1>1, <1>4, <1>5, <1>6, StepOfIInv, UnchangedData DEF IInv

LEMMA CloseInChildIInv == ASSUME IInv, NEW i \in Stage, CloseInChild(i) PROVE IInv'
<1>1. /\ child[i] = "close"
      /\ ends' = [ends EXCEPT ![i] = @ \ {cidx[i]}]
      /\ UNCHANGED <<stdin, stdout, shellVars, dataVars, prog>>
  BY DEF CloseInChild
<1>2. ChildType /\ ChildOK(i) /\ cidx[i] \in End
  BY DEF IInv, ChildType
<1>3. ends[i] = {e \in End : e >= cidx[i]} /\ stdin[i] = In(i) /\ stdout[i] = Out(i)
  BY <1>1, <1>2 DEF ChildOK
<1>4. ends'[i] = {e \in End : e >= cidx[i] + 1}
  BY <1>1, <1>2, <1>3, StagesAssumption DEF ChildType
<1>5. CASE cidx[i] + 1 \in End
  <2>1. cidx' = [cidx EXCEPT ![i] = @ + 1] /\ UNCHANGED child
    BY <1>5 DEF CloseInChild
  <2>2. ChildType'
    BY <1>1, <1>2, <1>5, <2>1 DEF ChildType
  <2>3. StepOf(i, "close")
    BY <1>1, <1>2, <2>1 DEF StepOf, Active, ChildType
  <2>4. ChildOK(i)'
    <3>1. cidx'[i] = cidx[i] + 1
      BY <1>2, <2>1 DEF ChildType
    <3> QED
      BY <1>1, <1>3, <1>4, <2>1, <3>1 DEF ChildOK, Ended, In, Out
  <2> QED
    BY <1>1, <2>2, <2>3, <2>4, StepOfIInv, UnchangedData DEF IInv
<1>6. CASE cidx[i] + 1 \notin End
  <2>1. child' = [child EXCEPT ![i] = "exec"] /\ UNCHANGED cidx
    BY <1>6 DEF CloseInChild
  <2>2. ChildType'
    BY <1>1, <1>2, <2>1 DEF ChildType
  <2>3. StepOf(i, "exec")
    BY <1>1, <1>2, <2>1 DEF StepOf, Active, ChildType
  <2>4. ends'[i] = {}
    BY <1>2, <1>4, <1>6, StagesAssumption
  <2>5. ChildOK(i)'
    BY <1>1, <1>2, <1>3, <2>1, <2>4 DEF ChildOK, ChildType, Ended, In, Out
  <2> QED
    BY <1>1, <2>2, <2>3, <2>5, StepOfIInv, UnchangedData DEF IInv
<1> QED
  BY <1>5, <1>6

\* A step that leaves the descriptors alone: the command starts, or runs on.
LEMMA SameDescriptors ==
    ASSUME IInv, NEW i \in Stage, NEW c \in {"run", "leave"},
           child[i] \in {"exec", "run", "leave"},
           child' = [child EXCEPT ![i] = c],
           UNCHANGED <<cidx, ends, stdin, stdout, shellVars, prog>>, DataType'
    PROVE  IInv'
<1>1. ChildType /\ ChildOK(i)
  BY DEF IInv
<1>2. ChildType' /\ StepOf(i, c)
  BY <1>1 DEF ChildType, StepOf, Active
<1>3. ChildOK(i)'
  BY <1>1 DEF ChildOK, ChildType, Ended, In, Out
<1> QED
  BY <1>2, <1>3, StepOfIInv

LEMMA ExitIInv ==
    ASSUME IInv, NEW i \in Stage, NEW how \in Ended, child[i] \in Active,
           Exit(i, how), UNCHANGED dataVars
    PROVE  IInv'
<1>1. ChildType /\ ChildOK(i)
  BY DEF IInv
<1>2. ChildType' /\ StepOf(i, how)
  BY <1>1 DEF ChildType, StepOf, Active, Exit
<1>3. ChildOK(i)'
  BY <1>1 DEF ChildOK, ChildType, Ended, Active, Exit
<1> QED
  BY <1>2, <1>3, StepOfIInv, UnchangedData DEF IInv, Exit

\* What a running command does to its input, and to its output.
LEMMA Descriptors ==
    ASSUME IInv, NEW i \in Stage, child[i] \in {"exec", "run", "leave"}
    PROVE  /\ stdin[i] = In(i) /\ stdout[i] = Out(i)
           /\ stdin[i] # Terminal => i - 1 \in Pipe /\ PipeOf(stdin[i]) = i - 1
                                     /\ stdin[i] = ReadEnd(i - 1)
           /\ stdout[i] # Terminal => i \in Pipe /\ PipeOf(stdout[i]) = i
                                      /\ stdout[i] = WriteEnd(i)
           /\ stdin[i] = Terminal <=> i = 0
           /\ stdout[i] = Terminal <=> i = N - 1
<1>1. stdin[i] = In(i) /\ stdout[i] = Out(i)
  BY DEF IInv, ChildOK
<1>2. In(i) = Terminal <=> i = 0
  BY StagesAssumption DEF In
<1>3. Out(i) = Terminal <=> i = N - 1
  BY StagesAssumption DEF Out
<1> HIDE DEF Stage, Pipe, End, Terminal, ReadEnd, WriteEnd
<1> QED
  BY <1>1, <1>2, <1>3, Indexes

LEMMA ReadItemIInv == ASSUME IInv, NEW i \in Stage, ReadItem(i) PROVE IInv'
<1>1. /\ child[i] = "run" /\ work' = [work EXCEPT ![i] = 1]
      /\ UNCHANGED <<shellVars, childVars, prog>>
  BY DEF ReadItem
<1>2. chan' \in [Pipe -> 0..Cap] /\ input' \in 0..Items
  <2>1. CASE stdin[i] = Terminal
    BY <2>1, ItemsAssumption DEF ReadItem, IInv, DataType
  <2>2. CASE stdin[i] # Terminal
    <3>1. PipeOf(stdin[i]) \in Pipe
      BY <1>1, <2>2, Descriptors
    <3> QED
      BY <2>2, <3>1, CapAssumption DEF ReadItem, IInv, DataType
  <2> QED
    BY <2>1, <2>2
<1>3. DataType'
  BY <1>1, <1>2 DEF IInv, DataType
<1>4. child' = [child EXCEPT ![i] = "run"]
  BY <1>1 DEF IInv, ChildType, childVars
<1> QED
  BY <1>1, <1>3, <1>4, SameDescriptors DEF childVars

LEMMA WriteItemIInv == ASSUME IInv, NEW i \in Stage, WriteItem(i) PROVE IInv'
<1>1. child[i] = "run" /\ work[i] > 0 /\ UNCHANGED <<input, shellVars, prog>>
  BY DEF WriteItem
<1>2. work' \in [Stage -> Nat]
  BY <1>1 DEF WriteItem, Written, IInv, DataType
<1>3. chan' \in [Pipe -> 0..Cap]
  <2>1. CASE stdout[i] = Terminal
    BY <2>1 DEF WriteItem, IInv, DataType
  <2>2. CASE stdout[i] # Terminal
    <3>1. PipeOf(stdout[i]) \in Pipe
      BY <1>1, <2>2, Descriptors
    <3> QED
      BY <2>2, <3>1, CapAssumption DEF WriteItem, IInv, DataType
  <2> QED
    BY <2>1, <2>2
<1>4. DataType'
  BY <1>1, <1>2, <1>3 DEF IInv, DataType
<1>5. /\ \E c \in {"run", "leave"} : child' = [child EXCEPT ![i] = c]
      /\ UNCHANGED <<cidx, ends, stdin, stdout>>
  <2>1. child = [child EXCEPT ![i] = "run"]
    BY <1>1 DEF IInv, ChildType
  <2> QED
    BY <2>1 DEF WriteItem, childVars
<1> QED
  BY <1>1, <1>4, <1>5, SameDescriptors

LEMMA ChildIInv == ASSUME IInv, NEW i \in Stage, Child(i) PROVE IInv'
<1>1. CASE DupIn(i) \/ DupOut(i) \/ CloseInChild(i)
  BY <1>1, DupInIInv, DupOutIInv, CloseInChildIInv
<1>2. CASE Exec(i)
  BY <1>2, SameDescriptors, UnchangedData DEF Exec, IInv
<1>3. CASE ReadItem(i) \/ WriteItem(i)
  BY <1>3, ReadItemIInv, WriteItemIInv
<1>4. CASE ExecFails(i)
  BY <1>4, ExitIInv DEF ExecFails, Active, Ended
<1>5. CASE ReadEof(i)
  BY <1>5, ExitIInv DEF ReadEof, Active, Ended
<1>6. CASE WriteFails(i)
  BY <1>6, ExitIInv DEF WriteFails, Active, Ended
<1>7. CASE Leave(i)
  BY <1>7, ExitIInv DEF Leave, Active, Ended
<1> QED
  BY <1>1, <1>2, <1>3, <1>4, <1>5, <1>6, <1>7 DEF Child

-----------------------------------------------------------------------------
\* The inductive invariant, and what it gives.

LEMMA NextIInv == IInv /\ [Next]_vars => IInv'
<1> SUFFICES ASSUME IInv, [Next]_vars PROVE IInv'
  OBVIOUS
<1>1. CASE Shell
  BY <1>1, ShellIInv
<1>2. CASE \E i \in Stage : Child(i)
  BY <1>2, ChildIInv
<1>3. CASE UNCHANGED vars
  <2>1. UNCHANGED <<shellVars, childVars, dataVars, prog>>
    BY <1>3 DEF vars
  <2>2. ChildType' /\ \A i \in Stage : ChildOK(i)'
    BY <2>1, ShellUnchangedChildren
  <2>3. DataType'
    BY <2>1, UnchangedData DEF IInv
  <2>4. ShellOK' /\ WaitOK'
    BY <2>1 DEF IInv, ShellOK, WaitOK, shellVars, childVars
  <2>5. \A i \in Stage : BornOK(i)'
    BY <2>1 DEF IInv, BornOK, shellVars, childVars
  <2> QED
    BY <2>2, <2>3, <2>4, <2>5 DEF IInv
<1> QED
  BY <1>1, <1>2, <1>3 DEF Next, Stopped

THEOREM Invariance == Spec => []IInv
<1> QED
  BY InitIInv, NextIInv, PTL DEF Spec

\* Every variable keeps its type, for any pipeline.
THEOREM TypeCorrect == Spec => []TypeOK
<1>1. IInv => TypeOK
  BY DEF IInv, ChildType, DataType, ShellOK, WaitOK, TypeOK
<1> QED
  BY <1>1, Invariance, PTL

\* A command is executed with its own two pipe ends and no other.
THEOREM OwnEnds == Spec => []OwnEndsOnly
<1>1. IInv => OwnEndsOnly
  BY DEF IInv, ChildOK, OwnEndsOnly
<1> QED
  BY <1>1, Invariance, PTL

\* Back at its prompt the shell holds no pipe end, and every child of the
\* pipeline is over and reaped.
THEOREM CleanPrompt == Spec => []NothingLeftBehind
<1>1. IInv => NothingLeftBehind
  <2> SUFFICES ASSUME IInv, pc = "done"
               PROVE  /\ \A e \in End : ~IsOpen(e)
                      /\ reaped = {i \in Stage : child[i] # "none"}
                      /\ \A i \in reaped : child[i] \in Ended
    BY DEF NothingLeftBehind
  <2>1. shell = {} /\ reaped = {i \in Stage : child[i] # "none"}
        /\ \A i \in reaped : child[i] \in Ended
    BY DEF IInv, ShellOK, WaitOK
  <2>2. \A i \in Stage : ends[i] = {} /\ stdin[i] = Terminal /\ stdout[i] = Terminal
    BY <2>1 DEF IInv, ChildOK
  <2>3. \A e \in End : ~IsOpen(e)
    <3> HIDE DEF End, Terminal
    <3> QED
      BY <2>1, <2>2, Indexes DEF IsOpen, Holds
  <2> QED
    BY <2>1, <2>3
<1> QED
  BY <1>1, Invariance, PTL

-----------------------------------------------------------------------------
\* Ends of input and broken pipes.

IsOver(i) == child[i] \in Ended \cup {"none"}

\* An end nobody holds belongs to a stage that is over.
LEMMA NobodyHolds ==
    ASSUME IInv, NEW p \in Pipe, NEW i \in Stage, NEW j \in Stage, child[j] = "run",
           \/ i = p /\ ~IsOpen(WriteEnd(p))
           \/ i = p + 1 /\ ~IsOpen(ReadEnd(p))
    PROVE  IsOver(i)
<1> DEFINE e == IF i = p THEN WriteEnd(p) ELSE ReadEnd(p)
<1>1. e \in End /\ ~IsOpen(e)
  BY Indexes, StagesAssumption
<1>2. e \notin shell /\ ~Holds(i, e)
  BY <1>1 DEF IsOpen
<1>3. pc \notin {"pipe", "fork", "undefined"}
  <2>1. BornOK(j) /\ ShellOK
    BY DEF IInv
  <2>2. pc # "fork"
    BY <1>1, <1>2, <2>1 DEF ShellOK
  <2> QED
    BY <2>1, <2>2 DEF BornOK
<1>4. child[i] # "unborn"
  BY <1>3 DEF IInv, BornOK
<1>5. e \notin ends[i] /\ e # stdin[i] /\ e # stdout[i]
  BY <1>2 DEF Holds
<1>6. child[i] \notin {"dup_in", "dup_out"}
  BY <1>1, <1>5 DEF IInv, ChildOK
<1>7. child[i] \notin {"close", "exec", "run", "leave"}
  <2>1. \/ i = p /\ e = Out(i)
        \/ i = p + 1 /\ e = In(i)
    BY StagesAssumption DEF In, Out
  <2> HIDE DEF e
  <2> QED
    BY <1>5, <2>1 DEF IInv, ChildOK
<1> QED
  BY <1>4, <1>6, <1>7 DEF IInv, ChildType, IsOver

LEMMA StageValues ==
    /\ \A c \in Ended : StageOf(c) = c
    /\ StageOf("none") = "failed"
    /\ \A c \in {"run", "leave"} : StageOf(c) = "running"
    /\ \A c \in {"unborn", "dup_in", "dup_out", "close", "exec"} : StageOf(c) = "waiting"
BY DEF StageOf, Ended

\* What a step makes of the stages that StagedFlow sees.
LEMMA StageSteps ==
    ASSUME IInv, NEW i \in Stage, NEW c, NEW a, NEW b,
           child' = [child EXCEPT ![i] = c],
           StageOf(child[i]) = a, StageOf(c) = b
    PROVE  stages[i] = a /\ stages' = [stages EXCEPT ![i] = b]
BY DEF IInv, ChildType, stages

LEMMA SameStages ==
    ASSUME IInv, NEW i \in Stage, NEW c, child' = [child EXCEPT ![i] = c],
           StageOf(c) = StageOf(child[i])
    PROVE  stages' = stages
BY DEF IInv, ChildType, stages

LEMMA StageAt == ASSUME NEW i \in Stage PROVE stages[i] = StageOf(child[i])
BY DEF stages

LEMMA OverWhenOver ==
    ASSUME NEW i \in Stage, IsOver(i)
    PROVE  stages[i] \notin {"waiting", "running"}
BY StageValues, StageAt DEF IsOver, Ended

LEMMA InitFlow == Init => Flow!FInit
<1> SUFFICES ASSUME Init PROVE Flow!FInit
  OBVIOUS
<1>1. stages = [i \in Stage |-> "waiting"]
  BY StageValues DEF Init, stages
<1> QED
  BY <1>1 DEF Init, Flow!FInit, Flow!Stages, Flow!Inner

LEMMA ShellFlow == IInv /\ Shell => [Flow!FNext]_(Flow!fvars)
<1> SUFFICES ASSUME IInv, Shell PROVE [Flow!FNext]_(Flow!fvars)
  OBVIOUS
<1>1. CASE UNCHANGED <<childVars, dataVars>>
  BY <1>1 DEF childVars, dataVars, stages, Flow!fvars
<1>2. CASE Fork \/ ForkFails
  <2>1. idx \in Stage /\ child[idx] = "unborn" /\ UNCHANGED <<chan, input>>
    BY <1>2 DEF IInv, ShellOK, BornOK, Fork, ForkFails, dataVars
  <2>2. CASE Fork
    <3>1. stages' = stages
      BY <2>1, <2>2, SameStages, StageValues DEF Fork
    <3> QED
      BY <2>1, <3>1 DEF Flow!fvars
  <2>3. CASE ForkFails
    <3>1. stages' = [stages EXCEPT ![idx] = "failed"] /\ stages[idx] = "waiting"
      <4>1. StageOf("unborn") = "waiting" /\ StageOf("none") = "failed"
        BY StageValues DEF Ended
      <4> QED
        BY <2>1, <2>3, <4>1, StageSteps DEF ForkFails
    <3>2. Flow!Stop(idx)
      BY <2>1, <3>1 DEF Flow!Stop, Flow!Over
    <3> QED
      BY <2>1, <3>2 DEF Flow!FNext, Flow!Stages
  <2> QED
    BY <1>2, <2>2, <2>3
<1> QED
  BY <1>1, <1>2 DEF Shell, MakePipe, PipeFails, CloseEnd, Wait

LEMMA ReadItemFlow == ASSUME IInv, NEW i \in Stage, ReadItem(i) PROVE Flow!Take(i)
<1>1. child[i] = "run" /\ child' = child
  BY DEF ReadItem, childVars
<1>2. stages[i] = "running" /\ stages' = stages
  BY <1>1, StageValues, StageAt DEF stages
<1>3. /\ stdin[i] # Terminal => PipeOf(stdin[i]) = i - 1
      /\ stdin[i] = Terminal <=> i = 0
  BY <1>1, Descriptors
<1> QED
  BY <1>2, <1>3 DEF ReadItem, Flow!Take

LEMMA ReadEofFlow == ASSUME IInv, NEW i \in Stage, ReadEof(i) PROVE Flow!EndOfInput(i)
<1>1. /\ child[i] = "run" /\ child' = [child EXCEPT ![i] = "eof"]
      /\ UNCHANGED <<chan, input>>
  BY DEF ReadEof, Exit, dataVars
<1>2. stages[i] = "running" /\ stages' = [stages EXCEPT ![i] = "eof"]
  <2>1. StageOf("run") = "running" /\ StageOf("eof") = "eof"
    BY StageValues DEF Ended
  <2> QED
    BY <1>1, <2>1, StageSteps
<1>3. /\ stdin[i] # Terminal => i - 1 \in Pipe /\ PipeOf(stdin[i]) = i - 1
      /\ stdin[i] = Terminal <=> i = 0
  BY <1>1, Descriptors
<1>4. CASE i = 0
  BY <1>1, <1>2, <1>3, <1>4 DEF ReadEof, Flow!EndOfInput
<1>5. CASE i # 0
  <2>1. chan[i - 1] = 0 /\ ~IsOpen(WriteEnd(i - 1)) /\ i - 1 \in Pipe
    BY <1>3, <1>5 DEF ReadEof
  <2>2. i - 1 \in Stage
    BY <2>1, StagesAssumption
  <2>3. IsOver(i - 1)
    BY <1>1, <2>1, <2>2, NobodyHolds
  <2>4. stages[i - 1] \notin {"waiting", "running"}
    BY <2>2, <2>3, OverWhenOver
  <2> QED
    BY <1>1, <1>2, <1>5, <2>1, <2>4 DEF Flow!EndOfInput, Flow!Over
<1> QED
  BY <1>4, <1>5

LEMMA WriteItemFlow ==
    ASSUME IInv, NEW i \in Stage, WriteItem(i)
    PROVE  Flow!Put(i) \/ UNCHANGED Flow!fvars
<1>1. child[i] = "run" /\ UNCHANGED input
  BY DEF WriteItem
<1>2. \E c \in {"run", "leave"} : child' = [child EXCEPT ![i] = c]
  <2>1. child = [child EXCEPT ![i] = "run"]
    BY <1>1 DEF IInv, ChildType
  <2> QED
    BY <2>1 DEF WriteItem, childVars
<1>3. stages[i] = "running" /\ stages' = stages
  <2>1. StageOf("run") = "running" /\ StageOf("leave") = "running"
    BY StageValues
  <2>2. PICK c \in {"run", "leave"} : child' = [child EXCEPT ![i] = c]
    BY <1>2
  <2>3. StageOf(c) = "running" /\ StageOf(child[i]) = "running"
    BY <1>1, <2>1, <2>2
  <2> QED
    BY <2>2, <2>3, StageAt, SameStages
<1>4. CASE stdout[i] = Terminal
  BY <1>1, <1>3, <1>4 DEF WriteItem, Flow!fvars
<1>5. CASE stdout[i] # Terminal
  <2>1. i \in Pipe /\ PipeOf(stdout[i]) = i
    BY <1>1, <1>5, Descriptors
  <2>2. i + 1 \in Stage
    BY <2>1, StagesAssumption
  <2> QED
    BY <1>1, <1>3, <1>5, <2>1, <2>2 DEF WriteItem, Flow!Put, Flow!Stages
<1> QED
  BY <1>4, <1>5

LEMMA WriteFailsFlow == ASSUME IInv, NEW i \in Stage, WriteFails(i) PROVE Flow!NobodyReads(i)
<1>1. /\ child[i] = "run" /\ child' = [child EXCEPT ![i] = "epipe"]
      /\ UNCHANGED <<chan, input>>
  BY DEF WriteFails, Exit, dataVars
<1>2. stages[i] = "running" /\ stages' = [stages EXCEPT ![i] = "epipe"]
  <2>1. StageOf("run") = "running" /\ StageOf("epipe") = "epipe"
    BY StageValues DEF Ended
  <2> QED
    BY <1>1, <2>1, StageSteps
<1>3. i \in Pipe /\ ~IsOpen(ReadEnd(i))
  BY <1>1, Descriptors DEF WriteFails
<1>4. i + 1 \in Stage
  BY <1>3, StagesAssumption
<1>5. IsOver(i + 1)
  BY <1>1, <1>3, <1>4, NobodyHolds
<1>6. stages[i + 1] \notin {"waiting", "running"}
  BY <1>4, <1>5, OverWhenOver
<1> QED
  BY <1>1, <1>2, <1>4, <1>6 DEF Flow!NobodyReads, Flow!Over, Flow!Stages

LEMMA ChildFlow ==
    ASSUME IInv, NEW i \in Stage, Child(i)
    PROVE  [Flow!FNext]_(Flow!fvars)
<1>1. CASE DupIn(i) \/ DupOut(i) \/ CloseInChild(i)
  <2>1. UNCHANGED <<chan, input>>
    BY <1>1 DEF DupIn, DupOut, CloseInChild, dataVars
  <2>2. \/ \E c \in {"dup_out", "close", "exec"} :
              child' = [child EXCEPT ![i] = c] /\ StageOf(child[i]) = "waiting"
        \/ child' = child
    BY <1>1, StageValues DEF DupIn, DupOut, CloseInChild
  <2>3. stages' = stages
    BY <2>2, SameStages, StageValues DEF stages
  <2> QED
    BY <2>1, <2>3 DEF Flow!fvars
<1>2. CASE Exec(i)
  <2>1. stages[i] = "waiting" /\ stages' = [stages EXCEPT ![i] = "running"]
    <3>1. StageOf("exec") = "waiting" /\ StageOf("run") = "running"
      BY StageValues DEF Ended
    <3> QED
      BY <1>2, <3>1, StageSteps DEF Exec
  <2>2. Flow!Start(i)
    BY <1>2, <2>1 DEF Exec, dataVars, Flow!Start
  <2> QED
    BY <2>2 DEF Flow!FNext, Flow!Stages
<1>3. CASE ExecFails(i)
  <2>1. stages[i] = "waiting" /\ stages' = [stages EXCEPT ![i] = "failed"]
    <3>1. StageOf("exec") = "waiting" /\ StageOf("failed") = "failed"
      BY StageValues DEF Ended
    <3> QED
      BY <1>3, <3>1, StageSteps DEF ExecFails, Exit
  <2>2. Flow!Stop(i)
    BY <1>3, <2>1 DEF ExecFails, dataVars, Flow!Stop, Flow!Over
  <2> QED
    BY <2>2 DEF Flow!FNext, Flow!Stages
<1>4. CASE Leave(i)
  <2>1. stages[i] = "running" /\ stages' = [stages EXCEPT ![i] = "end"]
    <3>1. StageOf("run") = "running" /\ StageOf("leave") = "running" /\ StageOf("end") = "end"
      BY StageValues DEF Ended
    <3>2. child' = [child EXCEPT ![i] = "end"]
      BY <1>4 DEF Leave, Exit
    <3>3. StageOf(child[i]) = "running"
      BY <1>4, <3>1 DEF Leave
    <3>4. StageOf("end") = "end"
      BY <3>1
    <3> QED
      BY <3>2, <3>3, <3>4, StageSteps
  <2>2. Flow!Stop(i)
    BY <1>4, <2>1 DEF Leave, dataVars, Flow!Stop, Flow!Over
  <2> QED
    BY <2>2 DEF Flow!FNext, Flow!Stages
<1>5. CASE ReadItem(i) \/ ReadEof(i) \/ WriteItem(i) \/ WriteFails(i)
  BY <1>5, ReadItemFlow, ReadEofFlow, WriteItemFlow, WriteFailsFlow
     DEF Flow!FNext, Flow!Stages
<1> QED
  BY <1>1, <1>2, <1>3, <1>4, <1>5 DEF Child

\* The descriptors that simpsh leaves open make a pipeline behave as its users
\* take it to: no stage sees an end of input before the stage on its left is
\* over, and none is stopped from writing before the one on its right is.
THEOREM Refinement == Spec => ImplementsFlow
<1>1. IInv /\ [Next]_vars => [Flow!FNext]_(Flow!fvars)
  <2> SUFFICES ASSUME IInv, [Next]_vars PROVE [Flow!FNext]_(Flow!fvars)
    OBVIOUS
  <2>1. CASE Shell
    BY <2>1, ShellFlow
  <2>2. CASE \E i \in Stage : Child(i)
    BY <2>2, ChildFlow
  <2>3. CASE UNCHANGED vars
    BY <2>3 DEF vars, childVars, dataVars, stages, Flow!fvars
  <2> QED
    BY <2>1, <2>2, <2>3 DEF Next, Stopped
<1> QED
  BY <1>1, InitFlow, Invariance, PTL DEF Spec, ImplementsFlow, Flow!FSpec
=============================================================================
