------------------------------ MODULE Monicall -------------------------------
(***************************************************************************)
(* others/monicall.c: a program is run under ptrace, and each system call  *)
(* that has a catcher is printed with what it returned.                    *)
(*                                                                         *)
(* The program is external: a sequence of what it does, each a call, the   *)
(* call that ends it, or a signal that comes to it.                        *)
(***************************************************************************)
EXTENDS Integers, Sequences, SequencesExt

CONSTANT TraceFails     \* may fork(), execvp() and ptrace() fail?

VARIABLES
    program,    \* what the traced process has still to do
    inside,     \* is it stopped at the entry of the call at the head?
    tracee,     \* none | stopped | free | gone
    catchers,   \* the list m, each the number of a call
    mpc,        \* start | run | entered | detach | cleanup | exit | undefined
    catcher,    \* was one found for the call that was entered?
    trace,      \* what was printed
    whole0      \* history variable: the program as it was started

moniVars == <<program, inside, tracee, catchers, mpc, catcher, trace, whole0>>

Call(num, ret) == [kind |-> "call", num |-> num, ret |-> ret]
ExitCall(num) == [kind |-> "exit", num |-> num, ret |-> 0]
Signal == [kind |-> "signal", num |-> -1, ret |-> 0]

MoniInit(todo, listed) ==
    /\ program = todo /\ whole0 = todo /\ inside = FALSE /\ tracee = "none"
    /\ catchers = FoldLeft(LAMBDA m, num : <<num>> \o m, <<>>, listed)     \* addCatcher
    /\ mpc = "start" /\ catcher = FALSE /\ trace = <<>>

findCatcher(num) == num \in ToSet(catchers)

MoniKeep == UNCHANGED <<catchers, whole0>>
Doing == Head(program)
Stops(kinds) == tracee = "stopped" /\ program # <<>> /\ Doing.kind \in kinds

MoniForkFails ==
    /\ mpc = "start" /\ TraceFails
    /\ mpc' = "cleanup"
    /\ MoniKeep /\ UNCHANGED <<program, inside, tracee, catcher, trace>>

(* The stop after execvp, or the end of a child that could not execute.    *)
MoniStart ==
    /\ mpc = "start"
    /\ mpc' = "run" /\ tracee' \in IF TraceFails THEN {"stopped", "gone"} ELSE {"stopped"}
    /\ MoniKeep /\ UNCHANGED <<program, inside, catcher, trace>>

(* PTRACE_SYSCALL to the entry of a call.                                  *)
MoniEntry ==
    /\ mpc = "run" /\ Stops({"call", "exit"})
    /\ inside' = TRUE
    /\ \/ /\ catcher' = findCatcher(Doing.num)
          /\ trace' = IF catcher' THEN Append(trace, <<"call", Doing.num>>) ELSE trace
          /\ mpc' = "entered"
       \/ TraceFails /\ mpc' = "detach" /\ UNCHANGED <<catcher, trace>>
    /\ MoniKeep /\ UNCHANGED <<program, tracee>>

(* Any other stop is taken for the end.                                    *)
MoniOther ==
    /\ mpc = "run" /\ Stops({"signal"})
    /\ mpc' = "detach"
    /\ MoniKeep /\ UNCHANGED <<program, inside, tracee, catcher, trace>>

MoniGone ==
    /\ mpc = "run" /\ (tracee = "gone" \/ program = <<>> \/ TraceFails)
    /\ tracee' = "gone" /\ mpc' = "detach"
    /\ MoniKeep /\ UNCHANGED <<program, inside, catcher, trace>>

(* PTRACE_SYSCALL to the exit of the call.                                 *)
\* Mutant of MoniReturn: what a call returned is printed without its catcher, too
MoniReturn_AllCalls ==
    /\ mpc = "entered" /\ Stops({"call"})
    /\ inside' = FALSE /\ program' = Tail(program)
    /\ trace' = Append(trace, <<"return", Doing.ret>>) /\ mpc' = "run"
    /\ MoniKeep /\ UNCHANGED <<tracee, catcher>>

MoniReturn ==
    /\ mpc = "entered" /\ Stops({"call"})
    /\ inside' = FALSE /\ program' = Tail(program)
    /\ \/ /\ trace' = IF catcher THEN Append(trace, <<"return", Doing.ret>>) ELSE trace
          /\ mpc' = "run"
       \/ TraceFails /\ mpc' = "detach" /\ UNCHANGED trace
    /\ MoniKeep /\ UNCHANGED <<tracee, catcher>>

(* The call does not return; this is printed of calls without a catcher,   *)
(* too.                                                                    *)
MoniNoReturn ==
    /\ mpc = "entered" /\ (Stops({"exit"}) \/ TraceFails)
    /\ tracee' = "gone" /\ trace' = Append(trace, <<"?">>) /\ mpc' = "detach"
    /\ MoniKeep /\ UNCHANGED <<program, inside, catcher>>

(* A signal that stopped the program is not given to it.                   *)
MoniDetach ==
    /\ mpc = "detach"
    /\ tracee' = IF tracee = "stopped" THEN "free" ELSE tracee
    /\ program' = IF ~inside /\ Stops({"signal"}) THEN Tail(program) ELSE program
    /\ mpc' = "cleanup"
    /\ MoniKeep /\ UNCHANGED <<inside, catcher, trace>>

(* A node is freed and then asked for the next one.                        *)
MoniFree ==
    /\ mpc = "cleanup" /\ catchers # <<>>
    /\ \/ catchers' = Tail(catchers) /\ UNCHANGED mpc
       \/ mpc' = "undefined" /\ UNCHANGED catchers
    /\ UNCHANGED <<program, inside, tracee, catcher, trace, whole0>>

MoniExit ==
    /\ mpc = "cleanup" /\ catchers = <<>>
    /\ mpc' = "exit"
    /\ MoniKeep /\ UNCHANGED <<program, inside, tracee, catcher, trace>>

MoniNext ==
    \/ MoniForkFails \/ MoniStart \/ MoniEntry \/ MoniOther \/ MoniGone
    \/ MoniReturn \/ MoniNoReturn \/ MoniDetach \/ MoniFree \/ MoniExit

-----------------------------------------------------------------------------
(* MoniImage: while the program runs, the trace has its calls so far that  *)
(* have a catcher, each with the value it returned, and the one it is in.  *)
MoniImage ==
    LET made == SubSeq(whole0, 1, Len(whole0) - Len(program))
        printed == FlattenSeq([k \in DOMAIN made |->
                       IF findCatcher(made[k].num)
                         THEN <<<<"call", made[k].num>>, <<"return", made[k].ret>>>> ELSE <<>>])
    IN mpc \in {"run", "entered"} =>
         trace = printed \o (IF mpc = "entered" /\ catcher THEN <<<<"call", Doing.num>>>> ELSE <<>>)
=============================================================================
