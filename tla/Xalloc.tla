------------------------------- MODULE Xalloc -------------------------------
(***************************************************************************)
(* The allocation wrappers of lib/xalloc.c as the applets use them: every  *)
(* block a wrapper hands out is on mem_list until xfree() takes it off,    *)
(* and the list is freed when the process exits, either by                 *)
(* allocation_failed() or by the atexit() handler, which are the same      *)
(* function run twice.  List nodes are the elements of a sequence, newest  *)
(* first; what a block contains is left out.                               *)
(***************************************************************************)
EXTENDS Sequences, Naturals

CONSTANT Ptr            \* the addresses malloc may return

VARIABLES heap,         \* addresses allocated and not yet given to free()
          mem_list,     \* ptr field of each node, head of the list first
          eexit,        \* __eexit
          phase,        \* where the process is, see Phases
          curr,         \* the nodes cleanup_all() has still to visit
          handed,       \* blocks the wrappers returned and still answer for
          badFree       \* free() or realloc() was given a dead address

vars == <<heap, mem_list, eexit, phase, curr, handed, badFree>>

\* "running": in an applet; "failing": in the cleanup_all() called by
\* allocation_failed(); "atexit": in the one exit() calls.
Phases == {"running", "failing", "atexit", "exited"}

Elems(s) == {s[i] : i \in 1..Len(s)}

Distinct(s) == \A i, j \in 1..Len(s) : s[i] = s[j] => i = j

\* The list without its i-th node.
Unlink(s, i) == SubSeq(s, 1, i - 1) \o SubSeq(s, i + 1, Len(s))

\* The node a walk from the head that looks for p stops at.
IsFirst(s, p, i) ==
    /\ i \in 1..Len(s)
    /\ s[i] = p
    /\ \A j \in 1..Len(s) : s[j] = p => i <= j

Init ==
    /\ heap = {}
    /\ mem_list = <<>>
    /\ eexit = TRUE
    /\ phase = "running"
    /\ curr = <<>>
    /\ handed = {}
    /\ badFree = FALSE

\* free(p)
Free(p) ==
    /\ heap' = heap \ {p}
    /\ badFree' = (badFree \/ p \notin heap)

\* Mutant of BeginExit: the constructor never registers the handler.
BeginExit_NoHandler(list) ==
    /\ phase' = "atexit"
    /\ curr' = <<>>

\* exit(): the atexit handler starts at the head of what mem_list is now.
BeginExit(list) ==
    /\ phase' = "atexit"
    /\ curr' = list

\* malloc/calloc/strdup succeeds with p and so does the one for the node.
Alloc(p) ==
    /\ phase = "running"
    /\ p \notin heap
    /\ heap' = heap \cup {p}
    /\ mem_list' = <<p>> \o mem_list
    /\ handed' = handed \cup {p}
    /\ UNCHANGED <<eexit, phase, curr, badFree>>

\* The block is there but add_block() finds no memory for its node: it exits
\* at once, whatever __eexit says, with the block on no list.
AllocNodeFails(p) ==
    /\ phase = "running"
    /\ p \notin heap
    /\ heap' = heap \cup {p}
    /\ BeginExit(mem_list)
    /\ UNCHANGED <<mem_list, eexit, handed, badFree>>

\* allocation_failed(): clean up and exit, or let the wrapper return NULL
\* (xrealloc: its argument).
AllocFails ==
    /\ phase = "running"
    /\ eexit
    /\ phase' = "failing"
    /\ curr' = mem_list
    /\ UNCHANGED <<heap, mem_list, eexit, handed, badFree>>

\* Mutant of Realloc: only the head of the list is looked at.
Realloc_HeadOnly(p, q) ==
    /\ phase = "running"
    /\ p \in heap
    /\ q \notin heap \ {p}
    /\ heap' = (heap \ {p}) \cup {q}
    /\ mem_list' = IF mem_list # <<>> /\ Head(mem_list) = p
                   THEN <<q>> \o Tail(mem_list) ELSE mem_list
    /\ handed' = IF p \in handed THEN (handed \ {p}) \cup {q} ELSE handed
    /\ UNCHANGED <<eexit, phase, curr, badFree>>

\* realloc() moves the block from p to q, or leaves it where it is (q = p);
\* the first node that holds p follows it.
Realloc(p, q) ==
    /\ phase = "running"
    /\ p \in heap
    /\ q \notin heap \ {p}
    /\ heap' = (heap \ {p}) \cup {q}
    /\ \/ \E i \in 1..Len(mem_list) :
             /\ IsFirst(mem_list, p, i)
             /\ mem_list' = [mem_list EXCEPT ![i] = q]
       \/ /\ p \notin Elems(mem_list)
          /\ UNCHANGED mem_list
    /\ handed' = IF p \in handed THEN (handed \ {p}) \cup {q} ELSE handed
    /\ UNCHANGED <<eexit, phase, curr, badFree>>

\* xfree(): unlink the first node that holds p, if one does, then free p.
\* Applets also pass it blocks they had from strdup() or asprintf().
XFree(p) ==
    /\ phase = "running"
    /\ p \in heap
    /\ \/ \E i \in 1..Len(mem_list) :
             /\ IsFirst(mem_list, p, i)
             /\ mem_list' = Unlink(mem_list, i)
       \/ /\ p \notin Elems(mem_list)
          /\ UNCHANGED mem_list
    /\ Free(p)
    /\ handed' = handed \ {p}
    /\ UNCHANGED <<eexit, phase, curr>>

\* A block the wrappers know nothing of: plain strdup() or asprintf().
ForeignAlloc(p) ==
    /\ phase = "running"
    /\ p \notin heap
    /\ heap' = heap \cup {p}
    /\ UNCHANGED <<mem_list, eexit, phase, curr, handed, badFree>>

\* Such a block given to free() directly.
ForeignFree(p) ==
    /\ phase = "running"
    /\ p \in heap \ handed
    /\ Free(p)
    /\ UNCHANGED <<mem_list, eexit, phase, curr, handed>>

SetExit(b) ==                   \* xallocDisableExit(), xallocEnableExit()
    /\ phase = "running"
    /\ eexit' = b
    /\ UNCHANGED <<heap, mem_list, phase, curr, handed, badFree>>

\* Mutant of Exit: the process leaves through _exit().
Exit_NoAtexit ==
    /\ phase = "running"
    /\ phase' = "exited"
    /\ UNCHANGED <<heap, mem_list, eexit, curr, handed, badFree>>

\* main() returns or an applet calls exit().
Exit ==
    /\ phase = "running"
    /\ BeginExit(mem_list)
    /\ UNCHANGED <<heap, mem_list, eexit, handed, badFree>>

\* One round of the loop of cleanup_all().
CleanupStep ==
    /\ phase \in {"failing", "atexit"}
    /\ curr # <<>>
    /\ Free(Head(curr))
    /\ handed' = handed \ {Head(curr)}
    /\ curr' = Tail(curr)
    /\ UNCHANGED <<mem_list, eexit, phase>>

\* Mutant of CleanupEnd: mem_list is not reset to NULL.
CleanupEnd_KeepsList ==
    /\ phase \in {"failing", "atexit"}
    /\ curr = <<>>
    /\ phase' = IF phase = "failing" THEN "atexit" ELSE "exited"
    /\ curr' = mem_list
    /\ UNCHANGED <<heap, mem_list, eexit, handed, badFree>>

\* Mutant of CleanupEnd: allocation_failed() retries instead of exiting.
CleanupEnd_NoExit ==
    /\ phase \in {"failing", "atexit"}
    /\ curr = <<>>
    /\ mem_list' = <<>>
    /\ phase' = IF phase = "failing" THEN "failing" ELSE "exited"
    /\ curr' = mem_list'
    /\ UNCHANGED <<heap, eexit, handed, badFree>>

\* cleanup_all() leaves an empty list behind; after allocation_failed() the
\* handler then runs it once more.
CleanupEnd ==
    /\ phase \in {"failing", "atexit"}
    /\ curr = <<>>
    /\ mem_list' = <<>>
    /\ phase' = IF phase = "failing" THEN "atexit" ELSE "exited"
    /\ curr' = mem_list'
    /\ UNCHANGED <<heap, eexit, handed, badFree>>

Next ==
    \/ \E p \in Ptr : \/ Alloc(p) \/ AllocNodeFails(p)
                      \/ XFree(p)
                      \/ ForeignAlloc(p) \/ ForeignFree(p)
    \/ \E p, q \in Ptr : Realloc(p, q)
    \/ AllocFails
    \/ \E b \in BOOLEAN : SetExit(b)
    \/ Exit
    \/ CleanupStep
    \/ CleanupEnd

Spec == Init /\ [][Next]_vars

FairSpec == Spec /\ WF_vars(CleanupStep) /\ WF_vars(CleanupEnd)

-----------------------------------------------------------------------------
TypeOK ==
    /\ heap \subseteq Ptr
    /\ mem_list \in Seq(Ptr)
    /\ eexit \in BOOLEAN
    /\ phase \in Phases
    /\ curr \in Seq(Ptr)
    /\ handed \subseteq Ptr
    /\ badFree \in BOOLEAN

\* Nothing is freed twice and nothing that was never allocated is freed:
\* not by xfree(), not by the cleanup that allocation_failed() runs, and not
\* by the second cleanup that exit() then runs over the same list.
NoBadFree == ~badFree

\* While the program runs, mem_list holds the blocks the applets had from
\* the wrappers and have not returned, each of them once: a realloc that
\* moves a block and an xfree() from the middle of the list keep it so.
ListIsHanded ==
    phase = "running" =>
        /\ Elems(mem_list) = handed
        /\ Distinct(mem_list)

\* When the process is gone, by either way out, every block the wrappers
\* answered for has been freed.
NoLeakAtExit == phase = "exited" => handed = {}

\* An exit that was started ends: neither cleanup goes round in circles.
ExitEnds == (phase \in {"failing", "atexit"}) ~> (phase = "exited")

\* The wrappers keep the promise stated in TrackedHeap.
Abstract == INSTANCE TrackedHeap
                WITH live  <- heap,
                     owned <- handed,
                     stage <- CASE phase = "running" -> "running"
                                [] phase = "exited"  -> "exited"
                                [] OTHER             -> "exiting"
ImplementsTrackedHeap == Abstract!ASpec

=============================================================================
