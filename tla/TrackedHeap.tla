---------------------------- MODULE TrackedHeap ----------------------------
(***************************************************************************)
(* What the allocation wrappers of lib/xalloc.c promise to the applets:    *)
(* a set of owned blocks, all of them live, which only their owner         *)
(* releases while the program runs, and all of which are released, each    *)
(* exactly once, before the process is gone.  Xalloc is shown to           *)
(* implement this module.                                                  *)
(***************************************************************************)
CONSTANT Ptr            \* the addresses malloc may return

VARIABLES live,         \* addresses allocated and not yet given to free()
          owned,        \* live addresses the wrappers are responsible for
          stage         \* "running", "exiting" or "exited"

avars == <<live, owned, stage>>

AInit ==
    /\ live = {}
    /\ owned = {}
    /\ stage = "running"

\* A block is handed to an applet and is owned from then on.
Acquire(p) ==
    /\ stage = "running"
    /\ p \notin live
    /\ live' = live \cup {p}
    /\ owned' = owned \cup {p}
    /\ UNCHANGED stage

\* A block obtained behind the wrappers' back (strdup, asprintf).
AcquireForeign(p) ==
    /\ stage = "running"
    /\ p \notin live
    /\ live' = live \cup {p}
    /\ UNCHANGED <<owned, stage>>

\* A live block is given back, whoever obtained it.
Release(p) ==
    /\ stage = "running"
    /\ p \in live
    /\ live' = live \ {p}
    /\ owned' = owned \ {p}
    /\ UNCHANGED stage

\* A live block moves to another address and keeps its owner.
Relocate(p, q) ==
    /\ stage = "running"
    /\ p \in live
    /\ q \notin live \ {p}
    /\ live' = (live \ {p}) \cup {q}
    /\ owned' = IF p \in owned THEN (owned \ {p}) \cup {q} ELSE owned
    /\ UNCHANGED stage

\* The process starts to exit.  A block whose bookkeeping could not be
\* allocated may be left behind as foreign: the process dies with it.
StartExit ==
    /\ stage = "running"
    /\ stage' = "exiting"
    /\ \E lost \in SUBSET (Ptr \ live) : live' = live \cup lost
    /\ UNCHANGED owned

\* While exiting, owned blocks are freed one at a time.
ReleaseAtExit(p) ==
    /\ stage = "exiting"
    /\ p \in owned
    /\ live' = live \ {p}
    /\ owned' = owned \ {p}
    /\ UNCHANGED stage

\* The process is gone only when it owns nothing any more.
Exit ==
    /\ stage = "exiting"
    /\ owned = {}
    /\ stage' = "exited"
    /\ UNCHANGED <<live, owned>>

ANext ==
    \/ \E p \in Ptr :
          Acquire(p) \/ AcquireForeign(p) \/ Release(p) \/ ReleaseAtExit(p)
    \/ \E p, q \in Ptr : Relocate(p, q)
    \/ StartExit
    \/ Exit

ASpec == AInit /\ [][ANext]_avars
=============================================================================
