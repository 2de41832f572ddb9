------------------------------ MODULE FileTools ------------------------------
(***************************************************************************)
(* The tools on one tree: a behaviour is a run of mv (Mv), of rm (Rm), or  *)
(* of mkdir, truncate, mkfifo, link or unlink (Makers).  Every state is    *)
(* one that a kill may leave behind, so what holds of every state holds    *)
(* after an interrupted run too.                                           *)
(***************************************************************************)
EXTENDS Mv, Rm, Makers

CONSTANTS
    Trees,        \* the trees a run may start on
    MvCommands,   \* the command lines of mv
    RmCommands,   \* those of rm: [options, operands]
    MakerCommands \* those of the others

(* A run starts on a tree, with operands that are paths. *)
ASSUME TreesAssumption == \A t \in Trees : IsTree(t)
ASSUME MvCommandsAssumption == \A c \in MvCommands : c.operands \in Seq(Path)
ASSUME RmCommandsAssumption == \A c \in RmCommands : c.operands \in Seq(Path)
ASSUME MakerCommandsAssumption ==
    /\ "755" \in Base
    /\ \A c \in MakerCommands :
         /\ c.name \in {"mkdir", "truncate", "mkfifo", "link", "unlink"}
         /\ c.operands \in Seq(Path) \ {<<>>}
         /\ c.size \in Nat
         /\ c.name = "link" => Len(c.operands) = 2

VARIABLE tool     \* which of them runs

vars == <<tree, typed, mvVars, rmVars, makerVars, tool>>

MvIdle == MvInit(CHOOSE c \in MvCommands : TRUE)
RmIdle == RmInit({}, <<>>)
MakerIdle == MakerInit(CHOOSE c \in MakerCommands : TRUE)

Init ==
    /\ tree \in Trees
    /\ typed = <<>>
    /\ \/ /\ tool = "mv" /\ RmIdle /\ MakerIdle
          /\ \E c \in MvCommands : MvInit(c)
       \/ /\ tool = "rm" /\ MvIdle /\ MakerIdle
          /\ \E c \in RmCommands : RmInit(c.options, c.operands)
       \/ /\ tool = "maker" /\ MvIdle /\ RmIdle
          /\ \E c \in MakerCommands : MakerInit(c)

Stopped == mpc \in {"exit0", "died"} \/ rpc = "exit" \/ kpc = "exit"

Next ==
    \/ tool = "mv" /\ MvNext /\ UNCHANGED <<rmVars, makerVars, tool>>
    \/ tool = "rm" /\ RmNext /\ UNCHANGED <<mvVars, makerVars, tool>>
    \/ tool = "maker" /\ MakerNext /\ UNCHANGED <<mvVars, rmVars, tool>>
    \/ Stopped /\ UNCHANGED vars

Spec == Init /\ [][Next]_vars

-----------------------------------------------------------------------------
(* The links at or below a path, and what is at or below the path or where *)
(* one of them leads.                                                      *)
LinksIn(t, q)   == {x \in DOMAIN t : AtOrBelow(x, q) /\ t[x].kind = "link"}
Beyond(t, p, q) == \E x \in {q} \cup {t[k].to : k \in LinksIn(t, q)} : AtOrBelow(p, x)

(* What the move of src to final may replace: with no backup, what is at   *)
(* final or below it, or where a link there leads, which open follows;     *)
(* with one, only a file that has the backup's name.                       *)
MayReplace(p) ==
    IF cmd.backup = "none" THEN Beyond(prior, p, At(prior, final))
    ELSE p = At(prior, BackupName(prior, final))

(* A link of the source or the destination that leads into one of the two, *)
(* or where another leads: mv, which follows both, then meets one file as  *)
(* two and may write over what it has copied or remove it.                 *)
Tangled ==
    LET ends == {At(prior, src), At(prior, final)}
        links == UNION {LinksIn(prior, p) : p \in ends}
        meets(p, q) == AtOrBelow(p, q) \/ AtOrBelow(q, p)
    IN  \E x \in links :
            \/ \E p \in ends : meets(prior[x].to, p)
            \/ \E y \in links \ {x} : meets(prior[x].to, prior[y].to)

(* NothingLost: at every step of a move, of a copy between devices that is *)
(* cut short too, every content there was before the move of this source   *)
(* is whole in some file, unless it is one mv was told to replace.         *)
NothingLost ==
    src # <<>> /\ ~Tangled =>
        \A p \in DOMAIN prior :
            prior[p].kind = "file" /\ ~MayReplace(p) => prior[p].content \in Contents(tree)

(* MovedWhole: when mv is done with a source, every file of it reads the   *)
(* same below the destination and the source is gone from its place.  Not  *)
(* so for a directory that holds no file, which is lost when mkdir fails   *)
(* (copy_dir ignores its result), nor for a source with the very name the  *)
(* backup of its destination gets (create_backup renames over it).         *)
SourceReplaced == /\ cmd.backup # "none" /\ Exists(prior, final)
                  /\ At(prior, BackupName(prior, final)) = At(prior, src)

MovedWhole ==
    mpc = "moved" /\ ~SourceReplaced /\ ~Tangled =>
        /\ \A p \in DOMAIN prior :
             AtOrBelow(p, At(prior, src)) /\ prior[p].kind # "dir" =>
                 Reads(tree, final \o Below(p, At(prior, src))) = Reads(prior, p)
        /\ At(prior, src) = At(prior, final) \/ At(prior, src) \notin DOMAIN tree

(* OnlyNamed: what no tool was told of stays as it is.  rm follows no link *)
(* and leaves a file that the user refused it unless -f is given (a link   *)
(* named again is not asked about again when the protected file it led to  *)
(* has gone, and a directory refused is entered and may be named again).   *)
(* mv follows the links to directories that it meets below a source, and   *)
(* empties what they lead to.  mkdir, mkfifo and link replace nothing.     *)
MvMayTouch(p) ==
    \/ Beyond(prior, p, At(prior, src))
    \/ Beyond(prior, p, At(prior, final))
    \/ cmd.backup # "none" /\ AtOrBelow(p, At(prior, BackupName(prior, final)))

RmMayTouch(p) ==
    /\ \E i \in DOMAIN named : AtOrBelow(p, At(start, named[i]))
    /\ Forced \/ p \notin refused \/ start[p].kind # "file"

OnlyNamed ==
    /\ src # <<>> =>
         \A p \in DOMAIN prior \cup DOMAIN tree :
             ~MvMayTouch(p) => p \in DOMAIN prior /\ p \in DOMAIN tree /\ tree[p] = prior[p]
    /\ tool = "rm" =>
         \A p \in DOMAIN start :
             ~RmMayTouch(p) => p \in DOMAIN tree /\ tree[p] = start[p]
    /\ tool = "maker" =>
         \A p \in DOMAIN before \cup DOMAIN tree :
             ~MakerMayTouch(p) => p \in DOMAIN before /\ p \in DOMAIN tree /\ tree[p] = before[p]

(* StatusIsTrue: rm returns 0 without -f only when all that was named is   *)
(* gone, or the user refused it or a directory above it.  The values of    *)
(* the inner calls are dropped, so what they failed to remove has to show  *)
(* when the outermost directory cannot be removed: it does not when the    *)
(* user, asked about that directory, says no.  The other tools return 0    *)
(* only when every operand was seen to (MakerDid).                         *)
StatusIsTrue ==
    /\ tool = "rm" /\ rpc = "exit" /\ ret = 0 /\ ~Forced =>
         \A i \in DOMAIN named :
             At(start, named[i]) \in DOMAIN tree =>
                 \E p \in refused : AtOrBelow(At(start, named[i]), p)
    /\ tool = "maker" /\ kpc = "exit" /\ retVal = 0 => MakerDid
=============================================================================
