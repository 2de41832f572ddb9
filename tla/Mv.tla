--------------------------------- MODULE Mv ---------------------------------
(***************************************************************************)
(* mv (src/file/mv.c): rename, or copy and delete where the destination is *)
(* on another device, one system call a step.                              *)
(*                                                                         *)
(* A command is what the options leave in opts and the operands:           *)
(*   letters  the -i, -f, -n of the command line, in order                 *)
(*   backup   "none", "simple" or "numbered"                               *)
(*   update   "all", "none", "none-fail" or "older"                        *)
(*   noCopy, noTarget (-T), target (-t), exchange    flags                 *)
(*   operands the sources, then the destination; with -t the destination   *)
(*            comes first in this record, wherever the option stood        *)
(*                                                                         *)
(* Kept as it is: no_clobber is read by no decision of move_single         *)
(* (mv.c:273 only words an error with it), the answer to a prompt is one   *)
(* character and the rest of the line answers the next prompt, mkdir's     *)
(* result is ignored, and is_dir follows a link while removing.            *)
(***************************************************************************)
EXTENDS FileTree, FiniteSets

CONSTANTS
    MvLines,      \* the lines a user types at a prompt, as "y" and "n" characters
    BackupLimit   \* get_backup_name looks at this many numbered names (1000)

ASSUME BackupLimitAssumption == BackupLimit \in Nat \ {0}

VARIABLES
    cmd,      \* the command line
    mpc,      \* where mv is
    sources,  \* the operands still to move
    dest,     \* the destination
    src,      \* move_single: its source
    final,    \* move_single: final_dest
    frames,   \* copy_dir and remove_dir: the calls there are, innermost first
    copying,  \* copy_file: <<from, to>>, or <<>>
    prior     \* the tree when move_single was called

mvVars == <<cmd, mpc, sources, dest, src, final, frames, copying, prior>>

(* -i, -f and -n: each clears the other two. *)
Overwrite == IF cmd.letters = <<>> THEN "default" ELSE Last(cmd.letters)

Die    == mpc' = "died"
MvKeep == UNCHANGED <<cmd, sources, dest, src, final, prior>>

(* The operands, --exchange's swap of the two names included. *)
Operands ==
    /\ mpc = "start"
    /\ LET ops  == cmd.operands
           to   == IF cmd.target THEN Head(ops) ELSE Last(ops)
           from == IF cmd.target THEN Tail(ops) ELSE Front(ops)
       IN  IF \/ Len(ops) < 2
              \/ (cmd.target \/ (Len(from) > 1 /\ ~cmd.noTarget)) /\ ~IsDir(tree, to)
              \/ cmd.exchange /\ Len(from) # 1
           THEN Die /\ UNCHANGED <<sources, dest>>
           ELSE /\ mpc' = "next"
                /\ sources' = IF cmd.exchange THEN <<to>> ELSE from
                /\ dest' = IF cmd.exchange THEN from[1] ELSE to
    /\ UNCHANGED <<tree, typed, cmd, src, final, frames, copying, prior>>

(* The loop over the sources, up to move_single's own name for the place:  *)
(* inside the destination when that is a directory.                        *)
NextSource ==
    /\ mpc = "next"
    /\ sources # <<>>
    /\ LET s == Head(sources)
       IN  IF ~Exists(tree, s)
           THEN Die /\ UNCHANGED <<sources, src, final, prior>>
           ELSE /\ mpc' = "decide"
                /\ sources' = Tail(sources)
                /\ src' = s
                /\ final' = IF ~cmd.noTarget /\ IsDir(tree, dest)
                            THEN Append(dest, Last(s)) ELSE dest
                /\ prior' = tree
    /\ UNCHANGED <<tree, typed, cmd, dest, frames, copying>>

MvExit ==
    /\ mpc = "next"
    /\ sources = <<>>
    /\ mpc' = "exit0"
    /\ UNCHANGED <<tree, typed, frames, copying>> /\ MvKeep

(* need_update and whether there is something to ask. *)
Decide ==
    /\ mpc = "decide"
    /\ \E newer \in BOOLEAN :
         LET there  == Exists(tree, final)
             needed == CASE ~there -> TRUE
                         [] cmd.update = "none" -> FALSE
                         [] cmd.update = "older" -> newer
                         [] OTHER -> TRUE
         IN  mpc' = IF there /\ cmd.update = "none-fail" THEN "died"
                    ELSE IF ~needed THEN "next"
                    ELSE IF there /\ Overwrite = "i" THEN "prompt"
                    ELSE "backup"
    /\ UNCHANGED <<tree, typed, frames, copying>> /\ MvKeep

(* prompt_override reads one character: what an earlier line left, or the  *)
(* first of a line typed now.                                              *)
PromptOverride ==
    /\ mpc = "prompt"
    /\ \E line \in IF typed = <<>> THEN MvLines ELSE {typed} :
         /\ mpc' = IF Head(line) = "y" THEN "backup" ELSE "next"
         /\ typed' = Tail(line)
    /\ UNCHANGED <<tree, frames, copying>> /\ MvKeep

(* get_backup_name: the suffix, or the first free number below the limit.  *)
Numbered(p, n) == [p EXCEPT ![Len(p)].marks = Append(@, n)]
BackupName(t, p) ==
    IF cmd.backup = "simple" THEN Numbered(p, Simple)
    ELSE LET free == {n \in 1..BackupLimit : ~Exists(t, Numbered(p, n))}
         IN  Numbered(p, IF free = {} THEN BackupLimit + 1
                         ELSE CHOOSE n \in free : \A m \in free : n <= m)

CreateBackup ==
    /\ mpc = "backup"
    /\ IF cmd.backup = "none" \/ ~Exists(tree, final)
       THEN mpc' = "rename" /\ UNCHANGED tree
       ELSE LET name == BackupName(tree, final)
            IN  \/ /\ RenameError(tree, final, name) = "none"
                   /\ tree' = Renamed(tree, final, name)
                   /\ mpc' = "rename"
                \/ /\ CallsFail \/ RenameError(tree, final, name) # "none"
                   /\ Die /\ UNCHANGED tree
    /\ UNCHANGED <<typed, frames, copying>> /\ MvKeep

(* rename, and what its errors lead to. *)
TryRename ==
    /\ mpc = "rename"
    /\ UNCHANGED <<typed, copying>> /\ MvKeep
    /\ LET error == RenameError(tree, src, final)
       IN  \/ /\ error = "none"
              /\ tree' = Renamed(tree, src, final)
              /\ mpc' = "moved"
              /\ UNCHANGED frames
           \/ /\ error = "other" \/ CallsFail \/ (error = "xdev" /\ cmd.noCopy)
              /\ Die /\ UNCHANGED <<tree, frames>>
           \/ /\ error = "xdev" /\ ~cmd.noCopy
              /\ mpc' = IF IsDir(tree, src) THEN "copydir" ELSE "copyfile"
              /\ frames' = IF IsDir(tree, src)
                           THEN <<[from |-> src, to |-> final, left |-> {}, in |-> FALSE]>>
                           ELSE <<>>
              /\ UNCHANGED tree

Moved ==
    /\ mpc = "moved"
    /\ mpc' = "next"
    /\ UNCHANGED <<tree, typed, frames, copying>> /\ MvKeep

-----------------------------------------------------------------------------
(* copy_dir: make the directory, whatever mkdir says, and list the source. *)
CopyDirEnter ==
    /\ mpc = "copydir"
    /\ ~Head(frames).in
    /\ LET f == Head(frames)
       IN  /\ \/ CanMkdir(tree, f.to) /\ tree' = Made(tree, f.to)
              \/ (CallsFail \/ ~CanMkdir(tree, f.to)) /\ UNCHANGED tree
           /\ \/ /\ frames' = <<[f EXCEPT !.in = TRUE, !.left = Listed(tree, f.from)]>>
                              \o Tail(frames)
                 /\ UNCHANGED mpc
              \/ CallsFail /\ Die /\ UNCHANGED frames
    /\ UNCHANGED <<typed, copying>> /\ MvKeep

(* One entry: a directory is a call of its own, a file is copied. *)
CopyEntry ==
    /\ mpc = "copydir"
    /\ Head(frames).in
    /\ \E name \in Head(frames).left :
         LET f     == Head(frames)
             from  == Append(f.from, name)
             to    == Append(f.to, name)
             after == <<[f EXCEPT !.left = @ \ {name}]>> \o Tail(frames)
         IN  IF IsDir(tree, from)
             THEN /\ frames' = <<[from |-> from, to |-> to, left |-> {}, in |-> FALSE]>>
                               \o after
                  /\ UNCHANGED <<mpc, copying>>
             ELSE /\ frames' = after
                  /\ mpc' = "copyfile"
                  /\ copying' = <<from, to>>
    /\ UNCHANGED <<tree, typed>> /\ MvKeep

(* closedir: back to the caller, or on to removing the source. *)
CopyDirLeave ==
    /\ mpc = "copydir"
    /\ Head(frames).in
    /\ Head(frames).left = {}
    /\ IF Len(frames) > 1
       THEN frames' = Tail(frames) /\ UNCHANGED mpc
       ELSE /\ mpc' = "rmdir"
            /\ frames' = <<[path |-> src, left |-> {}, in |-> FALSE]>>
    /\ UNCHANGED <<tree, typed, copying>> /\ MvKeep

(* copy_file: both files are opened, the destination emptied ... *)
CopyOpen ==
    /\ mpc = "copyfile"
    /\ LET pair == IF frames = <<>> THEN <<src, final>> ELSE copying
       IN  \/ /\ CanTruncate(tree, pair[2]) /\ Exists(tree, pair[1])
              /\ tree' = Truncated(tree, pair[2])
              /\ copying' = pair
              /\ mpc' = "copydata"
           \/ /\ CallsFail \/ ~CanTruncate(tree, pair[2]) \/ ~Exists(tree, pair[1])
              /\ Die /\ UNCHANGED <<tree, copying>>
    /\ UNCHANGED <<typed, frames>> /\ MvKeep

\* Mutant of CopyData: a short write is not noticed.
CopyData_ShortWrite ==
    /\ mpc = "copydata"
    /\ \/ /\ tree' = With(tree, Follow(tree, copying[2]), File(Reads(tree, copying[1])))
          /\ mpc' = IF frames = <<>> THEN "unlink" ELSE "copydir"
       \/ /\ CallsFail
          /\ mpc' = IF frames = <<>> THEN "unlink" ELSE "copydir"
          /\ UNCHANGED tree
    /\ copying' = <<>>
    /\ UNCHANGED <<typed, frames>> /\ MvKeep

(* ... and the bytes are written, or not all of them are. *)
CopyData ==
    /\ mpc = "copydata"
    /\ \/ /\ tree' = With(tree, Follow(tree, copying[2]), File(Reads(tree, copying[1])))
          /\ mpc' = IF frames = <<>> THEN "unlink" ELSE "copydir"
       \/ CallsFail /\ Die /\ UNCHANGED tree
    /\ copying' = <<>>
    /\ UNCHANGED <<typed, frames>> /\ MvKeep

\* Mutant of UnlinkSource: the result of unlink is not looked at.
UnlinkSource_Unchecked ==
    /\ mpc = "unlink"
    /\ \/ tree' = Without(tree, At(tree, src)) /\ mpc' = "moved"
       \/ CallsFail /\ mpc' = "moved" /\ UNCHANGED tree
    /\ UNCHANGED <<typed, frames, copying>> /\ MvKeep

UnlinkSource ==
    /\ mpc = "unlink"
    /\ \/ tree' = Without(tree, At(tree, src)) /\ mpc' = "moved"
       \/ CallsFail /\ Die /\ UNCHANGED tree
    /\ UNCHANGED <<typed, frames, copying>> /\ MvKeep

(* remove_dir, which takes a link to a directory for a directory. *)
RemoveDirEnter ==
    /\ mpc = "rmdir"
    /\ ~Head(frames).in
    /\ \/ /\ frames' = <<[Head(frames) EXCEPT !.in = TRUE,
                                              !.left = Listed(tree, Head(frames).path)]>>
                       \o Tail(frames)
          /\ UNCHANGED mpc
       \/ CallsFail /\ Die /\ UNCHANGED frames
    /\ UNCHANGED <<tree, typed, copying>> /\ MvKeep

RemoveEntry ==
    /\ mpc = "rmdir"
    /\ Head(frames).in
    /\ \E name \in Head(frames).left :
         LET f     == Head(frames)
             child == Append(f.path, name)
             after == <<[f EXCEPT !.left = @ \ {name}]>> \o Tail(frames)
         IN  IF IsDir(tree, child)
             THEN /\ frames' = <<[path |-> child, left |-> {}, in |-> FALSE]>> \o after
                  /\ UNCHANGED <<tree, mpc>>
             ELSE \/ /\ tree' = Without(tree, At(tree, child))
                     /\ frames' = after /\ UNCHANGED mpc
                  \/ CallsFail /\ Die /\ UNCHANGED <<tree, frames>>
    /\ UNCHANGED <<typed, copying>> /\ MvKeep

RemoveDirLeave ==
    /\ mpc = "rmdir"
    /\ Head(frames).in
    /\ Head(frames).left = {}
    /\ LET p == Head(frames).path
       IN  \/ /\ CanRmdir(tree, p)
              /\ tree' = Without(tree, At(tree, p))
              /\ frames' = Tail(frames)
              /\ mpc' = IF Len(frames) > 1 THEN "rmdir" ELSE "moved"
           \/ /\ CallsFail \/ ~CanRmdir(tree, p)
              /\ Die /\ UNCHANGED <<tree, frames>>
    /\ UNCHANGED <<typed, copying>> /\ MvKeep

MvInit(command) ==
    /\ cmd = command
    /\ mpc = "start"
    /\ sources = <<>>
    /\ dest = <<>>
    /\ src = <<>>
    /\ final = <<>>
    /\ frames = <<>>
    /\ copying = <<>>
    /\ prior = tree

MvNext ==
    \/ Operands \/ NextSource \/ MvExit \/ Decide \/ PromptOverride
    \/ CreateBackup \/ TryRename \/ Moved
    \/ CopyDirEnter \/ CopyEntry \/ CopyDirLeave \/ CopyOpen \/ CopyData
    \/ UnlinkSource \/ RemoveDirEnter \/ RemoveEntry \/ RemoveDirLeave
=============================================================================
