--------------------------------- MODULE Rm ---------------------------------
(***************************************************************************)
(* rm (src/file/rm.c), one prompt or system call a step.                   *)
(*                                                                         *)
(* The recursion is a stack of calls of remove_directory, innermost first. *)
(* A path goes through the same two prompts wherever it is met: the one    *)
(* for a write-protected path, then the one of -i.                         *)
(*                                                                         *)
(* Kept as it is: a directory named on the command line and declined is    *)
(* entered all the same (rm.c:187-190), -f overrides what -i asked, and    *)
(* fgets takes three characters of an answer and leaves the rest.          *)
(***************************************************************************)
EXTENDS FileTree

CONSTANT RmLines  \* the lines a user types, each as the "y" and "n" fgets makes of it

VARIABLES
    flags,    \* the options: subset of {"f", "i", "r"}
    named,    \* the operands
    rpc,      \* where rm is
    args,     \* the operands still to remove
    calls,    \* remove_directory: the calls there are, innermost first
    asking,   \* the path being decided on, its prompts to come and should_remove
    ret,      \* the status main returns
    refused,  \* history: the files the user, asked last, said no to
    start     \* the tree rm was started on

rmVars == <<flags, named, rpc, args, calls, asking, ret, refused, start>>

Forced == "f" \in flags
NoAsk == [path |-> <<>>, prompts |-> 0, should |-> TRUE]

RmKeep == UNCHANGED <<flags, named, start>>

(* is_readonly stats, and so looks through a link. *)
IsReadonly(p) == Exists(tree, p) /\ tree[Follow(tree, p)].ro

(* The prompts a path is put to, and where rm goes to put them. *)
AskFor(p) ==
    /\ asking' = [path |-> p, should |-> TRUE,
                  prompts |-> (IF ~Forced /\ IsReadonly(p) THEN 1 ELSE 0)
                              + (IF "i" \in flags THEN 1 ELSE 0)]
    /\ rpc' = "ask"

(* main's loop: an operand that lstat does not find, or fails for, a       *)
(* directory without -r, or one to decide on.                              *)
RmOperand ==
    /\ rpc = "next"
    /\ args # <<>>
    /\ args' = Tail(args)
    /\ LET p == Head(args)
           q == At(tree, p)
           there   == q \in DOMAIN tree
           refuses == there /\ tree[q].kind = "dir" /\ "r" \notin flags
       IN  \/ /\ ~there \/ CallsFail
              /\ ret' = IF Forced THEN ret ELSE 1
              /\ UNCHANGED <<rpc, asking>>
           \/ refuses /\ ret' = 1 /\ UNCHANGED <<rpc, asking>>
           \/ there /\ ~refuses /\ AskFor(p) /\ UNCHANGED ret
    /\ UNCHANGED <<tree, typed, calls, refused>> /\ RmKeep

RmExit ==
    /\ rpc = "next"
    /\ args = <<>>
    /\ rpc' = "exit"
    /\ UNCHANGED <<tree, typed, args, calls, asking, ret, refused>> /\ RmKeep

(* prompt_user: what an earlier answer left, or a line typed now.  A no    *)
(* ends the questions about the path.                                      *)
PromptUser ==
    /\ rpc = "ask"
    /\ asking.prompts > 0
    /\ \E line \in IF typed = <<>> THEN RmLines ELSE {typed} :
         LET yes == Head(line) = "y"
         IN  /\ typed' = Tail(line)
             /\ asking' = [asking EXCEPT !.should = yes,
                                         !.prompts = IF yes THEN @ - 1 ELSE 0]
             /\ refused' = IF yes THEN refused \ {At(tree, asking.path)}
                           ELSE refused \cup {At(tree, asking.path)}
    /\ UNCHANGED <<tree, rpc, args, calls, ret>> /\ RmKeep

Answered(p) == rpc = "ask" /\ asking.prompts = 0 /\ asking.path = p
Agreed      == asking.should \/ Forced

(* The path asked about is a directory that has not been entered: always   *)
(* entered, whatever the answer was.                                       *)
EnterDirectory ==
    /\ rpc = "ask"
    /\ asking.prompts = 0
    /\ calls = <<>>
    /\ tree[At(tree, asking.path)].kind = "dir"
    /\ \/ /\ calls' = <<[path |-> asking.path, left |-> Listed(tree, asking.path)]>>
          /\ rpc' = "dir"
          /\ UNCHANGED ret
       \/ CallsFail /\ ret' = 1 /\ rpc' = "next" /\ UNCHANGED calls   \* opendir
    /\ asking' = NoAsk
    /\ UNCHANGED <<tree, typed, args, refused>> /\ RmKeep

\* Mutant of DirectoryEntry: stat in the place of lstat, and so a link to a directory is entered.
DirectoryEntry_Stat ==
    /\ rpc = "dir"
    /\ \E name \in Head(calls).left :
         LET p     == Append(Head(calls).path, name)
             after == <<[Head(calls) EXCEPT !.left = @ \ {name}]>> \o Tail(calls)
         IN  \/ /\ CallsFail             \* lstat of it, or opendir
                /\ calls' = after
                /\ UNCHANGED <<rpc, asking>>
             \/ /\ IsDir(tree, p)
                /\ calls' = <<[path |-> p, left |-> Listed(tree, p)]>> \o after
                /\ UNCHANGED <<rpc, asking>>
             \/ /\ ~IsDir(tree, p)
                /\ calls' = after
                /\ AskFor(p)
    /\ UNCHANGED <<tree, typed, args, ret, refused>> /\ RmKeep

(* One entry of the innermost directory: a directory is a call of its own, *)
(* and the value it returns is dropped; anything else is decided on.       *)
DirectoryEntry ==
    /\ rpc = "dir"
    /\ \E name \in Head(calls).left :
         LET p     == Append(Head(calls).path, name)
             after == <<[Head(calls) EXCEPT !.left = @ \ {name}]>> \o Tail(calls)
         IN  \/ /\ CallsFail             \* lstat of it, or opendir
                /\ calls' = after
                /\ UNCHANGED <<rpc, asking>>
             \/ /\ tree[At(tree, p)].kind = "dir"
                /\ calls' = <<[path |-> p, left |-> Listed(tree, p)]>> \o after
                /\ UNCHANGED <<rpc, asking>>
             \/ /\ tree[At(tree, p)].kind # "dir"
                /\ calls' = after
                /\ AskFor(p)
    /\ UNCHANGED <<tree, typed, args, ret, refused>> /\ RmKeep

(* closedir: now the directory itself is decided on. *)
DirectoryEnd ==
    /\ rpc = "dir"
    /\ Head(calls).left = {}
    /\ AskFor(Head(calls).path)
    /\ UNCHANGED <<tree, typed, args, calls, ret, refused>> /\ RmKeep

(* remove of what is not a directory, in a directory or named on the       *)
(* command line: only the second case is told in the status.               *)
RemovePath ==
    /\ rpc = "ask"
    /\ asking.prompts = 0
    /\ tree[At(tree, asking.path)].kind # "dir"
    /\ \/ /\ Agreed
          /\ tree' = Without(tree, At(tree, asking.path))
          /\ UNCHANGED ret
       \/ /\ Agreed /\ CallsFail
          /\ ret' = IF calls = <<>> /\ ~Forced THEN 1 ELSE ret
          /\ UNCHANGED tree
       \/ ~Agreed /\ UNCHANGED <<tree, ret>>
    /\ rpc' = IF calls = <<>> THEN "next" ELSE "dir"
    /\ asking' = NoAsk
    /\ UNCHANGED <<typed, args, calls, refused>> /\ RmKeep

\* Mutant of RemoveDirectory: main does not look at the value either.
RemoveDirectory_Untold ==
    /\ calls # <<>>
    /\ Answered(Head(calls).path)
    /\ LET p == Head(calls).path
       IN  \/ /\ Agreed /\ CanRmdir(tree, p)
              /\ tree' = Without(tree, At(tree, p))
              /\ UNCHANGED ret
           \/ /\ Agreed /\ (CallsFail \/ ~CanRmdir(tree, p))
              /\ ret' = ret
              /\ UNCHANGED tree
           \/ ~Agreed /\ UNCHANGED <<tree, ret>>
    /\ calls' = Tail(calls)
    /\ rpc' = IF Len(calls) = 1 THEN "next" ELSE "dir"
    /\ asking' = NoAsk
    /\ UNCHANGED <<typed, args, refused>> /\ RmKeep

(* rmdir of the innermost directory, and back to the caller: main alone    *)
(* looks at the value returned.                                            *)
RemoveDirectory ==
    /\ calls # <<>>
    /\ Answered(Head(calls).path)
    /\ LET p == Head(calls).path
       IN  \/ /\ Agreed /\ CanRmdir(tree, p)
              /\ tree' = Without(tree, At(tree, p))
              /\ UNCHANGED ret
           \/ /\ Agreed /\ (CallsFail \/ ~CanRmdir(tree, p))
              /\ ret' = IF Len(calls) = 1 THEN 1 ELSE ret
              /\ UNCHANGED tree
           \/ ~Agreed /\ UNCHANGED <<tree, ret>>
    /\ calls' = Tail(calls)
    /\ rpc' = IF Len(calls) = 1 THEN "next" ELSE "dir"
    /\ asking' = NoAsk
    /\ UNCHANGED <<typed, args, refused>> /\ RmKeep

RmInit(options, operands) ==
    /\ flags = options
    /\ rpc = "next"
    /\ named = operands
    /\ args = operands
    /\ calls = <<>>
    /\ asking = NoAsk
    /\ ret = 0
    /\ refused = {}
    /\ start = tree

RmNext ==
    \/ RmOperand \/ RmExit \/ PromptUser
    \/ EnterDirectory \/ DirectoryEntry \/ DirectoryEnd
    \/ RemovePath \/ RemoveDirectory
=============================================================================
