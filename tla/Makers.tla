------------------------------- MODULE Makers -------------------------------
(***************************************************************************)
(* mkdir, truncate, mkfifo, link and unlink (src/file): tools that make    *)
(* one or two system calls for each operand, one call a step.              *)
(*                                                                         *)
(* Kept as it is: mkdir takes the word behind -m for a directory too, and  *)
(* drops what create_parent returns; mkfifo stops at its first failure;    *)
(* unlink looks at its first operand only.                                 *)
(***************************************************************************)
EXTENDS FileTree

VARIABLES
    maker,     \* the command: [name, letters, size, operands]
    kpc,       \* next | opened | exit
    left,      \* the operands still to be seen to
    depth,     \* mkdir -p: the names of the operand that are made
    retVal,    \* the status main returns
    before     \* the tree the tool was started on

makerVars == <<maker, kpc, left, depth, retVal, before>>

Mode == <<Plain("755")>>      \* the word behind -m
Fifo == [kind |-> "fifo", ro |-> FALSE]

Does(name) == maker.name = name
Has(letter) == letter \in maker.letters

(* The words mkdir makes directories of: all that do not begin with "-".   *)
Words(command) ==
    IF command.name = "mkdir" /\ "m" \in command.letters
      THEN <<Mode>> \o command.operands
      ELSE IF command.name = "unlink" THEN <<Head(command.operands)>> ELSE command.operands

MakerInit(command) ==
    /\ maker = command /\ kpc = "next" /\ left = Words(command)
    /\ depth = 0 /\ retVal = 0 /\ before = tree

MakerKeep == UNCHANGED <<typed, maker, before>>

AtOperand == kpc = "next" /\ left # <<>>

(* The next operand, with the status so far or with a failure told in it.  *)
Done == left' = Tail(left) /\ kpc' = "next" /\ depth' = 0 /\ UNCHANGED retVal
Failed == left' = Tail(left) /\ kpc' = "next" /\ depth' = 0 /\ retVal' = 1

Mkdir ==
    /\ AtOperand /\ Does("mkdir") /\ ~Has("p")
    /\ LET p == Head(left)
       IN  \/ CanMkdir(tree, p) /\ tree' = Made(tree, p) /\ Done
           \/ (CallsFail \/ ~CanMkdir(tree, p)) /\ UNCHANGED tree /\ Failed
    /\ MakerKeep

(* create_parent: a name that is there, whatever it is, is passed over; any *)
(* other failure ends the operand, and only the status does not tell.      *)
CreateParent ==
    /\ AtOperand /\ Does("mkdir") /\ Has("p")
    /\ LET p == SubSeq(Head(left), 1, depth + 1)
           there == At(tree, p) \in DOMAIN tree
           further == IF depth + 1 = Len(Head(left)) THEN Done
                      ELSE depth' = depth + 1 /\ UNCHANGED <<left, kpc, retVal>>
       IN  \/ CanMkdir(tree, p) /\ tree' = Made(tree, p) /\ further
           \/ there /\ UNCHANGED tree /\ further
           \/ ~there /\ (CallsFail \/ ~CanMkdir(tree, p)) /\ UNCHANGED tree /\ Done
    /\ MakerKeep

(* truncate_file: stat, then open, which makes a file that is not there.   *)
TruncateOpen ==
    /\ AtOperand /\ Does("truncate")
    /\ LET p == Head(left)
           creates == ~Exists(tree, p) /\ ~Has("c") /\ HasParent(tree, Follow(tree, p))
           opens == Exists(tree, p) /\ ~IsDir(tree, p)
       IN  \/ /\ creates \/ opens
              /\ tree' = IF creates THEN With(tree, Follow(tree, p), File(<<>>)) ELSE tree
              /\ kpc' = "opened" /\ UNCHANGED <<left, depth, retVal>>
           \/ (CallsFail \/ ~(creates \/ opens)) /\ UNCHANGED tree /\ Failed
    /\ MakerKeep

Sized(content) ==
    [k \in 1..maker.size |-> IF k \in DOMAIN content THEN content[k] ELSE "zero"]

Ftruncate ==
    /\ kpc = "opened"
    /\ LET p == Follow(tree, Head(left))
       IN  \/ tree' = [tree EXCEPT ![p].content = Sized(@)] /\ Done
           \/ CallsFail /\ UNCHANGED tree /\ Failed
    /\ MakerKeep

Mkfifo ==
    /\ AtOperand /\ Does("mkfifo")
    /\ LET p == Head(left)
           can == At(tree, p) \notin DOMAIN tree /\ HasParent(tree, p)
       IN  \/ can /\ tree' = With(tree, At(tree, p), Fifo) /\ Done
           \/ /\ CallsFail \/ ~can
              /\ retVal' = 1 /\ kpc' = "exit" /\ UNCHANGED <<tree, left, depth>>
    /\ MakerKeep

(* link() does not look through a link at its first operand.               *)
HardLink ==
    /\ AtOperand /\ Does("link")
    /\ LET old == At(tree, maker.operands[1])
           new == At(tree, maker.operands[2])
           can == /\ old \in DOMAIN tree /\ tree[old].kind # "dir"
                  /\ new \notin DOMAIN tree /\ HasParent(tree, maker.operands[2])
                  /\ Device(old) = Device(new)
       IN  \/ can /\ tree' = With(tree, new, tree[old]) /\ UNCHANGED retVal
           \/ (CallsFail \/ ~can) /\ UNCHANGED tree /\ retVal' = 1
    /\ kpc' = "exit" /\ UNCHANGED <<left, depth>>
    /\ MakerKeep

UnlinkOne ==
    /\ AtOperand /\ Does("unlink")
    /\ LET p == At(tree, Head(left))
           can == p \in DOMAIN tree /\ tree[p].kind # "dir"
       IN  \/ can /\ tree' = Without(tree, p) /\ Done
           \/ (CallsFail \/ ~can) /\ UNCHANGED tree /\ Failed
    /\ MakerKeep

MakerExit ==
    /\ kpc = "next" /\ left = <<>>
    /\ kpc' = "exit"
    /\ UNCHANGED <<tree, left, depth, retVal>> /\ MakerKeep

MakerNext ==
    \/ Mkdir \/ CreateParent \/ TruncateOpen \/ Ftruncate
    \/ Mkfifo \/ HardLink \/ UnlinkOne \/ MakerExit

-----------------------------------------------------------------------------
(* What a command may change: for mkdir, mkfifo and link only what was not *)
(* there, and mkdir -p the directories above it too.                       *)
MakerMayTouch(p) ==
    IF p \in DOMAIN before
      THEN \E q \in ToSet(Words(maker)) :
             \/ Does("truncate") /\ p = Follow(before, q)
             \/ Does("unlink") /\ p = At(before, q)
      ELSE \E i \in DOMAIN Words(maker) :
             LET q == Words(maker)[i]
             IN  \/ Does("mkdir") /\ p = At(before, q)
                 \/ Does("mkdir") /\ Has("p") /\ \E n \in DOMAIN q : p = At(before, SubSeq(q, 1, n))
                 \/ Does("truncate") /\ ~Has("c") /\ p = Follow(before, q)
                 \/ Does("mkfifo") /\ p = At(before, q)
                 \/ Does("link") /\ i = 2 /\ p = At(before, q)

(* What was asked for is there: but for mkdir -p, which never tells.       *)
MakerDid ==
    \A i \in DOMAIN Words(maker) :
        LET q == Words(maker)[i]
            made(node) == /\ At(before, q) \notin DOMAIN before
                          /\ At(tree, q) \in DOMAIN tree /\ tree[At(tree, q)] = node
        IN  /\ Does("mkdir") /\ ~Has("p") => made(Dir)
            /\ Does("mkfifo") => made(Fifo)
            /\ Does("truncate") =>
                 Reads(tree, q) = Sized(IF Exists(before, q) THEN Reads(before, q) ELSE <<>>)
            /\ Does("link") /\ i = 2 => made(before[At(before, maker.operands[1])])
            /\ Does("unlink") => At(tree, q) \notin DOMAIN tree
=============================================================================
