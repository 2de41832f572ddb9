------------------------------ MODULE FileTree ------------------------------
(***************************************************************************)
(* The tree of files that mv and rm work on, and the system calls they     *)
(* make on it.  All of it is the kernel's, modelled from how src/file/mv.c *)
(* and src/file/rm.c use it.                                               *)
(*                                                                         *)
(* A path is a sequence of names.  A name is a base and the marks put      *)
(* behind it: Simple for the backup suffix, n > 0 for ~n~.  A tree is a    *)
(* function from the paths that exist to their nodes.                      *)
(***************************************************************************)
EXTENDS Integers, Sequences, SequencesExt

CONSTANTS
    Base,       \* what a name begins with
    Mount,      \* the name of the directory where a second device is mounted
    CallsFail   \* may a system call fail for a reason of its own?

VARIABLES
    tree,       \* the files there are
    typed       \* input read by the terminal and not yet by the program

Simple == -1
Torn   == <<"torn">>     \* the content of a file half written

Name == [base : Base, marks : Seq(Int)]
Path == Seq(Name) \ {<<>>}

Plain(base) == [base |-> base, marks |-> <<>>]

(* Two paths, one at the other or below it. *)
AtOrBelow(p, q) == IsPrefix(q, p)
Parent(p)       == Front(p)
Below(p, q)     == SubSeq(p, Len(q) + 1, Len(p))   \* the rest of p after q

(* The path p names, once the links among its directories are followed: no *)
(* link of the tree points at or through another.                          *)
At(t, p) ==
    LET links == {q \in DOMAIN t : t[q].kind = "link" /\ IsStrictPrefix(q, p)}
    IN  IF links = {} THEN p
        ELSE LET q == CHOOSE q \in links : TRUE IN t[q].to \o Below(p, q)

(* The same, with a link at the end followed too, as stat, access and open do. *)
Follow(t, p) ==
    LET q == At(t, p)
    IN  IF q \in DOMAIN t /\ t[q].kind = "link" THEN t[q].to ELSE q

Exists(t, p) == Follow(t, p) \in DOMAIN t
IsDir(t, p)  == Exists(t, p) /\ t[Follow(t, p)].kind = "dir"

(* What a directory lists, and what it is to be empty. *)
Listed(t, p) ==
    {q[Len(q)] : q \in {x \in DOMAIN t : Len(x) > 1 /\ Parent(x) = Follow(t, p)}}

(* A path that can be created: the directory it goes in is there. *)
HasParent(t, p) == Len(p) = 1 \/ IsDir(t, Parent(p))

Device(p) == IF Len(p) > 1 /\ p[1] = Mount THEN 2 ELSE 1

Dir              == [kind |-> "dir", ro |-> FALSE]
File(content)    == [kind |-> "file", content |-> content, ro |-> FALSE]
With(t, p, node) == [q \in DOMAIN t \cup {p} |-> IF q = p THEN node ELSE t[q]]
Without(t, p)    == [q \in DOMAIN t \ {p} |-> t[q]]

(* open with O_CREAT and O_TRUNC: through a link, onto no directory. *)
CanTruncate(t, p) == HasParent(t, Follow(t, p)) /\ ~IsDir(t, p)
Truncated(t, p)   == With(t, Follow(t, p), File(Torn))

(* mkdir makes a directory where nothing is. *)
CanMkdir(t, p) == At(t, p) \notin DOMAIN t /\ HasParent(t, p)
Made(t, p)     == With(t, At(t, p), Dir)

(* rmdir takes a directory, not a link to one, that lists nothing. *)
CanRmdir(t, p) ==
    LET q == At(t, p)
    IN  q \in DOMAIN t /\ t[q].kind = "dir" /\ Listed(t, q) = {} /\ q # <<Mount>>

(* rename: the places, then the devices, then what is at the two ends. *)
RenameError(t, from, to) ==
    LET s == At(t, from)
        d == At(t, to)
        clash == /\ d \in DOMAIN t
                 /\ \/ (t[s].kind = "dir") # (t[d].kind = "dir")
                    \/ Listed(t, d) # {} /\ t[d].kind = "dir"
    IN  IF ~HasParent(t, to) \/ <<Mount>> \in {s, d} THEN "other"
        ELSE IF Device(s) # Device(d) THEN "xdev"
        ELSE IF s \notin DOMAIN t THEN "other"
        ELSE IF s = d THEN "none"
        ELSE IF IsStrictPrefix(s, d) \/ IsStrictPrefix(d, s) \/ clash THEN "other"
        ELSE "none"

Renamed(t, from, to) ==
    LET s     == At(t, from)
        d     == At(t, to)
        moved == {p \in DOMAIN t : AtOrBelow(p, s)}
        stay  == DOMAIN t \ (moved \cup {d})
    IN  IF s = d THEN t
        ELSE [p \in stay \cup {d \o Below(q, s) : q \in moved} |->
                  IF p \in stay THEN t[p] ELSE t[s \o Below(p, d)]]

(* What is read at a path: the content of a file, or that it is a directory. *)
Nothing == <<"nothing">>
Listing == <<"listing">>
Reads(t, p) ==
    IF ~Exists(t, p) THEN Nothing
    ELSE LET n == t[Follow(t, p)] IN IF n.kind = "file" THEN n.content ELSE Listing

(* The trees there are: what is above a path is a directory, and no link   *)
(* leads to another, to what is above it or to what is below it.           *)
IsNode(x) ==
    \/ x.kind = "dir"
    \/ x.kind = "file" /\ x = [kind |-> "file", content |-> x.content, ro |-> x.ro]
    \/ x.kind = "link" /\ x.to \in Path

Rooted(t) ==
    \A p \in DOMAIN t : \A n \in 1..(Len(p) - 1) :
        SubSeq(p, 1, n) \in DOMAIN t /\ t[SubSeq(p, 1, n)].kind = "dir"

LinksLeadOff(t) ==
    \A p, q \in {x \in DOMAIN t : t[x].kind = "link"} :
        ~AtOrBelow(p, t[q].to) /\ ~AtOrBelow(t[q].to, p)

IsTree(t) ==
    /\ DOMAIN t \subseteq Path
    /\ \A p \in DOMAIN t : IsNode(t[p])
    /\ Rooted(t) /\ LinksLeadOff(t)

Contents(t) == {t[p].content : p \in {q \in DOMAIN t : t[q].kind = "file"}}
=============================================================================
