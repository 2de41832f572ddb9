--------------------------- MODULE FileToolsProofs ---------------------------
(***************************************************************************)
(* Proofs about the tools on a tree of files (FileTools): mv, rm, and the  *)
(* five commands of Makers, for every tree, command line and answer.       *)
(*                                                                         *)
(* First the facts about paths, trees and the places that links lead to    *)
(* that all of them need; then for each tool its inductive invariant, one  *)
(* lemma for each of its actions, and what the invariant means.            *)
(*                                                                         *)
(*   RmInv   the stack of remove_dir's calls is a chain of directories     *)
(*           that are there, each with entries still to come that are      *)
(*           there too; what is gone was named and not refused             *)
(*   MkInv   what the tree has more, or less, than it had is what the      *)
(*           operands passed so far account for                            *)
(*   MvInv   of each state of a move: the source is whole until every file *)
(*           of it is copied or waits in a call of copy_dir; only then is  *)
(*           it taken apart; and nothing else is touched                   *)
(*                                                                         *)
(* The moves of mv are taken to be plain (PlainMove): no link lies at or   *)
(* below the source, the destination or the place of the backup.  There    *)
(* may be links anywhere else, and the operands may lead through them.     *)
(***************************************************************************)
EXTENDS FileTools, SequenceTheorems, WellFoundedInduction, TLAPS

-----------------------------------------------------------------------------
(* Paths. *)

(* A path is at or below another when it begins with it, name by name. *)
LEMMA PrefixIs ==
    ASSUME NEW p \in Seq(Name), NEW q \in Seq(Name)
    PROVE  /\ AtOrBelow(p, q) <=> Len(q) <= Len(p) /\ \A i \in 1..Len(q) : q[i] = p[i]
           /\ AtOrBelow(p, q) <=> Len(q) <= Len(p) /\ q = SubSeq(p, 1, Len(q))
           /\ IsStrictPrefix(q, p) <=> AtOrBelow(p, q) /\ Len(q) < Len(p)
  <1>1. ASSUME Len(q) <= Len(p)
        PROVE  /\ SubSeq(q, 1, Len(q)) = q
               /\ SubSeq(p, 1, Len(q)) \in Seq(Name)
               /\ Len(SubSeq(p, 1, Len(q))) = Len(q)
               /\ \A i \in 1..Len(q) : SubSeq(p, 1, Len(q))[i] = p[i]
    BY <1>1, SubSeqFull, SubSeqProperties
  <1>2. ASSUME Len(q) <= Len(p), \A i \in 1..Len(q) : q[i] = p[i]
        PROVE  q = SubSeq(p, 1, Len(q))
    BY <1>1, <1>2, SeqEqual
  <1>3. AtOrBelow(p, q) <=> Len(q) <= Len(p) /\ q = SubSeq(p, 1, Len(q))
    BY <1>1 DEF AtOrBelow, IsPrefix
  <1>4. AtOrBelow(p, q) <=> Len(q) <= Len(p) /\ \A i \in 1..Len(q) : q[i] = p[i]
    BY <1>1, <1>2, <1>3
  <1>5. AtOrBelow(p, q) /\ Len(q) = Len(p) => p = q
    BY <1>4, SeqEqual
  <1>6. QED
    BY <1>3, <1>4, <1>5 DEF IsStrictPrefix, AtOrBelow

(* The order of paths. *)
LEMMA PrefixOrder ==
    ASSUME NEW p \in Seq(Name), NEW q \in Seq(Name), NEW r \in Seq(Name)
    PROVE  /\ AtOrBelow(p, p)
           /\ AtOrBelow(p, q) /\ AtOrBelow(q, r) => AtOrBelow(p, r)
           /\ AtOrBelow(p, q) /\ AtOrBelow(q, p) => p = q
           /\ AtOrBelow(p, q) /\ AtOrBelow(p, r) => AtOrBelow(q, r) \/ AtOrBelow(r, q)
           /\ AtOrBelow(p, q) /\ p # q => IsStrictPrefix(q, p)
           /\ AtOrBelow(p, q) /\ Len(p) = Len(q) => p = q
           /\ IsStrictPrefix(q, p) => AtOrBelow(p, q) /\ Len(q) < Len(p) /\ p # q
  <1>1. AtOrBelow(p, p)
    BY PrefixIs
  <1>2. AtOrBelow(p, q) /\ AtOrBelow(q, r) => AtOrBelow(p, r)
    BY PrefixIs
  <1>3. AtOrBelow(p, q) /\ Len(p) = Len(q) => p = q
    BY PrefixIs, SeqEqual
  <1>4. AtOrBelow(p, q) /\ AtOrBelow(q, p) => p = q
    BY <1>3, PrefixIs
  <1>5. AtOrBelow(p, q) /\ AtOrBelow(p, r) => AtOrBelow(q, r) \/ AtOrBelow(r, q)
    <2>1. ASSUME AtOrBelow(p, q), AtOrBelow(p, r), Len(r) <= Len(q)  PROVE AtOrBelow(q, r)
      BY <2>1, PrefixIs
    <2>2. ASSUME AtOrBelow(p, q), AtOrBelow(p, r), Len(q) <= Len(r)  PROVE AtOrBelow(r, q)
      BY <2>2, PrefixIs
    <2>3. QED
      BY <2>1, <2>2
  <1>6. AtOrBelow(p, q) /\ p # q => IsStrictPrefix(q, p)
    BY DEF IsStrictPrefix, AtOrBelow
  <1>7. IsStrictPrefix(q, p) => AtOrBelow(p, q) /\ Len(q) < Len(p) /\ p # q
    BY PrefixIs
  <1>8. QED
    BY <1>1, <1>2, <1>3, <1>4, <1>5, <1>6, <1>7

(* The rest of a path below another, and a path continued. *)
LEMMA BelowIs ==
    ASSUME NEW p \in Seq(Name), NEW q \in Seq(Name), AtOrBelow(p, q)
    PROVE  /\ Below(p, q) \in Seq(Name)
           /\ Len(Below(p, q)) = Len(p) - Len(q)
           /\ \A i \in 1..(Len(p) - Len(q)) : Below(p, q)[i] = p[Len(q) + i]
           /\ q \o Below(p, q) = p
  <1>1. Len(q) <= Len(p) /\ \A i \in 1..Len(q) : q[i] = p[i]
    BY PrefixIs
  <1>2. /\ Below(p, q) \in Seq(Name)
        /\ Len(Below(p, q)) = Len(p) - Len(q)
        /\ \A i \in 1..(Len(p) - Len(q)) : Below(p, q)[i] = p[Len(q) + i]
    <2> DEFINE m == Len(q) + 1
    <2>1. m \in Int /\ Len(p) \in Int /\ \A i \in m..Len(p) : p[i] \in Name
      BY ElementOfSeq
    <2>2. /\ SubSeq(p, m, Len(p)) \in Seq(Name)
          /\ Len(SubSeq(p, m, Len(p))) = IF m <= Len(p) THEN Len(p) - m + 1 ELSE 0
          /\ \A i \in 1..(Len(p) - m + 1) : SubSeq(p, m, Len(p))[i] = p[m + i - 1]
      BY <2>1, SubSeqProperties
    <2>3. QED
      BY <1>1, <2>2 DEF Below
  <1>3. q \o Below(p, q) = p
    <2> DEFINE b == Below(p, q)
    <2>1. b \in Seq(Name) /\ Len(b) = Len(p) - Len(q)
          /\ \A i \in 1..(Len(p) - Len(q)) : b[i] = p[Len(q) + i]
      BY <1>2
    <2> HIDE DEF b
    <2>2. /\ q \o b \in Seq(Name) /\ Len(q \o b) = Len(p)
          /\ \A i \in 1..Len(p) : (q \o b)[i] = IF i <= Len(q) THEN q[i] ELSE b[i - Len(q)]
      BY <1>1, <2>1, ConcatProperties
    <2>3. \A i \in 1..Len(p) : (q \o b)[i] = p[i]
      BY <1>1, <2>1, <2>2
    <2>4. q \o b = p
      BY <2>2, <2>3, SeqEqual
    <2>5. QED
      BY <2>4 DEF b
  <1>4. QED
    BY <1>2, <1>3

LEMMA Continued ==
    ASSUME NEW p \in Seq(Name), NEW r \in Seq(Name)
    PROVE  /\ p \o r \in Seq(Name)
           /\ Len(p \o r) = Len(p) + Len(r)
           /\ \A i \in 1..Len(p) : (p \o r)[i] = p[i]
           /\ \A i \in 1..Len(r) : (p \o r)[Len(p) + i] = r[i]
           /\ AtOrBelow(p \o r, p)
           /\ Below(p \o r, p) = r
           /\ p \in Path => p \o r \in Path
  <1>1. /\ p \o r \in Seq(Name)
        /\ Len(p \o r) = Len(p) + Len(r)
        /\ \A i \in 1..Len(p) : (p \o r)[i] = p[i]
        /\ \A i \in 1..Len(r) : (p \o r)[Len(p) + i] = r[i]
    BY ConcatProperties
  <1>2. AtOrBelow(p \o r, p)
    <2>1. PICK a : a = p \o r
      OBVIOUS
    <2>2. a \in Seq(Name) /\ Len(p) <= Len(a) /\ \A i \in 1..Len(p) : p[i] = a[i]
      BY <1>1, <2>1
    <2>3. AtOrBelow(a, p)
      BY <2>2, PrefixIs
    <2>4. QED
      BY <2>1, <2>3
  <1>3. Below(p \o r, p) = r
    <2> DEFINE b == Below(p \o r, p)
    <2>1. /\ b \in Seq(Name) /\ Len(b) = Len(p \o r) - Len(p)
          /\ \A i \in 1..(Len(p \o r) - Len(p)) : b[i] = (p \o r)[Len(p) + i]
      BY <1>1, <1>2, BelowIs
    <2> HIDE DEF b
    <2>2. Len(b) = Len(r) /\ \A i \in 1..Len(r) : b[i] = r[i]
      BY <2>1, <1>1
    <2>3. b = r
      BY <2>1, <2>2, SeqEqual
    <2>4. QED
      BY <2>3 DEF b
  <1>4. p \in Path => p \o r \in Path
    BY <1>1 DEF Path
  <1>5. QED
    BY <1>1, <1>2, <1>3, <1>4

LEMMA Regroup ==
    ASSUME NEW a \in Seq(Name), NEW b \in Seq(Name), NEW c \in Seq(Name)
    PROVE  (a \o b) \o c = a \o (b \o c)
  BY ConcatAssociative

LEMMA PathIs ==
    ASSUME NEW p
    PROVE  p \in Path <=> p \in Seq(Name) /\ Len(p) >= 1
  BY DEF Path

LEMMA DepthIs ==
    ASSUME NEW p \in Path
    PROVE  Len(p) \in Nat /\ (Len(p) = 1 \/ Len(p) > 1)
  <1>1. PICK n : n = Len(p)
    OBVIOUS
  <1>2. n \in Nat /\ n >= 1
    BY <1>1, PathIs, LenProperties
  <1>3. n = 1 \/ n > 1
    BY <1>2
  <1>4. QED
    BY <1>1, <1>2, <1>3

(* A path with one name more. *)
LEMMA Appended ==
    ASSUME NEW p \in Seq(Name), NEW n \in Name
    PROVE  /\ Append(p, n) \in Path
           /\ Append(p, n) = p \o <<n>>
           /\ Len(Append(p, n)) = Len(p) + 1
           /\ \A i \in 1..Len(p) : Append(p, n)[i] = p[i]
           /\ Append(p, n)[Len(p) + 1] = n
           /\ AtOrBelow(Append(p, n), p)
           /\ IsStrictPrefix(p, Append(p, n))
           /\ Parent(Append(p, n)) = p
  <1>1. PICK a : a = Append(p, n)
    OBVIOUS
  <1>2. /\ a \in Seq(Name) /\ Len(a) = Len(p) + 1
        /\ \A i \in 1..Len(p) : a[i] = p[i]
        /\ a[Len(p) + 1] = n
    BY <1>1, AppendProperties
  <1>3. a = p \o <<n>>
    BY <1>1, AppendIsConcat
  <1>4. AtOrBelow(a, p) /\ IsStrictPrefix(p, a) /\ p = SubSeq(a, 1, Len(p))
    BY <1>2, PrefixIs
  <1>5. Parent(a) = p
    BY <1>2, <1>4 DEF Parent, Front
  <1>6. a \in Path
    BY <1>2, PathIs
  <1>7. QED
    BY <1>1, <1>2, <1>3, <1>4, <1>5, <1>6

(* The directory a path is in. *)
LEMMA ParentIs ==
    ASSUME NEW p \in Path, Len(p) > 1
    PROVE  /\ Parent(p) \in Path
           /\ Len(Parent(p)) = Len(p) - 1
           /\ IsStrictPrefix(Parent(p), p)
           /\ p[Len(p)] \in Name
           /\ p = Append(Parent(p), p[Len(p)])
           /\ \A q \in Seq(Name) : IsStrictPrefix(q, p) <=> AtOrBelow(Parent(p), q)
  <1> p \in Seq(Name)
    BY PathIs
  <1>1. PICK d : d = Parent(p)
    OBVIOUS
  <1>2. /\ d \in Seq(Name) /\ Len(d) = Len(p) - 1
        /\ \A i \in 1..(Len(p) - 1) : d[i] = p[i]
    <2>1. \A i \in 1..(Len(p) - 1) : p[i] \in Name
      BY ElementOfSeq
    <2>2. QED
      BY <1>1, <2>1, SubSeqProperties DEF Parent, Front
  <1>3. PICK n : n = p[Len(p)]
    OBVIOUS
  <1>4. n \in Name
    BY <1>3
  <1>5. p = Append(d, n)
    <2>1. PICK a : a = Append(d, n)
      OBVIOUS
    <2>2. /\ a \in Seq(Name) /\ Len(a) = Len(p) /\ a[Len(p)] = n
          /\ \A i \in 1..(Len(p) - 1) : a[i] = d[i]
      BY <1>2, <1>4, <2>1, Appended, PathIs
    <2>3. \A i \in 1..Len(p) : a[i] = p[i]
      BY <1>2, <1>3, <2>2
    <2>4. a = p
      BY <2>2, <2>3, SeqEqual
    <2>5. QED
      BY <2>1, <2>4
  <1>6. IsStrictPrefix(d, p)
    BY <1>2, PrefixIs
  <1>7. ASSUME NEW q \in Seq(Name)
        PROVE  IsStrictPrefix(q, p) <=> AtOrBelow(d, q)
    <2>1. IsStrictPrefix(q, p)
            <=> Len(q) < Len(p) /\ \A i \in 1..Len(q) : q[i] = p[i]
      BY PrefixIs
    <2>2. AtOrBelow(d, q) <=> Len(q) <= Len(d) /\ \A i \in 1..Len(q) : q[i] = d[i]
      BY <1>2, PrefixIs
    <2>3. QED
      BY <1>2, <2>1, <2>2
  <1>8. d \in Path
    BY <1>2, PathIs
  <1>9. QED
    BY <1>1, <1>2, <1>3, <1>4, <1>5, <1>6, <1>7, <1>8

-----------------------------------------------------------------------------
(* Trees and the links in them. *)

\* The paths of a tree and the places of its links are paths.
Pathwise(t) ==
    DOMAIN t \subseteq Path /\ \A q \in DOMAIN t : t[q].kind = "link" => t[q].to \in Path

LinksAbove(t, p) == {q \in DOMAIN t : t[q].kind = "link" /\ IsStrictPrefix(q, p)}

LEMMA TreeIs ==
    ASSUME NEW t, IsTree(t)
    PROVE  Pathwise(t) /\ Rooted(t) /\ LinksLeadOff(t)
  <1>1. ASSUME NEW q \in DOMAIN t, t[q].kind = "link"
        PROVE  t[q].to \in Path
    <2>1. IsNode(t[q])
      BY DEF IsTree
    <2>2. t[q].kind # "dir" /\ t[q].kind # "file"
      BY <1>1
    <2>3. QED
      BY <2>1, <2>2 DEF IsNode
  <1>2. QED
    BY <1>1 DEF IsTree, Pathwise

(* Rooted, by prefixes. *)
LEMMA DirsAbove ==
    ASSUME NEW t, DOMAIN t \subseteq Path, Rooted(t),
           NEW p \in DOMAIN t, NEW q \in Path, IsStrictPrefix(q, p)
    PROVE  q \in DOMAIN t /\ t[q].kind = "dir"
  <1>1. p \in Seq(Name) /\ q \in Seq(Name) /\ Len(q) >= 1
    BY PathIs
  <1>2. Len(q) < Len(p) /\ q = SubSeq(p, 1, Len(q))
    BY <1>1, PrefixIs
  <1>3. Len(q) \in 1..(Len(p) - 1)
    BY <1>1, <1>2
  <1>4. QED
    BY <1>2, <1>3 DEF Rooted

LEMMA RootedIf ==
    ASSUME NEW t, DOMAIN t \subseteq Path,
           \A p \in DOMAIN t : \A q \in Path :
               IsStrictPrefix(q, p) => q \in DOMAIN t /\ t[q].kind = "dir"
    PROVE  Rooted(t)
  <1> SUFFICES ASSUME NEW p \in DOMAIN t, NEW n \in 1..(Len(p) - 1)
               PROVE  SubSeq(p, 1, n) \in DOMAIN t /\ t[SubSeq(p, 1, n)].kind = "dir"
    BY DEF Rooted
  <1>1. p \in Seq(Name)
    BY PathIs
  <1>2. PICK q : q = SubSeq(p, 1, n)
    OBVIOUS
  <1>3. q \in Seq(Name) /\ Len(q) = n
    <2>1. n \in Nat /\ n >= 1 /\ Len(p) \in Nat
      BY <1>1, LenProperties
    <2>2. \A i \in 1..n : p[i] \in Name
      BY <1>1, <2>1, ElementOfSeq
    <2>3. /\ SubSeq(p, 1, n) \in Seq(Name)
          /\ Len(SubSeq(p, 1, n)) = IF 1 <= n THEN n - 1 + 1 ELSE 0
      BY <2>1, <2>2, SubSeqProperties
    <2>4. QED
      BY <1>2, <2>1, <2>3
  <1>4. q \in Path /\ IsStrictPrefix(q, p)
    <2>1. n <= Len(p) /\ n < Len(p) /\ n >= 1
      BY <1>1, LenProperties
    <2>2. AtOrBelow(p, q)
      BY <1>1, <1>2, <1>3, <2>1, PrefixIs
    <2>3. QED
      BY <1>1, <1>3, <2>1, <2>2, PrefixIs, PathIs
  <1>5. QED
    BY <1>2, <1>4

(* Nothing is below a link, and so a path of the tree is its own place. *)
LEMMA PlaceOfItself ==
    ASSUME NEW t, Pathwise(t), Rooted(t), NEW p \in DOMAIN t
    PROVE  LinksAbove(t, p) = {} /\ At(t, p) = p
  <1>1. ASSUME NEW q \in LinksAbove(t, p)  PROVE FALSE
    <2>1. q \in Path /\ p \in DOMAIN t /\ IsStrictPrefix(q, p) /\ t[q].kind = "link"
      BY <1>1 DEF LinksAbove, Pathwise
    <2>2. t[q].kind = "dir"
      BY <2>1, DirsAbove DEF Pathwise
    <2>3. QED
      BY <2>1, <2>2
  <1>2. LinksAbove(t, p) = {}
    BY <1>1
  <1>3. QED
    BY <1>2 DEF At, LinksAbove

(* Where a path leads: itself, or behind the one link above it. *)
LEMMA Straight ==
    ASSUME NEW t, NEW p, LinksAbove(t, p) = {}
    PROVE  At(t, p) = p
  BY DEF At, LinksAbove

LEMMA OneLink ==
    ASSUME NEW t, Pathwise(t), Rooted(t), NEW p \in Path,
           NEW q \in LinksAbove(t, p)
    PROVE  LinksAbove(t, p) = {q}
  <1>1. SUFFICES ASSUME NEW r \in LinksAbove(t, p), r # q  PROVE FALSE
    OBVIOUS
  <1>2. /\ q \in DOMAIN t /\ r \in DOMAIN t /\ q \in Path /\ r \in Path
        /\ t[q].kind = "link" /\ t[r].kind = "link"
        /\ IsStrictPrefix(q, p) /\ IsStrictPrefix(r, p)
    BY DEF LinksAbove, Pathwise
  <1>3. p \in Seq(Name) /\ q \in Seq(Name) /\ r \in Seq(Name)
    BY <1>2, PathIs
  <1>4. IsStrictPrefix(q, r) \/ IsStrictPrefix(r, q)
    BY <1>1, <1>2, <1>3, PrefixOrder
  <1>5. t[q].kind = "dir" \/ t[r].kind = "dir"
    BY <1>2, <1>4, DirsAbove DEF Pathwise
  <1>6. QED
    BY <1>2, <1>5

LEMMA Behind ==
    ASSUME NEW t, Pathwise(t), Rooted(t), NEW p \in Path,
           NEW q \in LinksAbove(t, p)
    PROVE  At(t, p) = t[q].to \o Below(p, q)
  <1>1. LinksAbove(t, p) = {q}
    BY OneLink
  <1>2. (CHOOSE x \in {q} : TRUE) = q
    OBVIOUS
  <1>3. At(t, p) = LET x == CHOOSE x \in {q} : TRUE IN t[x].to \o Below(p, x)
    BY <1>1 DEF At, LinksAbove
  <1>4. QED
    BY <1>2, <1>3

LEMMA AtIsPath ==
    ASSUME NEW t, Pathwise(t), Rooted(t), NEW p \in Path
    PROVE  At(t, p) \in Path
  <1>1. CASE LinksAbove(t, p) = {}
    BY <1>1, Straight
  <1>2. ASSUME NEW q \in LinksAbove(t, p)  PROVE At(t, p) \in Path
    <2>1. q \in Seq(Name) /\ p \in Seq(Name) /\ AtOrBelow(p, q) /\ t[q].to \in Path
      BY PathIs, PrefixIs DEF LinksAbove, Pathwise
    <2>2. Below(p, q) \in Seq(Name)
      BY <2>1, BelowIs
    <2>3. t[q].to \o Below(p, q) \in Path
      BY <2>1, <2>2, Continued, PathIs
    <2>4. QED
      BY <2>3, Behind
  <1>3. QED
    BY <1>1, <1>2

(* A path leads to the same place of two trees with the same links above. *)
LEMMA SameLinks ==
    ASSUME NEW t, NEW u, NEW p,
           LinksAbove(t, p) = LinksAbove(u, p),
           \A q \in LinksAbove(t, p) : t[q].to = u[q].to
    PROVE  At(t, p) = At(u, p)
  <1> DEFINE L == LinksAbove(t, p)
             x == CHOOSE x \in L : TRUE
  <1>1. At(t, p) = IF L = {} THEN p ELSE t[x].to \o Below(p, x)
    BY DEF At, LinksAbove
  <1>2. At(u, p) = IF LinksAbove(u, p) = {} THEN p
                   ELSE LET y == CHOOSE y \in LinksAbove(u, p) : TRUE IN u[y].to \o Below(p, y)
    BY DEF At, LinksAbove
  <1>3. At(u, p) = IF L = {} THEN p ELSE u[x].to \o Below(p, x)
    BY <1>2
  <1>4. L # {} => x \in L
    OBVIOUS
  <1>5. QED
    BY <1>1, <1>3, <1>4

(* The place a path leads to has no link above it, and no link that is     *)
(* followed to it is at or below it.                                       *)
LEMMA LedOff ==
    ASSUME NEW t, Pathwise(t), Rooted(t), LinksLeadOff(t), NEW p \in Path
    PROVE  /\ LinksAbove(t, At(t, p)) = {}
           /\ \A q \in LinksAbove(t, p) : /\ ~AtOrBelow(q, At(t, p))
                                          /\ ~AtOrBelow(At(t, p), q)
           /\ \A q \in DOMAIN t : t[q].kind = "link" /\ LinksAbove(t, p) # {} =>
                 ~AtOrBelow(At(t, p), q)
  <1>1. CASE LinksAbove(t, p) = {}
    BY <1>1, Straight
  <1>2. ASSUME NEW q \in LinksAbove(t, p)
        PROVE  /\ ~AtOrBelow(q, At(t, p))
               /\ \A k \in DOMAIN t : t[k].kind = "link" => ~AtOrBelow(At(t, p), k)
    <2>1. /\ q \in DOMAIN t /\ t[q].kind = "link" /\ q \in Seq(Name) /\ p \in Seq(Name)
          /\ AtOrBelow(p, q)
      BY PathIs, PrefixIs DEF LinksAbove, Pathwise
    <2>2. PICK to : to = t[q].to
      OBVIOUS
    <2>3. to \in Path /\ to \in Seq(Name)
      BY <2>1, <2>2, PathIs DEF Pathwise
    <2>4. PICK r : r = Below(p, q)
      OBVIOUS
    <2>5. r \in Seq(Name)
      BY <2>1, <2>4, BelowIs
    <2>6. PICK a : a = At(t, p)
      OBVIOUS
    <2>7. a = to \o r
      BY <2>2, <2>4, <2>6, Behind
    <2>8. a \in Seq(Name) /\ AtOrBelow(a, to)
      BY <2>3, <2>5, <2>7, Continued
    <2>9. \A k \in DOMAIN t : t[k].kind = "link" => ~AtOrBelow(k, to) /\ ~AtOrBelow(to, k)
      BY <2>1, <2>2 DEF LinksLeadOff
    <2>10. ~AtOrBelow(q, a)
      BY <2>1, <2>3, <2>8, <2>9, PrefixOrder
    <2>11. ASSUME NEW k \in DOMAIN t, t[k].kind = "link"  PROVE ~AtOrBelow(a, k)
      <3>1. k \in Seq(Name)
        BY PathIs DEF Pathwise
      <3>2. QED
        BY <2>3, <2>8, <2>9, <2>11, <3>1, PrefixOrder
    <2>12. QED
      BY <2>6, <2>10, <2>11
  <1>3. ASSUME NEW q \in LinksAbove(t, p)  PROVE LinksAbove(t, At(t, p)) = {}
    BY <1>2, <1>3 DEF LinksAbove, IsStrictPrefix, AtOrBelow
  <1>4. ASSUME NEW q \in LinksAbove(t, p)
        PROVE  ~AtOrBelow(q, At(t, p)) /\ ~AtOrBelow(At(t, p), q)
    BY <1>2, <1>4 DEF LinksAbove
  <1>5. ASSUME NEW k \in DOMAIN t, t[k].kind = "link", LinksAbove(t, p) # {}
        PROVE  ~AtOrBelow(At(t, p), k)
    BY <1>2, <1>5
  <1>6. CASE LinksAbove(t, p) # {}
    BY <1>3, <1>4, <1>5, <1>6
  <1>7. QED
    BY <1>1, <1>6

(* A name more, below what is no link; the rest of a path, where it is. *)
LEMMA NameMore ==
    ASSUME NEW t, Pathwise(t), Rooted(t), NEW p \in Path, NEW n \in Name,
           At(t, p) \in DOMAIN t => t[At(t, p)].kind # "link"
    PROVE  At(t, Append(p, n)) = Append(At(t, p), n)
  <1> p \in Seq(Name)
    BY PathIs
  <1>1. PICK a : a = Append(p, n)
    OBVIOUS
  <1>2. a \in Path /\ a \in Seq(Name) /\ Len(a) = Len(p) + 1 /\ Parent(a) = p
    BY <1>1, Appended, PathIs
  <1>3. Len(a) > 1
    BY <1>2, PathIs
  <1>4. \A q \in Seq(Name) : IsStrictPrefix(q, a) <=> AtOrBelow(p, q)
    BY <1>2, <1>3, ParentIs
  <1>5. ASSUME p \in DOMAIN t, t[p].kind = "link"  PROVE FALSE
    BY <1>5, PlaceOfItself
  <1>6. ASSUME NEW q \in DOMAIN t, t[q].kind = "link"
        PROVE  IsStrictPrefix(q, a) <=> IsStrictPrefix(q, p)
    <2>1. q \in Seq(Name) /\ q # p
      BY <1>5, <1>6, PathIs DEF Pathwise
    <2>2. AtOrBelow(p, q) <=> IsStrictPrefix(q, p)
      BY <2>1, PrefixOrder
    <2>3. QED
      BY <1>4, <2>1, <2>2
  <1>7. LinksAbove(t, a) = LinksAbove(t, p)
    BY <1>6 DEF LinksAbove
  <1>8. CASE LinksAbove(t, p) = {}
    BY <1>1, <1>7, <1>8, Straight
  <1>9. ASSUME NEW q \in LinksAbove(t, p)  PROVE At(t, a) = Append(At(t, p), n)
    <2>1. q \in Seq(Name) /\ AtOrBelow(p, q) /\ t[q].to \in Path
      BY PathIs, PrefixIs DEF LinksAbove, Pathwise
    <2>2. PICK to, r : to = t[q].to /\ r = Below(p, q)
      OBVIOUS
    <2>3. to \in Seq(Name) /\ r \in Seq(Name)
      BY <2>1, <2>2, BelowIs, PathIs
    <2>4. At(t, p) = to \o r
      BY <2>2, Behind
    <2>5. At(t, a) = to \o Below(a, q)
      BY <1>2, <1>7, <2>2, Behind
    <2>6. AtOrBelow(a, p)
      BY <1>1, Appended
    <2>7. Below(a, q) = Append(r, n)
      <3>1. PICK b : b = Append(r, n)
        OBVIOUS
      <3>2. b \in Seq(Name) /\ b = r \o <<n>> /\ <<n>> \in Seq(Name)
        BY <2>3, <3>1, Appended, PathIs
      <3>3. q \o b = (q \o r) \o <<n>>
        BY <2>1, <2>3, <3>2, ConcatAssociative
      <3>4. q \o b = a
        BY <1>1, <2>1, <2>2, <3>3, BelowIs, Appended, SMTT(60)
      <3>5. Below(q \o b, q) = b
        BY <2>1, <3>2, Continued
      <3>6. QED
        BY <3>1, <3>4, <3>5
    <2>8. to \o Append(r, n) = Append(to \o r, n)
      <3>1. <<n>> \in Seq(Name) /\ Append(r, n) = r \o <<n>>
        BY <2>3, Appended
      <3>2. to \o r \in Seq(Name)
        BY <2>3, Continued
      <3>3. Append(to \o r, n) = (to \o r) \o <<n>>
        BY <3>2, Appended
      <3>4. (to \o r) \o <<n>> = to \o (r \o <<n>>)
        BY <2>3, <3>1, ConcatAssociative
      <3>5. QED
        BY <3>1, <3>3, <3>4
    <2>9. QED
      BY <2>4, <2>5, <2>7, <2>8
  <1>10. QED
    BY <1>1, <1>8, <1>9

LEMMA NamesBehind ==
    ASSUME NEW t, Pathwise(t), Rooted(t), NEW c \in Path, NEW r \in Seq(Name),
           NEW q \in LinksAbove(t, c)
    PROVE  At(t, c \o r) = At(t, c) \o r
  <1>1. c \in Seq(Name) /\ c \o r \in Path /\ AtOrBelow(c \o r, c)
    BY PathIs, Continued
  <1>2. PICK p : p = c \o r
    OBVIOUS
  <1>3. p \in Path /\ p \in Seq(Name) /\ AtOrBelow(p, c)
    BY <1>1, <1>2, PathIs
  <1>4. /\ q \in DOMAIN t /\ t[q].kind = "link" /\ q \in Seq(Name)
        /\ IsStrictPrefix(q, c) /\ t[q].to \in Path
    BY PathIs DEF LinksAbove, Pathwise
  <1>5. AtOrBelow(c, q) /\ Len(q) < Len(c) /\ Len(c) <= Len(p)
    BY <1>1, <1>3, <1>4, PrefixIs
  <1>6. AtOrBelow(p, q) /\ Len(q) < Len(p)
    BY <1>1, <1>3, <1>4, <1>5, PrefixOrder
  <1>7. IsStrictPrefix(q, p)
    BY <1>3, <1>4, <1>6, PrefixIs
  <1>8. q \in LinksAbove(t, p)
    BY <1>4, <1>7 DEF LinksAbove
  <1>9. PICK to, d : to = t[q].to /\ d = Below(c, q)
    OBVIOUS
  <1>10. to \in Seq(Name) /\ d \in Seq(Name) /\ q \o d = c
    BY <1>1, <1>4, <1>5, <1>9, BelowIs, PathIs
  <1>11. At(t, c) = to \o d /\ At(t, p) = to \o Below(p, q)
    BY <1>3, <1>8, <1>9, Behind
  <1>12. Below(p, q) = d \o r
    <2>1. d \o r \in Seq(Name)
      BY <1>10, Continued
    <2>2. (q \o d) \o r = q \o (d \o r)
      BY <1>4, <1>10, Regroup
    <2>3. q \o (d \o r) = p
      BY <1>2, <1>10, <2>2
    <2>4. Below(q \o (d \o r), q) = d \o r
      BY <1>4, <2>1, Continued
    <2>5. QED
      BY <2>3, <2>4
  <1>13. (to \o d) \o r = to \o (d \o r)
    BY <1>10, Regroup
  <1>14. QED
    BY <1>2, <1>11, <1>12, <1>13

LEMMA NamesMore ==
    ASSUME NEW t, Pathwise(t), Rooted(t), NEW c \in Path, NEW r \in Seq(Name),
           At(t, c) \o r \in DOMAIN t
    PROVE  At(t, c \o r) = At(t, c) \o r
  <1>1. CASE LinksAbove(t, c) = {}
    BY <1>1, Straight, PlaceOfItself
  <1>2. CASE LinksAbove(t, c) # {}
    BY <1>2, NamesBehind
  <1>3. QED
    BY <1>1, <1>2

-----------------------------------------------------------------------------
(* A tree and what removing leaves of it. *)

Within(t, s) == DOMAIN t \subseteq DOMAIN s /\ \A p \in DOMAIN t : t[p] = s[p]

LEMMA PlaceKept ==
    ASSUME NEW s, IsTree(s), NEW t, Within(t, s), NEW p \in Path,
           At(t, p) \in DOMAIN t
    PROVE  At(s, p) = At(t, p)
  <1>1. Pathwise(s) /\ Rooted(s)
    BY TreeIs
  <1>2. LinksAbove(t, p) \subseteq LinksAbove(s, p)
    BY DEF LinksAbove, Within
  <1>3. CASE LinksAbove(s, p) = {}
    BY <1>2, <1>3, Straight
  <1>4. ASSUME NEW q \in LinksAbove(s, p)  PROVE At(s, p) = At(t, p)
    <2>1. LinksAbove(s, p) = {q}
      BY <1>1, OneLink
    <2>2. CASE LinksAbove(t, p) = {}
      <3>1. p \in DOMAIN s
        BY <2>2, Straight DEF Within
      <3>2. QED
        BY <1>1, <2>1, <3>1, PlaceOfItself
    <2>3. CASE LinksAbove(t, p) # {}
      <3>1. LinksAbove(t, p) = LinksAbove(s, p)
        BY <1>2, <2>1, <2>3
      <3>2. \A x \in LinksAbove(t, p) : t[x].to = s[x].to
        BY DEF LinksAbove, Within
      <3>3. QED
        BY <3>1, <3>2, SameLinks
    <2>4. QED
      BY <2>2, <2>3
  <1>5. QED
    BY <1>3, <1>4

LEMMA WithoutIs ==
    ASSUME NEW t, NEW x
    PROVE  /\ DOMAIN Without(t, x) = DOMAIN t \ {x}
           /\ \A p \in DOMAIN t \ {x} : Without(t, x)[p] = t[p]
           /\ Within(Without(t, x), t)
  BY DEF Without, Within

(* What is removed at or below a place leaves the way to it as it was. *)
LEMMA WayKept ==
    ASSUME NEW t, Pathwise(t), Rooted(t), LinksLeadOff(t),
           NEW c \in Path, NEW x \in Path, AtOrBelow(x, At(t, c))
    PROVE  At(Without(t, x), c) = At(t, c)
  <1>1. x \notin LinksAbove(t, c)
    BY LedOff
  <1>2. LinksAbove(Without(t, x), c) = LinksAbove(t, c)
    BY <1>1, WithoutIs DEF LinksAbove
  <1>3. \A q \in LinksAbove(t, c) : t[q].to = Without(t, x)[q].to
    BY <1>1, WithoutIs DEF LinksAbove
  <1>4. QED
    BY <1>2, <1>3, SameLinks

(* What is below a directory is at or below an entry that it lists.        *)
LEMMA EntryAbove ==
    ASSUME NEW t, Pathwise(t), Rooted(t), NEW d \in DOMAIN t, t[d].kind = "dir",
           NEW p \in DOMAIN t, IsStrictPrefix(d, p)
    PROVE  \E n \in Name : n \in Listed(t, d) /\ AtOrBelow(p, Append(d, n))
  <1>1. d \in Seq(Name) /\ p \in Seq(Name) /\ Len(d) >= 1
    BY PathIs DEF Pathwise
  <1>2. AtOrBelow(p, d) /\ Len(d) < Len(p)
    BY <1>1, PrefixIs
  <1>3. Follow(t, d) = d
    BY PlaceOfItself DEF Follow
  <1>4. PICK n : n = p[Len(d) + 1]
    OBVIOUS
  <1>5. n \in Name
    <2>1. Len(d) + 1 \in 1..Len(p)
      BY <1>1, <1>2
    <2>2. QED
      BY <1>1, <1>4, <2>1, ElementOfSeq
  <1>6. PICK a : a = Append(d, n)
    OBVIOUS
  <1>7. /\ a \in Path /\ a \in Seq(Name) /\ Len(a) = Len(d) + 1 /\ Parent(a) = d
        /\ a[Len(d) + 1] = n /\ \A i \in 1..Len(d) : a[i] = d[i]
    BY <1>1, <1>5, <1>6, Appended, PathIs
  <1>8. \A i \in 1..Len(d) : d[i] = p[i]
    BY <1>1, <1>2, PrefixIs
  <1>9. \A i \in 1..Len(a) : a[i] = p[i]
    BY <1>1, <1>4, <1>7, <1>8
  <1>10. AtOrBelow(p, a)
    BY <1>1, <1>2, <1>7, <1>9, PrefixIs
  <1>11. a \in DOMAIN t
    <2>1. CASE a = p
      BY <2>1
    <2>2. CASE a # p
      BY <1>1, <1>7, <1>10, <2>2, PrefixOrder, DirsAbove DEF Pathwise
    <2>3. QED
      BY <2>1, <2>2
  <1>12. a[Len(a)] \in Listed(t, d)
    BY <1>1, <1>3, <1>7, <1>11 DEF Listed
  <1>13. QED
    BY <1>1, <1>5, <1>6, <1>7, <1>10, <1>12

(* A directory that lists nothing has nothing below it. *)
LEMMA NothingListed ==
    ASSUME NEW t, Pathwise(t), Rooted(t),
           NEW d \in DOMAIN t, t[d].kind = "dir", Listed(t, d) = {},
           NEW p \in DOMAIN t
    PROVE  ~IsStrictPrefix(d, p)
  BY EntryAbove

(* Without a path that has nothing below it a tree is still one. *)
LEMMA WithoutLeaf ==
    ASSUME NEW t, Pathwise(t), Rooted(t), LinksLeadOff(t), NEW x,
           \A p \in DOMAIN t : ~IsStrictPrefix(x, p)
    PROVE  /\ Pathwise(Without(t, x)) /\ Rooted(Without(t, x))
           /\ LinksLeadOff(Without(t, x))
  <1> DEFINE u == Without(t, x)
  <1>1. DOMAIN u = DOMAIN t \ {x} /\ \A p \in DOMAIN u : u[p] = t[p]
    BY WithoutIs
  <1> HIDE DEF u
  <1>2. Pathwise(u)
    BY <1>1 DEF Pathwise
  <1>3. ASSUME NEW p \in DOMAIN u, NEW q \in Path, IsStrictPrefix(q, p)
        PROVE  q \in DOMAIN u /\ u[q].kind = "dir"
    <2>1. q \in DOMAIN t /\ t[q].kind = "dir"
      BY <1>1, <1>3, DirsAbove DEF Pathwise
    <2>2. q # x
      BY <1>1, <1>3
    <2>3. QED
      BY <1>1, <2>1, <2>2
  <1>4. Rooted(u)
    BY <1>2, <1>3, RootedIf DEF Pathwise
  <1>5. LinksLeadOff(u)
    BY <1>1 DEF LinksLeadOff
  <1>6. QED
    BY <1>2, <1>4, <1>5 DEF u

(* Without a path nothing below it is left, and what is not a directory    *)
(* has nothing below it.                                                   *)
LEMMA GoneBelow ==
    ASSUME NEW t, Pathwise(t), Rooted(t), NEW d \in Path, d \notin DOMAIN t,
           NEW p \in Path, AtOrBelow(p, d)
    PROVE  p \notin DOMAIN t
  <1> SUFFICES ASSUME p \in DOMAIN t  PROVE FALSE
    OBVIOUS
  <1>1. p # d /\ p \in Seq(Name) /\ d \in Seq(Name)
    BY PathIs
  <1>2. IsStrictPrefix(d, p)
    BY <1>1, PrefixOrder
  <1>3. QED
    BY <1>2, DirsAbove DEF Pathwise

LEMMA LeafIs ==
    ASSUME NEW t, Pathwise(t), Rooted(t), NEW x \in Path,
           x \in DOMAIN t => t[x].kind # "dir",
           NEW p \in DOMAIN t
    PROVE  ~IsStrictPrefix(x, p)
  BY DirsAbove DEF Pathwise

-----------------------------------------------------------------------------
(* Places: where the paths below c are, when c itself is at a. *)

Place(a, p, c) == a \o Below(p, c)

LEMMA PlaceIs ==
    ASSUME NEW a \in Path, NEW c \in Path, NEW p \in Path, AtOrBelow(p, c)
    PROVE  /\ Place(a, p, c) \in Path
           /\ AtOrBelow(Place(a, p, c), a)
           /\ Below(Place(a, p, c), a) = Below(p, c)
           /\ p = c \o Below(p, c) /\ Below(p, c) \in Seq(Name)
           /\ Len(Place(a, p, c)) = Len(a) + (Len(p) - Len(c))
           /\ p = c => Place(a, p, c) = a
  <1>1. a \in Seq(Name) /\ c \in Seq(Name) /\ p \in Seq(Name)
    BY PathIs
  <1>2. PICK r : r = Below(p, c)
    OBVIOUS
  <1>3. r \in Seq(Name) /\ p = c \o r /\ Len(r) = Len(p) - Len(c)
    BY <1>1, <1>2, BelowIs
  <1>4. /\ a \o r \in Path /\ AtOrBelow(a \o r, a) /\ Below(a \o r, a) = r
        /\ Len(a \o r) = Len(a) + Len(r)
    BY <1>1, <1>3, Continued
  <1>5. ASSUME p = c  PROVE a \o r = a
    <2>1. Len(r) = 0
      BY <1>1, <1>3, <1>5
    <2>2. r = <<>>
      BY <1>3, <2>1, EmptySeq
    <2>3. QED
      BY <1>1, <2>2, ConcatEmptySeq
  <1>6. QED
    BY <1>2, <1>3, <1>4, <1>5 DEF Place

LEMMA PlaceOfMore ==
    ASSUME NEW a \in Path, NEW c \in Path, NEW p \in Path, AtOrBelow(p, c), NEW n \in Name
    PROVE  /\ Append(p, n) \in Path /\ AtOrBelow(Append(p, n), c)
           /\ Place(a, Append(p, n), c) = Append(Place(a, p, c), n)
  <1>1. a \in Seq(Name) /\ c \in Seq(Name) /\ p \in Seq(Name) /\ <<n>> \in Seq(Name)
    BY PathIs
  <1>2. PICK q, r : q = Append(p, n) /\ r = Below(p, c)
    OBVIOUS
  <1>3. q \in Path /\ q \in Seq(Name) /\ q = p \o <<n>> /\ AtOrBelow(q, p)
    BY <1>1, <1>2, Appended, PathIs
  <1>4. AtOrBelow(q, c)
    BY <1>1, <1>3, PrefixOrder
  <1>5. r \in Seq(Name) /\ p = c \o r
    BY <1>1, <1>2, BelowIs
  <1>6. r \o <<n>> \in Seq(Name)
    BY <1>1, <1>5, Continued
  <1>7. q = c \o (r \o <<n>>)
    BY <1>1, <1>3, <1>5, Regroup
  <1>8. Below(q, c) = r \o <<n>>
    BY <1>1, <1>6, <1>7, Continued
  <1>9. a \o (r \o <<n>>) = (a \o r) \o <<n>>
    BY <1>1, <1>5, Regroup
  <1>10. a \o r \in Seq(Name)
    BY <1>1, <1>5, Continued
  <1>11. Append(a \o r, n) = (a \o r) \o <<n>>
    BY <1>10, Appended
  <1>12. QED
    BY <1>2, <1>3, <1>4, <1>8, <1>9, <1>11 DEF Place

LEMMA PlacesApart ==
    ASSUME NEW a \in Path, NEW c \in Path, NEW p \in Path, NEW q \in Path,
           AtOrBelow(p, c), AtOrBelow(q, c), Place(a, p, c) = Place(a, q, c)
    PROVE  p = q
  <1>1. /\ Below(Place(a, p, c), a) = Below(p, c) /\ p = c \o Below(p, c)
        /\ Below(Place(a, q, c), a) = Below(q, c) /\ q = c \o Below(q, c)
    BY PlaceIs
  <1>2. QED
    BY <1>1

(* What is below a path is found below where the path is. *)
LEMMA PlaceFound ==
    ASSUME NEW t, Pathwise(t), Rooted(t), NEW c \in Path, NEW p \in Path,
           AtOrBelow(p, c), Place(At(t, c), p, c) \in DOMAIN t
    PROVE  /\ At(t, p) = Place(At(t, c), p, c)
           /\ t[At(t, p)].kind = "dir" =>
                \A n \in Name : At(t, Append(p, n)) = Place(At(t, c), Append(p, n), c)
  <1>1. At(t, c) \in Path
    BY AtIsPath
  <1>2. p = c \o Below(p, c) /\ Below(p, c) \in Seq(Name)
    BY <1>1, PlaceIs
  <1>3. At(t, p) = Place(At(t, c), p, c)
    BY <1>2, NamesMore DEF Place
  <1>4. ASSUME t[At(t, p)].kind = "dir", NEW n \in Name
        PROVE  At(t, Append(p, n)) = Place(At(t, c), Append(p, n), c)
    <2>1. At(t, Append(p, n)) = Append(At(t, p), n)
      BY <1>4, NameMore
    <2>2. Place(At(t, c), Append(p, n), c) = Append(Place(At(t, c), p, c), n)
      BY <1>1, PlaceOfMore
    <2>3. QED
      BY <1>3, <2>1, <2>2
  <1>5. QED
    BY <1>3, <1>4

(* What a directory lists are names, each of a path below it. *)
LEMMA ListedIs ==
    ASSUME NEW t, Pathwise(t), Rooted(t), NEW p, NEW d \in DOMAIN t,
           t[d].kind = "dir", At(t, p) = d
    PROVE  \A n \in Listed(t, p) : n \in Name /\ Append(d, n) \in DOMAIN t
  <1>1. Follow(t, p) = d
    BY DEF Follow
  <1>2. ASSUME NEW x \in DOMAIN t, Len(x) > 1, Parent(x) = d
        PROVE  x[Len(x)] \in Name /\ Append(d, x[Len(x)]) = x
    BY <1>2, ParentIs DEF Pathwise
  <1>3. QED
    BY <1>1, <1>2 DEF Listed

-----------------------------------------------------------------------------
(* Stacks of calls: a sequence with its first element replaced, and one    *)
(* with an element more in front.                                          *)

LEMMA HeadReplaced ==
    ASSUME NEW S, NEW s \in Seq(S), s # <<>>, NEW e \in S
    PROVE  /\ <<e>> \o Tail(s) \in Seq(S)
           /\ Len(<<e>> \o Tail(s)) = Len(s)
           /\ (<<e>> \o Tail(s))[1] = e
           /\ \A i \in 2..Len(s) : (<<e>> \o Tail(s))[i] = s[i]
  <1>1. PICK u : u = Tail(s)
    OBVIOUS
  <1>2. /\ u \in Seq(S) /\ Len(u) = Len(s) - 1 /\ Len(s) \in Nat
        /\ \A i \in 1..Len(u) : u[i] = s[i + 1]
    BY <1>1, HeadTailProperties, LenProperties
  <1>3. PICK o : o = <<e>>
    OBVIOUS
  <1>4. o \in Seq(S) /\ Len(o) = 1 /\ o[1] = e
    BY <1>3
  <1>5. PICK v : v = o \o u
    OBVIOUS
  <1>6. /\ v \in Seq(S) /\ Len(v) = Len(o) + Len(u)
        /\ \A i \in 1..(Len(o) + Len(u)) : v[i] = IF i <= Len(o) THEN o[i] ELSE u[i - Len(o)]
    BY <1>2, <1>4, <1>5, ConcatProperties, ZenonT(60)
  <1>7. Len(s) >= 1
    BY <1>2, EmptySeq
  <1>8. v[1] = e
    BY <1>2, <1>4, <1>6, <1>7
  <1>9. ASSUME NEW i \in 2..Len(s)  PROVE v[i] = s[i]
    <2>1. i - 1 \in 1..Len(u) /\ i \in 1..(Len(o) + Len(u)) /\ ~(i <= Len(o)) /\ (i - 1) + 1 = i
      BY <1>2, <1>4
    <2>2. v[i] = u[i - 1]
      BY <1>4, <1>6, <2>1
    <2>3. u[i - 1] = s[(i - 1) + 1]
      BY <1>2, <2>1
    <2>4. QED
      BY <2>1, <2>2, <2>3
  <1>10. QED
    BY <1>1, <1>2, <1>3, <1>5, <1>6, <1>8, <1>9

LEMMA InFront ==
    ASSUME NEW S, NEW s \in Seq(S), NEW e \in S
    PROVE  /\ <<e>> \o s \in Seq(S)
           /\ Len(<<e>> \o s) = Len(s) + 1
           /\ (<<e>> \o s)[1] = e
           /\ \A i \in 1..Len(s) : (<<e>> \o s)[i + 1] = s[i]
  <1>1. PICK o : o = <<e>>
    OBVIOUS
  <1>2. o \in Seq(S) /\ Len(o) = 1 /\ o[1] = e
    BY <1>1
  <1>3. PICK v : v = o \o s
    OBVIOUS
  <1>4. /\ v \in Seq(S) /\ Len(v) = Len(o) + Len(s) /\ Len(s) \in Nat
        /\ \A i \in 1..(Len(o) + Len(s)) : v[i] = IF i <= Len(o) THEN o[i] ELSE s[i - Len(o)]
    BY <1>2, <1>3, ConcatProperties, LenProperties
  <1>5. v[1] = e
    BY <1>2, <1>4
  <1>6. ASSUME NEW i \in 1..Len(s)  PROVE v[i + 1] = s[i]
    <2>1. i + 1 \in 1..(Len(o) + Len(s)) /\ ~(i + 1 <= Len(o)) /\ (i + 1) - 1 = i
      BY <1>2, <1>4
    <2>2. v[i + 1] = s[(i + 1) - 1]
      BY <1>2, <1>4, <2>1
    <2>3. QED
      BY <2>1, <2>2
  <1>7. QED
    BY <1>1, <1>3, <1>4, <1>5, <1>6
-----------------------------------------------------------------------------
(* rm.  The operand it is at, where that is, and where the paths it meets  *)
(* below the operand are.                                                  *)

RmDone     == Len(named) - Len(args)
RmNow      == named[RmDone]
RmPlace    == At(start, RmNow)
Reached(p) == Place(RmPlace, p, RmNow)
Busy       == rpc \in {"ask", "dir"}
Guarded(x) == "i" \in flags \/ (~Forced /\ start[x].ro)

RmTree ==
    /\ IsTree(start) /\ Within(tree, start)
    /\ Pathwise(tree) /\ Rooted(tree) /\ LinksLeadOff(tree)

RmArgs ==
    /\ named \in Seq(Path) /\ args \in Seq(Path) /\ Len(args) <= Len(named)
    /\ \A i \in 1..Len(args) : args[i] = named[RmDone + i]
    /\ rpc \in {"next", "ask", "dir", "exit"}
    /\ Busy => RmDone >= 1 /\ At(tree, RmNow) = RmPlace
    /\ rpc = "exit" => args = <<>>

\* The calls: each of a directory that is there, with entries that are there,
\* and deeper than the calls around it, for no entry of theirs still to come.
Call == [path : Path, left : SUBSET Name]

Standing(c) ==
    /\ AtOrBelow(c.path, RmNow)
    /\ Reached(c.path) \in DOMAIN tree /\ tree[Reached(c.path)].kind = "dir"
    /\ \A n \in c.left : Reached(Append(c.path, n)) \in DOMAIN tree

Inside(c, d) ==
    Len(d.path) < Len(c.path) /\ \A n \in d.left : Append(d.path, n) # c.path

Stack(s) ==
    /\ s \in Seq(Call)
    /\ s # <<>> => s[Len(s)].path = RmNow
    /\ \A k \in 1..Len(s) : Standing(s[k])
    /\ \A j, k \in 1..Len(s) : j < k => Inside(s[j], s[k])

RmCalls ==
    /\ Stack(calls)
    /\ ~Busy => calls = <<>>
    /\ rpc = "dir" => calls # <<>>

\* The path being decided on: there, below the operand, and no entry still to come.
RmAsked ==
    rpc = "ask" =>
        /\ asking \in [path : Path, prompts : Nat, should : BOOLEAN]
        /\ AtOrBelow(asking.path, RmNow) /\ Reached(asking.path) \in DOMAIN tree
        /\ calls = <<>> => asking.path = RmNow
        /\ \A k \in 1..Len(calls) : \A n \in calls[k].left :
               Append(calls[k].path, n) # asking.path

\* What the user said of it, and what is known of what was refused.
RmSaid ==
    /\ rpc = "ask" =>
         LET x == Reached(asking.path)
         IN  /\ ~asking.should => x \in refused
             /\ asking.should /\ asking.prompts = 0 =>
                    Forced \/ x \notin refused \/ start[x].kind # "file"
             /\ asking.prompts > 0 /\ start[x].kind = "file" => Guarded(x)
    /\ \A x \in refused : x \in DOMAIN start /\ (start[x].kind = "file" => Guarded(x))

\* An operand passed: failed, gone, refused, or below the one rm is at.
Seen(q) ==
    \/ ret # 0 \/ q \notin DOMAIN tree
    \/ \E x \in refused : AtOrBelow(q, x)
    \/ Busy /\ AtOrBelow(q, RmPlace)

RmSeen    == ~Forced => \A i \in 1..RmDone : Seen(At(start, named[i]))
RmTouched == \A p \in DOMAIN start \ DOMAIN tree : RmMayTouch(p)

RmInv == RmTree /\ RmArgs /\ RmCalls /\ RmAsked /\ RmSaid /\ RmSeen /\ RmTouched

\* While no operand is begun, all of these stay what they are.
LEMMA RmSame ==
    ASSUME UNCHANGED <<flags, named, args, start>>
    PROVE  /\ RmDone' = RmDone /\ RmNow' = RmNow /\ RmPlace' = RmPlace
           /\ \A p : Reached(p)' = Reached(p)
           /\ \A x : Guarded(x)' = Guarded(x)
           /\ Forced' = Forced
  BY DEF RmDone, RmNow, RmPlace, Reached, Guarded, Forced

(* Where the paths below an operand are: below the place of the operand,   *)
(* each at one of its own, and those the tree has are found there.         *)
LEMMA RmWhere ==
    ASSUME RmTree, RmArgs, Busy
    PROVE  /\ RmNow \in Path /\ RmPlace \in Path
           /\ AtOrBelow(RmNow, RmNow) /\ Reached(RmNow) = RmPlace
           /\ \A p \in Path : AtOrBelow(p, RmNow) =>
                /\ Reached(p) \in Path /\ AtOrBelow(Reached(p), RmPlace)
                /\ Reached(p) \in DOMAIN tree => At(tree, p) = Reached(p)
                /\ \A n \in Name :
                     /\ Append(p, n) \in Path /\ AtOrBelow(Append(p, n), RmNow)
                     /\ Reached(Append(p, n)) = Append(Reached(p), n)
                /\ \A q \in Path : AtOrBelow(q, RmNow) /\ Reached(q) = Reached(p) => q = p
  <1>1. RmNow \in Path
    <2>1. RmDone \in 1..Len(named)
      BY LenProperties DEF RmArgs, RmDone
    <2>2. QED
      BY <2>1, ElementOfSeq DEF RmArgs, RmNow
  <1>2. Pathwise(tree) /\ Rooted(tree) /\ At(tree, RmNow) = RmPlace
    BY DEF RmTree, RmArgs
  <1>3. RmPlace \in Path
    BY <1>1, <1>2, AtIsPath
  <1>4. AtOrBelow(RmNow, RmNow)
    BY <1>1, PathIs, PrefixOrder
  <1>5. Reached(RmNow) = RmPlace
    BY <1>1, <1>3, <1>4, PlaceIs DEF Reached
  <1>6. ASSUME NEW p \in Path, AtOrBelow(p, RmNow)
        PROVE  /\ Reached(p) \in Path /\ AtOrBelow(Reached(p), RmPlace)
               /\ Reached(p) \in DOMAIN tree => At(tree, p) = Reached(p)
               /\ \A n \in Name :
                    /\ Append(p, n) \in Path /\ AtOrBelow(Append(p, n), RmNow)
                    /\ Reached(Append(p, n)) = Append(Reached(p), n)
               /\ \A q \in Path : AtOrBelow(q, RmNow) /\ Reached(q) = Reached(p) => q = p
    <2>1. Reached(p) \in Path /\ AtOrBelow(Reached(p), RmPlace)
      BY <1>1, <1>3, <1>6, PlaceIs DEF Reached
    <2>2. Reached(p) \in DOMAIN tree => At(tree, p) = Reached(p)
      BY <1>1, <1>2, <1>6, PlaceFound DEF Reached
    <2>3. ASSUME NEW n \in Name
          PROVE  /\ Append(p, n) \in Path /\ AtOrBelow(Append(p, n), RmNow)
                 /\ Reached(Append(p, n)) = Append(Reached(p), n)
      BY <1>1, <1>3, <1>6, PlaceOfMore DEF Reached
    <2>4. ASSUME NEW q \in Path, AtOrBelow(q, RmNow), Reached(q) = Reached(p)
          PROVE  q = p
      BY <1>1, <1>3, <1>6, <2>4, PlacesApart DEF Reached
    <2>5. QED
      BY <2>1, <2>2, <2>3, <2>4
  <1>7. QED
    BY <1>1, <1>3, <1>4, <1>5, <1>6

(* A path put to the user: what is known of it before the first question.  *)
LEMMA RmAskedFirst ==
    ASSUME RmTree, RmSaid, NEW p \in Path, At(tree, p) \in DOMAIN tree, AskFor(p)
    PROVE  LET x == At(tree, p)
           IN  /\ asking' \in [path : Path, prompts : Nat, should : BOOLEAN]
               /\ asking'.path = p /\ asking'.should /\ rpc' = "ask"
               /\ asking'.prompts = 0 =>
                      Forced \/ x \notin refused \/ start[x].kind # "file"
               /\ asking'.prompts > 0 /\ start[x].kind = "file" => Guarded(x)
  <1>1. PICK x : x = At(tree, p)
    OBVIOUS
  <1>2. PICK a \in {0, 1}, b \in {0, 1} :
          /\ asking' = [path |-> p, should |-> TRUE, prompts |-> a + b]
          /\ a = 1 <=> ~Forced /\ IsReadonly(p)
          /\ b = 1 <=> "i" \in flags
    <2>1. PICK a, b : /\ a = IF ~Forced /\ IsReadonly(p) THEN 1 ELSE 0
                      /\ b = IF "i" \in flags THEN 1 ELSE 0
      OBVIOUS
    <2>2. asking' = [path |-> p, should |-> TRUE, prompts |-> a + b]
      BY <2>1 DEF AskFor
    <2>3. a \in {0, 1} /\ b \in {0, 1} /\ (a = 1 <=> ~Forced /\ IsReadonly(p))
          /\ (b = 1 <=> "i" \in flags)
      BY <2>1
    <2>4. QED
      BY <2>2, <2>3
  <1>3. /\ asking' \in [path : Path, prompts : Nat, should : BOOLEAN]
        /\ asking'.path = p /\ asking'.should /\ asking'.prompts = a + b
    BY <1>2
  <1>4. ASSUME start[x].kind = "file"
        PROVE  IsReadonly(p) <=> start[x].ro
    <2>1. x \in DOMAIN tree /\ tree[x] = start[x]
      BY <1>1 DEF RmTree, Within
    <2>2. Follow(tree, p) = x
      BY <1>1, <1>4, <2>1 DEF Follow
    <2>3. QED
      BY <2>1, <2>2 DEF IsReadonly, Exists
  <1>5. ASSUME a + b = 0, ~Forced, x \in refused, start[x].kind = "file"  PROVE FALSE
    <2>1. Guarded(x)
      BY <1>5 DEF RmSaid
    <2>2. a # 1 /\ b # 1
      BY <1>5
    <2>3. "i" \notin flags /\ ~IsReadonly(p)
      BY <1>2, <1>5, <2>2
    <2>4. QED
      BY <1>4, <1>5, <2>1, <2>3 DEF Guarded
  <1>6. ASSUME a + b > 0, start[x].kind = "file"  PROVE Guarded(x)
    <2>1. a = 1 \/ b = 1
      BY <1>6
    <2>2. QED
      BY <1>2, <1>4, <1>6, <2>1 DEF Guarded
  <1>7. QED
    BY <1>1, <1>3, <1>5, <1>6 DEF AskFor

(* What is taken away is one path below the operand, with nothing below    *)
(* it: a tree is left, and the operand is where it was.                    *)
LEMMA RmTaken ==
    ASSUME RmTree, RmArgs, Busy, UNCHANGED <<flags, named, args, start>>,
           NEW p \in Path, AtOrBelow(p, RmNow), Reached(p) \in DOMAIN tree,
           \A q \in DOMAIN tree : ~IsStrictPrefix(Reached(p), q),
           tree' = Without(tree, Reached(p))
    PROVE  /\ RmTree' /\ At(tree, RmNow)' = RmPlace
           /\ DOMAIN tree' = DOMAIN tree \ {Reached(p)}
           /\ \A q \in DOMAIN tree' : tree'[q] = tree[q]
  <1>1. PICK x : x = Reached(p)
    OBVIOUS
  <1>2. /\ x \in Path /\ x \in DOMAIN tree /\ AtOrBelow(x, RmPlace)
        /\ RmNow \in Path /\ RmPlace \in Path
    BY <1>1, RmWhere
  <1>3. /\ DOMAIN tree' = DOMAIN tree \ {x} /\ \A q \in DOMAIN tree' : tree'[q] = tree[q]
    BY <1>1, WithoutIs
  <1>4. /\ Pathwise(tree) /\ Rooted(tree) /\ LinksLeadOff(tree) /\ IsTree(start)
        /\ Within(tree, start) /\ At(tree, RmNow) = RmPlace
    BY DEF RmTree, RmArgs
  <1>5. Pathwise(tree') /\ Rooted(tree') /\ LinksLeadOff(tree')
    BY <1>1, <1>4, WithoutLeaf
  <1>6. Within(tree', start')
    BY <1>3, <1>4 DEF Within
  <1>7. At(tree', RmNow) = RmPlace
    BY <1>1, <1>2, <1>4, WayKept
  <1>8. RmTree'
    BY <1>4, <1>5, <1>6 DEF RmTree
  <1>9. At(tree, RmNow)' = RmPlace
    BY <1>7, RmSame
  <1>10. QED
    BY <1>1, <1>3, <1>8, <1>9

(* The operands passed, while rm is at one and when it is done with it. *)
LEMMA RmSeenStill ==
    ASSUME RmSeen, RmTree, Busy, Busy', UNCHANGED <<flags, named, args, start, refused>>,
           DOMAIN tree' \subseteq DOMAIN tree, ret # 0 => ret' # 0
    PROVE  RmSeen'
  <1>1. ASSUME NEW q, Seen(q)  PROVE Seen(q)'
    BY <1>1, RmSame DEF Seen
  <1>2. QED
    BY <1>1, RmSame DEF RmSeen

LEMMA RmPassed ==
    ASSUME RmTree, RmArgs
    PROVE  \A i \in 1..RmDone : At(start, named[i]) \in Path
  <1> SUFFICES ASSUME NEW i \in 1..RmDone  PROVE At(start, named[i]) \in Path
    OBVIOUS
  <1>1. i \in 1..Len(named)
    BY LenProperties DEF RmArgs, RmDone
  <1>2. named[i] \in Path
    BY <1>1, ElementOfSeq DEF RmArgs
  <1>3. Pathwise(start) /\ Rooted(start)
    BY TreeIs DEF RmTree
  <1>4. QED
    BY <1>2, <1>3, AtIsPath

LEMMA RmSeenOver ==
    ASSUME RmSeen, RmTree, RmTree', RmArgs, Busy,
           UNCHANGED <<flags, named, args, start, refused>>,
           DOMAIN tree' \subseteq DOMAIN tree, ret # 0 => ret' # 0,
           Forced \/ ret' # 0 \/ RmPlace \notin DOMAIN tree' \/ RmPlace \in refused
    PROVE  RmSeen'
  <1>1. ASSUME ~Forced, NEW q \in Path, Seen(q)  PROVE Seen(q)'
    <2>1. CASE ret # 0 \/ q \notin DOMAIN tree \/ (\E x \in refused : AtOrBelow(q, x))
      BY <2>1 DEF Seen
    <2>2. CASE AtOrBelow(q, RmPlace)
      <3>1. CASE RmPlace \notin DOMAIN tree'
        <4>1. RmPlace \in Path /\ Pathwise(tree') /\ Rooted(tree')
          BY RmWhere DEF RmTree
        <4>2. q \notin DOMAIN tree'
          BY <2>2, <3>1, <4>1, GoneBelow
        <4>3. QED
          BY <4>2 DEF Seen
      <3>2. QED
        BY <1>1, <2>2, <3>1 DEF Seen
    <2>3. QED
      BY <1>1, <2>1, <2>2 DEF Seen
  <1>2. \A i \in 1..RmDone : At(start, named[i]) \in Path
    BY RmPassed
  <1>3. ASSUME ~Forced, NEW i \in 1..RmDone  PROVE Seen(At(start, named[i]))'
    <2>1. PICK q : q = At(start, named[i])
      OBVIOUS
    <2>2. q \in Path /\ Seen(q)
      BY <1>2, <1>3, <2>1 DEF RmSeen
    <2>3. Seen(q)'
      BY <1>1, <1>3, <2>2
    <2>4. q = At(start, named[i])'
      BY <2>1
    <2>5. QED
      BY <2>3, <2>4 DEF Seen
  <1>4. QED
    BY <1>3, RmSame DEF RmSeen

-----------------------------------------------------------------------------
(* The steps of rm. *)

LEMMA RmPromptStep ==
    ASSUME RmInv, PromptUser
    PROVE  RmInv'
  <1> USE DEF RmInv
  <1>1. /\ rpc = "ask" /\ asking.prompts > 0
        /\ UNCHANGED <<tree, rpc, args, calls, ret, flags, named, start>>
    BY DEF PromptUser, RmKeep
  <1>2. Busy /\ Busy'
    BY <1>1 DEF Busy
  <1>3. PICK x : x = Reached(asking.path)
    OBVIOUS
  <1>4. /\ asking \in [path : Path, prompts : Nat, should : BOOLEAN]
        /\ AtOrBelow(asking.path, RmNow) /\ x \in DOMAIN tree
    BY <1>1, <1>3 DEF RmAsked
  <1>5. asking.path \in Path /\ asking.prompts \in Nat
    BY <1>4
  <1>6. At(tree, asking.path) = x /\ AtOrBelow(x, RmPlace) /\ x \in Path
    BY <1>2, <1>3, <1>4, <1>5, RmWhere
  <1>7. PICK yes \in BOOLEAN :
          /\ asking' = [asking EXCEPT !.should = yes, !.prompts = IF yes THEN @ - 1 ELSE 0]
          /\ refused' = IF yes THEN refused \ {x} ELSE refused \cup {x}
    <2>1. PICK line : LET yes == Head(line) = "y"
                      IN  /\ asking' = [asking EXCEPT !.should = yes,
                                                      !.prompts = IF yes THEN @ - 1 ELSE 0]
                          /\ refused' = IF yes THEN refused \ {x} ELSE refused \cup {x}
      BY <1>6 DEF PromptUser
    <2>2. (Head(line) = "y") \in BOOLEAN
      OBVIOUS
    <2>3. QED
      BY <2>1, <2>2
  <1>8. /\ asking' \in [path : Path, prompts : Nat, should : BOOLEAN]
        /\ asking'.path = asking.path /\ asking'.should = yes
        /\ yes => asking'.prompts < asking.prompts
        /\ ~yes => asking'.prompts = 0
    <2>1. PICK n : n = IF yes THEN asking.prompts - 1 ELSE 0
      OBVIOUS
    <2>2. n \in Nat /\ (yes => n < asking.prompts) /\ (~yes => n = 0)
      BY <1>1, <1>5, <2>1
    <2>3. asking' = [asking EXCEPT !.should = yes, !.prompts = n]
      BY <1>7, <2>1
    <2>4. asking' = [path |-> asking.path, prompts |-> n, should |-> yes]
      BY <1>4, <2>3
    <2>5. QED
      BY <1>5, <2>2, <2>4
  <1>9. RmTree'
    BY <1>1 DEF RmTree
  <1>10. RmArgs'
    BY <1>1, <1>2, RmSame DEF RmArgs
  <1>11. RmCalls'
    <2>1. \A c : Standing(c)' = Standing(c)
      BY <1>1, RmSame DEF Standing
    <2>2. QED
      BY <1>1, <1>2, <2>1, RmSame DEF RmCalls, Busy, Stack
  <1>12. RmAsked'
    BY <1>1, <1>8, RmSame DEF RmAsked
  <1>13. RmSaid'
    <2>1. x = Reached(asking.path)'
      BY <1>1, <1>3, <1>8, RmSame
    <2>2. start[x].kind = "file" => Guarded(x)
      BY <1>1, <1>3 DEF RmSaid
    <2>3. ~asking'.should => x \in refused'
      BY <1>7, <1>8
    <2>4. asking'.should => x \notin refused'
      BY <1>7, <1>8
    <2>5. \A y \in refused' : y \in DOMAIN start /\ (start[y].kind = "file" => Guarded(y))
      <3>1. x \in DOMAIN start
        BY <1>4 DEF RmTree, Within
      <3>2. QED
        BY <1>7, <2>2, <3>1 DEF RmSaid
    <2>6. QED
      BY <1>1, <2>1, <2>2, <2>3, <2>4, <2>5, RmSame DEF RmSaid
  <1>14. RmSeen'
    <2>1. ASSUME NEW q \in Path, Seen(q)  PROVE Seen(q)'
      <3>1. CASE \E y \in refused : AtOrBelow(q, y)
        <4>1. PICK y \in refused : AtOrBelow(q, y)
          BY <3>1
        <4>2. CASE y = x
          <5>1. RmPlace \in Path
            BY <1>2, RmWhere
          <5>2. AtOrBelow(q, RmPlace)
            BY <1>6, <2>1, <4>1, <4>2, <5>1, PathIs, PrefixOrder
          <5>3. QED
            BY <1>1, <1>2, <5>2, RmSame DEF Seen
        <4>3. CASE y # x
          <5>1. y \in refused'
            BY <1>7, <4>1, <4>3
          <5>2. QED
            BY <4>1, <5>1 DEF Seen
        <4>4. QED
          BY <4>2, <4>3
      <3>2. CASE ret # 0 \/ q \notin DOMAIN tree \/ AtOrBelow(q, RmPlace)
        BY <1>1, <1>2, <3>2, RmSame DEF Seen
      <3>3. QED
        BY <2>1, <3>1, <3>2 DEF Seen
    <2>2. ASSUME ~Forced, NEW i \in 1..RmDone  PROVE Seen(At(start, named[i]))'
      <3>1. PICK q : q = At(start, named[i])
        OBVIOUS
      <3>2. q \in Path /\ Seen(q)
        BY <2>2, <3>1, RmPassed DEF RmSeen
      <3>3. Seen(q)'
        BY <2>1, <3>2
      <3>4. q = At(start, named[i])'
        BY <1>1, <3>1
      <3>5. QED
        BY <3>3, <3>4 DEF Seen
    <2>3. QED
      BY <1>1, <2>2, RmSame DEF RmSeen
  <1>15. RmTouched'
    BY <1>1, <1>4, <1>7, RmSame DEF RmTouched, RmMayTouch
  <1>16. QED
    BY <1>9, <1>10, <1>11, <1>12, <1>13, <1>14, <1>15

LEMMA RmOperandStep ==
    ASSUME RmInv, RmOperand
    PROVE  RmInv'
  <1> USE DEF RmInv
  <1>1. /\ rpc = "next" /\ args # <<>> /\ args' = Tail(args)
        /\ UNCHANGED <<tree, calls, refused, flags, named, start>>
    BY DEF RmOperand, RmKeep
  <1>2. ~Busy /\ calls = <<>>
    BY <1>1 DEF Busy, RmCalls, Stack
  <1>3. PICK p, q : p = Head(args) /\ q = At(tree, p)
    OBVIOUS
  <1>4. /\ args \in Seq(Path) /\ Len(args) \in Nat /\ Len(args) >= 1 /\ p = args[1] /\ p \in Path
        /\ args' \in Seq(Path) /\ Len(args') = Len(args) - 1
        /\ \A i \in 1..Len(args') : args'[i] = args[i + 1]
    BY <1>1, <1>3, HeadTailProperties, LenProperties, EmptySeq DEF RmArgs
  <1>5. Len(named) \in Nat /\ RmDone' = RmDone + 1 /\ RmDone \in Nat
    BY <1>1, <1>4, LenProperties DEF RmDone, RmArgs
  <1>6. RmNow' = p
    <2>1. args[1] = named[RmDone + 1]
      BY <1>4 DEF RmArgs
    <2>2. QED
      BY <1>1, <1>4, <1>5, <2>1 DEF RmNow
  <1>7. RmTree'
    BY <1>1 DEF RmTree
  <1>8. \/ /\ rpc' = "ask" /\ q \in DOMAIN tree /\ AskFor(p) /\ ret' = ret
        \/ rpc' = "next" /\ (Forced \/ ret' # 0) /\ (ret # 0 => ret' # 0)
    <2>1. CASE ret' = (IF Forced THEN ret ELSE 1) /\ UNCHANGED rpc
      BY <1>1, <2>1
    <2>2. CASE ret' = 1 /\ UNCHANGED rpc
      BY <1>1, <2>2
    <2>3. CASE q \in DOMAIN tree /\ AskFor(p) /\ UNCHANGED ret
      BY <2>3 DEF AskFor
    <2>4. QED
      BY <1>3, <2>1, <2>2, <2>3 DEF RmOperand
  <1>9. ASSUME rpc' = "ask"
        PROVE  /\ AskFor(p) /\ q \in DOMAIN tree /\ ret' = ret
               /\ RmPlace' = q /\ Reached(p)' = q
    <2>1. AskFor(p) /\ q \in DOMAIN tree /\ ret' = ret
      BY <1>8, <1>9
    <2>2. At(start, p) = q
      BY <1>3, <1>4, <2>1, PlaceKept DEF RmTree
    <2>3. RmPlace' = q
      BY <1>1, <1>6, <2>2 DEF RmPlace
    <2>4. q \in Path
      BY <2>1 DEF RmTree, Pathwise
    <2>5. Place(q, p, p) = q
      BY <1>4, <2>4, PlaceIs, PathIs, PrefixOrder
    <2>6. QED
      BY <1>6, <2>1, <2>3, <2>5 DEF Reached
  <1>10. RmArgs'
    <2>1. \A i \in 1..Len(args') : args'[i] = named'[RmDone' + i]
      <3>1. ASSUME NEW i \in 1..Len(args')  PROVE args'[i] = named'[RmDone' + i]
        <4>1. i + 1 \in 1..Len(args) /\ RmDone + (i + 1) = RmDone' + i
          BY <1>4, <1>5
        <4>2. args[i + 1] = named[RmDone + (i + 1)]
          BY <4>1 DEF RmArgs
        <4>3. QED
          BY <1>1, <1>4, <4>1, <4>2
      <3>2. QED
        BY <3>1
    <2>2. rpc' \in {"next", "ask"}
      BY <1>8
    <2>3. Busy' => RmDone' >= 1 /\ At(tree, RmNow)' = RmPlace'
      <3>1. Busy' => rpc' = "ask"
        BY <2>2 DEF Busy
      <3>2. At(tree, RmNow)' = q
        BY <1>1, <1>3, <1>6
      <3>3. QED
        BY <1>5, <1>9, <3>1, <3>2
    <2>4. named' \in Seq(Path) /\ Len(args') <= Len(named')
      BY <1>1, <1>4 DEF RmArgs
    <2>5. QED
      BY <1>4, <2>1, <2>2, <2>3, <2>4 DEF RmArgs
  <1>11. RmCalls'
    <2>1. calls' = <<>> /\ Len(calls') = 0 /\ rpc' # "dir"
      BY <1>1, <1>2, <1>8
    <2>2. QED
      BY <2>1 DEF RmCalls, Stack
  <1>12. ASSUME rpc' = "ask"
         PROVE  /\ asking' \in [path : Path, prompts : Nat, should : BOOLEAN]
                /\ asking'.path = p /\ asking'.should
                /\ asking'.prompts = 0 =>
                       Forced \/ q \notin refused \/ start[q].kind # "file"
                /\ asking'.prompts > 0 /\ start[q].kind = "file" => Guarded(q)
    BY <1>3, <1>4, <1>9, <1>12, RmAskedFirst
  <1>13. RmAsked'
    <2>1. SUFFICES ASSUME rpc' = "ask"
                   PROVE  /\ asking' \in [path : Path, prompts : Nat, should : BOOLEAN]
                          /\ AtOrBelow(asking'.path, RmNow') /\ Reached(asking.path)' \in DOMAIN tree'
                          /\ asking'.path = RmNow'
      BY <1>1, <1>2 DEF RmAsked
    <2>2. AtOrBelow(p, p)
      BY <1>4, PathIs, PrefixOrder
    <2>3. Reached(asking.path)' = q
      BY <1>9, <1>12, <2>1
    <2>4. QED
      BY <1>1, <1>6, <1>9, <1>12, <2>1, <2>2, <2>3
  <1>14. RmSaid'
    <2>1. rpc' = "ask" =>
            /\ Reached(asking.path)' = q /\ asking'.should
            /\ asking'.prompts = 0 =>
                   Forced' \/ q \notin refused' \/ start'[q].kind # "file"
            /\ asking'.prompts > 0 /\ start'[q].kind = "file" => Guarded(q)'
      BY <1>1, <1>9, <1>12 DEF Guarded, Forced
    <2>2. \A x \in refused' : x \in DOMAIN start' /\ (start'[x].kind = "file" => Guarded(x)')
      BY <1>1 DEF RmSaid, Guarded, Forced
    <2>3. QED
      BY <2>1, <2>2 DEF RmSaid
  <1>15. RmSeen'
    <2>1. ASSUME ~Forced, NEW i \in 1..(RmDone + 1)  PROVE Seen(At(start, named[i]))'
      <3>1. CASE i \in 1..RmDone
        <4>1. Seen(At(start, named[i]))
          BY <2>1, <3>1 DEF RmSeen
        <4>2. QED
          BY <1>1, <1>2, <1>8, <4>1 DEF Seen
      <3>2. CASE i = RmDone + 1
        <4>1. named[i] = p
          BY <1>1, <1>5, <1>6, <3>2 DEF RmNow
        <4>2. CASE rpc' = "ask"
          <5>1. At(start, named[i])' = q /\ q \in Seq(Name)
            BY <1>1, <1>6, <1>9, <4>1, <4>2, PathIs DEF RmPlace, RmTree, Pathwise
          <5>2. AtOrBelow(q, RmPlace') /\ Busy'
            BY <1>9, <4>2, <5>1, PrefixOrder DEF Busy
          <5>3. QED
            BY <5>1, <5>2 DEF Seen
        <4>3. QED
          BY <1>8, <2>1, <4>2 DEF Seen
      <3>3. QED
        BY <1>5, <3>1, <3>2
    <2>2. QED
      BY <1>1, <1>5, <2>1 DEF RmSeen, Forced
  <1>16. RmTouched'
    BY <1>1 DEF RmTouched, RmMayTouch, Forced
  <1>17. QED
    BY <1>7, <1>10, <1>11, <1>13, <1>14, <1>15, <1>16

LEMMA RmExitStep ==
    ASSUME RmInv, RmExit
    PROVE  RmInv'
  <1> USE DEF RmInv
  <1>1. /\ rpc = "next" /\ args = <<>> /\ rpc' = "exit"
        /\ UNCHANGED <<tree, args, calls, asking, ret, refused, flags, named, start>>
    BY DEF RmExit, RmKeep
  <1>2. ~Busy /\ ~Busy' /\ calls = <<>>
    BY <1>1 DEF Busy, RmCalls, Stack
  <1>3. RmTree'
    BY <1>1 DEF RmTree
  <1>4. RmArgs'
    BY <1>1, <1>2, RmSame DEF RmArgs
  <1>5. RmCalls'
    <2>1. Len(calls') = 0 /\ calls' = <<>> /\ rpc' # "dir"
      BY <1>1, <1>2
    <2>2. QED
      BY <2>1 DEF RmCalls, Stack
  <1>6. RmAsked' /\ RmSaid'
    BY <1>1, RmSame DEF RmAsked, RmSaid
  <1>7. RmSeen'
    <2>1. ASSUME NEW q, Seen(q)  PROVE Seen(q)'
      BY <1>1, <1>2, <2>1, RmSame DEF Seen
    <2>2. QED
      BY <1>1, <2>1, RmSame DEF RmSeen
  <1>8. RmTouched'
    BY <1>1, RmSame DEF RmTouched, RmMayTouch
  <1>9. QED
    BY <1>3, <1>4, <1>5, <1>6, <1>7, <1>8

(* What does not change with the tree and the operand rm is at. *)
LEMMA RmStill ==
    ASSUME RmTree, RmArgs, RmTouched, Busy, rpc' \in {"next", "ask", "dir"},
           UNCHANGED <<tree, refused, flags, named, args, start>>
    PROVE  RmTree' /\ RmArgs' /\ RmTouched' /\ (\A c : Standing(c)' = Standing(c))
  <1>1. RmTree'
    BY DEF RmTree
  <1>2. RmArgs'
    BY RmSame DEF RmArgs, Busy
  <1>3. RmTouched'
    BY RmSame DEF RmTouched, RmMayTouch
  <1>4. \A c : Standing(c)' = Standing(c)
    BY RmSame DEF Standing
  <1>5. QED
    BY <1>1, <1>2, <1>3, <1>4

(* The entries of a directory that is there are there too. *)
LEMMA RmEntries ==
    ASSUME RmTree, RmArgs, Busy, NEW p \in Path, AtOrBelow(p, RmNow),
           Reached(p) \in DOMAIN tree, tree[Reached(p)].kind = "dir"
    PROVE  /\ [path |-> p, left |-> Listed(tree, p)] \in Call
           /\ Standing([path |-> p, left |-> Listed(tree, p)])
  <1>1. PICK d, L : d = Reached(p) /\ L = Listed(tree, p)
    OBVIOUS
  <1>2. At(tree, p) = d /\ Pathwise(tree) /\ Rooted(tree)
    BY <1>1, RmWhere DEF RmTree
  <1>3. \A n \in L : n \in Name /\ Append(d, n) \in DOMAIN tree
    BY <1>1, <1>2, ListedIs
  <1>4. \A n \in L : Reached(Append(p, n)) = Append(d, n)
    BY <1>1, <1>3, RmWhere
  <1>5. PICK c : c = [path |-> p, left |-> L]
    OBVIOUS
  <1>6. c \in Call /\ c.path = p /\ c.left = L
    BY <1>3, <1>5 DEF Call
  <1>7. Standing(c)
    BY <1>1, <1>3, <1>4, <1>6 DEF Standing
  <1>8. QED
    BY <1>1, <1>5, <1>6, <1>7

LEMMA RmEnterStep ==
    ASSUME RmInv, EnterDirectory
    PROVE  RmInv'
  <1> USE DEF RmInv
  <1>1. /\ rpc = "ask" /\ asking.prompts = 0 /\ calls = <<>>
        /\ tree[At(tree, asking.path)].kind = "dir"
        /\ UNCHANGED <<tree, args, refused, flags, named, start>>
    BY DEF EnterDirectory, RmKeep
  <1>2. Busy /\ asking.path = RmNow /\ RmPlace \in DOMAIN tree
    BY <1>1, RmWhere DEF Busy, RmAsked
  <1>3. RmNow \in Path /\ AtOrBelow(RmNow, RmNow) /\ Reached(RmNow) = RmPlace
    BY <1>2, RmWhere
  <1>4. tree[RmPlace].kind = "dir"
    BY <1>1, <1>2, <1>3, RmWhere
  <1>5. PICK c : c = [path |-> RmNow, left |-> Listed(tree, RmNow)]
    OBVIOUS
  <1>6. c \in Call /\ Standing(c) /\ c.path = RmNow
    BY <1>2, <1>3, <1>4, <1>5, RmEntries
  <1>7. \/ calls' = <<c>> /\ rpc' = "dir" /\ ret' = ret
        \/ calls' = <<>> /\ rpc' = "next" /\ ret' = 1
    BY <1>1, <1>2, <1>5 DEF EnterDirectory
  <1>8. RmTree' /\ RmArgs' /\ RmTouched' /\ (\A d : Standing(d)' = Standing(d))
    BY <1>1, <1>2, <1>7, RmStill
  <1>9. RmCalls'
    <2>1. CASE calls' = <<>> /\ rpc' = "next"
      <3>1. Len(calls') = 0
        BY <2>1
      <3>2. QED
        BY <2>1, <3>1 DEF RmCalls, Stack
    <2>2. CASE calls' = <<c>> /\ rpc' = "dir"
      <3>1. calls' \in Seq(Call) /\ Len(calls') = 1 /\ calls'[1] = c
        BY <1>6, <2>2
      <3>2. Busy' /\ RmNow' = RmNow
        BY <1>1, <2>2, RmSame DEF Busy
      <3>3. \A k \in 1..1 : k = 1
        OBVIOUS
      <3>4. Standing(c)'
        BY <1>6, <1>8
      <3>5. QED
        BY <1>6, <2>2, <3>1, <3>2, <3>3, <3>4 DEF RmCalls, Stack
    <2>3. QED
      BY <1>7, <2>1, <2>2
  <1>10. RmAsked' /\ RmSaid'
    BY <1>1, <1>7, RmSame DEF RmAsked, RmSaid
  <1>11. RmSeen'
    <2>1. CASE rpc' = "dir" /\ ret' = ret
      BY <1>1, <1>2, <2>1, RmSeenStill DEF Busy
    <2>2. CASE rpc' = "next" /\ ret' = 1
      BY <1>1, <1>2, <1>8, <2>2, RmSeenOver
    <2>3. QED
      BY <1>7, <2>1, <2>2
  <1>12. QED
    BY <1>8, <1>9, <1>10, <1>11

(* What is known of a path that rm goes on to ask about. *)
LEMMA RmAskStep ==
    ASSUME RmTree, RmArgs, RmSaid, Busy, NEW p \in Path, AtOrBelow(p, RmNow),
           Reached(p) \in DOMAIN tree, AskFor(p),
           UNCHANGED <<tree, refused, flags, named, args, start>>
    PROVE  /\ asking' \in [path : Path, prompts : Nat, should : BOOLEAN]
           /\ asking'.path = p /\ rpc' = "ask" /\ RmSaid'
  <1>1. PICK x : x = Reached(p)
    OBVIOUS
  <1>2. At(tree, p) = x /\ x \in DOMAIN tree
    BY <1>1, RmWhere
  <1>3. /\ asking' \in [path : Path, prompts : Nat, should : BOOLEAN]
        /\ asking'.path = p /\ asking'.should /\ rpc' = "ask"
        /\ asking'.prompts = 0 =>
               Forced \/ x \notin refused \/ start[x].kind # "file"
        /\ asking'.prompts > 0 /\ start[x].kind = "file" => Guarded(x)
    BY <1>2, RmAskedFirst
  <1>4. Reached(asking.path)' = x
    BY <1>1, <1>3, RmSame
  <1>5. \A y \in refused' : y \in DOMAIN start' /\ (start'[y].kind = "file" => Guarded(y)')
    BY RmSame DEF RmSaid
  <1>6. RmSaid'
    BY <1>3, <1>4, <1>5, RmSame DEF RmSaid
  <1>7. QED
    BY <1>3, <1>6

LEMMA RmEndStep ==
    ASSUME RmInv, DirectoryEnd
    PROVE  RmInv'
  <1> USE DEF RmInv
  <1>1. /\ rpc = "dir" /\ Head(calls).left = {} /\ AskFor(Head(calls).path)
        /\ UNCHANGED <<tree, args, calls, ret, refused, flags, named, start>>
    BY DEF DirectoryEnd, RmKeep
  <1>2. Busy /\ calls # <<>> /\ calls \in Seq(Call)
    BY <1>1 DEF Busy, RmCalls, Stack
  <1>3. PICK p : p = Head(calls).path
    OBVIOUS
  <1>4. Len(calls) \in Nat /\ 1 \in 1..Len(calls) /\ Head(calls) = calls[1] /\ calls[1] \in Call
    BY <1>2, HeadTailProperties, LenProperties, EmptySeq, ElementOfSeq
  <1>5. p = calls[1].path /\ p \in Path /\ calls[1].left = {}
    BY <1>1, <1>3, <1>4 DEF Call
  <1>6. AtOrBelow(p, RmNow) /\ Reached(p) \in DOMAIN tree
    BY <1>4, <1>5 DEF RmCalls, Standing, Stack
  <1>7. AskFor(p)
    BY <1>1, <1>3
  <1>8. /\ asking' \in [path : Path, prompts : Nat, should : BOOLEAN]
        /\ asking'.path = p /\ rpc' = "ask" /\ RmSaid'
    BY <1>1, <1>2, <1>5, <1>6, <1>7, RmAskStep
  <1>9. RmTree' /\ RmArgs' /\ RmTouched' /\ (\A c : Standing(c)' = Standing(c))
    BY <1>1, <1>2, <1>8, RmStill
  <1>10. RmCalls'
    BY <1>1, <1>2, <1>8, <1>9, RmSame DEF RmCalls, Busy, Stack
  <1>11. RmAsked'
    <2>1. AtOrBelow(asking'.path, RmNow') /\ Reached(asking.path)' \in DOMAIN tree'
      BY <1>1, <1>6, <1>8, RmSame
    <2>2. ASSUME NEW k \in 1..Len(calls), NEW n \in calls[k].left
          PROVE  Append(calls[k].path, n) # p
      <3>1. CASE k = 1
        BY <1>5, <2>2, <3>1
      <3>2. CASE k # 1
        <4>1. 1 < k
          BY <1>4, <3>2
        <4>2. Inside(calls[1], calls[k])
          BY <1>4, <4>1 DEF RmCalls, Stack
        <4>3. QED
          BY <1>5, <2>2, <4>2 DEF Inside
      <3>3. QED
        BY <3>1, <3>2
    <2>3. QED
      BY <1>1, <1>2, <1>8, <2>1, <2>2 DEF RmAsked
  <1>12. RmSeen'
    BY <1>1, <1>2, <1>8, RmSeenStill DEF Busy
  <1>13. QED
    BY <1>8, <1>9, <1>10, <1>11, <1>12

(* Names put behind paths: different ones give different paths. *)
LEMMA NamesApart ==
    ASSUME NEW p \in Seq(Name), NEW q \in Seq(Name), NEW n \in Name, NEW m \in Name,
           Append(p, n) = Append(q, m)
    PROVE  p = q /\ n = m
  <1>1. PICK a, b : a = Append(p, n) /\ b = Append(q, m)
    OBVIOUS
  <1>2. Parent(a) = p /\ Len(a) = Len(p) + 1 /\ a[Len(p) + 1] = n
    BY <1>1, Appended
  <1>3. Parent(b) = q /\ Len(b) = Len(q) + 1 /\ b[Len(q) + 1] = m
    BY <1>1, Appended
  <1>4. a = b /\ Len(p) \in Nat /\ Len(q) \in Nat
    BY <1>1, LenProperties
  <1>5. QED
    BY <1>2, <1>3, <1>4

\* The calls when an entry of the innermost is taken up.
Taken(name) == <<[Head(calls) EXCEPT !.left = @ \ {name}]>> \o Tail(calls)

LEMMA RmEntryTaken ==
    ASSUME RmCalls, calls # <<>>, NEW name \in Head(calls).left, NEW s, s = Taken(name),
           NEW p, p = Append(Head(calls).path, name)
    PROVE  /\ Stack(s) /\ s # <<>>
           /\ \A k \in 1..Len(s) :
                /\ Len(s[k].path) < Len(p)
                /\ \A n \in s[k].left : Append(s[k].path, n) # p
           /\ p \in Path /\ AtOrBelow(p, RmNow) /\ Reached(p) \in DOMAIN tree
  <1>1. PICK c, d : c = Head(calls) /\ d = [c EXCEPT !.left = @ \ {name}]
    OBVIOUS
  <1>2. /\ calls \in Seq(Call) /\ Len(calls) \in Nat /\ Len(calls) >= 1
        /\ c = calls[1] /\ c \in Call /\ calls[Len(calls)].path = RmNow
    BY <1>1, HeadTailProperties, LenProperties, EmptySeq, ElementOfSeq DEF RmCalls, Stack
  <1>3. d \in Call /\ d.path = c.path /\ d.left = c.left \ {name} /\ name \in Name
        /\ c.path \in Path /\ c.path \in Seq(Name)
    BY <1>1, <1>2, PathIs DEF Call
  <1>4. /\ s \in Seq(Call) /\ Len(s) = Len(calls) /\ s[1] = d
        /\ \A i \in 2..Len(calls) : s[i] = calls[i]
    BY <1>1, <1>2, <1>3, HeadReplaced DEF Taken
  <1>5. ASSUME NEW k \in 1..Len(s)
        PROVE  /\ s[k].path = calls[k].path /\ s[k].left \subseteq calls[k].left
               /\ k = 1 => name \notin s[k].left
    <2>1. CASE k = 1
      BY <1>2, <1>3, <1>4, <2>1
    <2>2. CASE k # 1
      BY <1>2, <1>4, <2>2
    <2>3. QED
      BY <2>1, <2>2
  <1>6. ASSUME NEW k \in 1..Len(s)  PROVE Standing(s[k])
    BY <1>4, <1>5 DEF RmCalls, Stack, Standing
  <1>7. ASSUME NEW j \in 1..Len(s), NEW k \in 1..Len(s), j < k  PROVE Inside(s[j], s[k])
    <2>1. Inside(calls[j], calls[k])
      BY <1>4, <1>7 DEF RmCalls, Stack
    <2>2. /\ s[j].path = calls[j].path /\ s[k].path = calls[k].path
          /\ s[k].left \subseteq calls[k].left
      BY <1>5
    <2>3. QED
      BY <2>1, <2>2 DEF Inside
  <1>8. s # <<>>
    BY <1>2, <1>4, EmptySeq
  <1>9. s[Len(s)].path = RmNow
    BY <1>2, <1>4, <1>5
  <1>10. Stack(s)
    BY <1>4, <1>6, <1>7, <1>9 DEF Stack
  <1>11. ASSUME NEW k \in 1..Len(s)  PROVE Len(s[k].path) < Len(p)
    <2>1. CASE k = 1
      <3>1. s[k].path = c.path /\ Len(p) = Len(c.path) + 1
        BY <1>1, <1>2, <1>3, <1>5, <2>1, Appended
      <3>2. Len(c.path) \in Nat
        BY <1>3, LenProperties
      <3>3. QED
        BY <3>1, <3>2
    <2>2. CASE k # 1
      <3>1. Len(s[k].path) < Len(c.path)
        BY <1>2, <1>4, <1>5, <2>2 DEF RmCalls, Stack, Inside
      <3>2. Len(p) = Len(c.path) + 1 /\ Len(c.path) \in Nat
        BY <1>1, <1>3, Appended, LenProperties
      <3>3. QED
        BY <3>1, <3>2
    <2>3. QED
      BY <2>1, <2>2
  <1>12. ASSUME NEW k \in 1..Len(s), NEW n \in s[k].left, Append(s[k].path, n) = p
         PROVE  FALSE
    <2>1. s[k] \in Call
      BY <1>4, ElementOfSeq
    <2>2. s[k].path \in Path /\ n \in Name
      BY <2>1 DEF Call
    <2>3. s[k].path = c.path /\ n = name
      <3>1. PICK r, o : r = s[k].path /\ o = c.path
        OBVIOUS
      <3>2. /\ r \in Seq(Name) /\ o \in Seq(Name) /\ n \in Name /\ name \in Name
            /\ Append(r, n) = Append(o, name)
        BY <1>1, <1>3, <1>12, <2>2, <3>1, PathIs
      <3>3. r = o /\ n = name
        BY <3>2, NamesApart
      <3>4. QED
        BY <3>1, <3>3
    <2>4. k # 1
      BY <1>5, <1>12, <2>3
    <2>5. Len(calls[k].path) < Len(c.path)
      BY <1>2, <1>4, <2>4 DEF RmCalls, Stack, Inside
    <2>6. QED
      BY <1>3, <1>5, <2>3, <2>5, LenProperties
  <1>13. p \in Path /\ AtOrBelow(p, c.path) /\ p \in Seq(Name)
    BY <1>1, <1>3, Appended, PathIs
  <1>14. Standing(c)
    BY <1>2 DEF RmCalls, Stack
  <1>15. Reached(p) \in DOMAIN tree
    BY <1>1, <1>14 DEF Standing
  <1>16. AtOrBelow(p, RmNow)
    <2>1. RmNow \in Seq(Name)
      <3>1. calls[Len(calls)] \in Call
        BY <1>2, ElementOfSeq
      <3>2. QED
        BY <1>2, <3>1, PathIs DEF Call
    <2>2. QED
      BY <1>3, <1>13, <1>14, <2>1, PrefixOrder DEF Standing
  <1>17. QED
    BY <1>8, <1>10, <1>11, <1>12, <1>13, <1>15, <1>16

LEMMA RmEntryStep ==
    ASSUME RmInv, DirectoryEntry
    PROVE  RmInv'
  <1> USE DEF RmInv
  <1>1. rpc = "dir" /\ UNCHANGED <<tree, args, ret, refused, flags, named, start>>
    BY DEF DirectoryEntry, RmKeep
  <1>2. Busy /\ calls # <<>>
    BY <1>1 DEF Busy, RmCalls
  <1>3. PICK name \in Head(calls).left :
          LET p == Append(Head(calls).path, name)
          IN  \/ calls' = Taken(name) /\ UNCHANGED <<rpc, asking>>
              \/ /\ tree[At(tree, p)].kind = "dir"
                 /\ calls' = <<[path |-> p, left |-> Listed(tree, p)]>> \o Taken(name)
                 /\ UNCHANGED <<rpc, asking>>
              \/ calls' = Taken(name) /\ AskFor(p)
    BY DEF DirectoryEntry, Taken
  <1>4. PICK p, s : p = Append(Head(calls).path, name) /\ s = Taken(name)
    OBVIOUS
  <1>5. /\ Stack(s) /\ s # <<>>
        /\ \A k \in 1..Len(s) :
             Len(s[k].path) < Len(p) /\ \A n \in s[k].left : Append(s[k].path, n) # p
        /\ p \in Path /\ AtOrBelow(p, RmNow) /\ Reached(p) \in DOMAIN tree
    BY <1>2, <1>3, <1>4, RmEntryTaken, ZenonT(60)
  <1>6. At(tree, p) = Reached(p)
    BY <1>2, <1>5, RmWhere
  <1>7. PICK d : d = [path |-> p, left |-> Listed(tree, p)]
    OBVIOUS
  <1>8. \/ calls' = s /\ rpc' = "dir"
        \/ tree[Reached(p)].kind = "dir" /\ calls' = <<d>> \o s /\ rpc' = "dir"
        \/ calls' = s /\ rpc' = "ask" /\ AskFor(p)
    BY <1>1, <1>3, <1>4, <1>6, <1>7 DEF AskFor
  <1>9. RmTree' /\ RmArgs' /\ RmTouched' /\ (\A c : Standing(c)' = Standing(c))
    <2>1. rpc' \in {"next", "ask", "dir"}
      BY <1>8
    <2>2. QED
      BY <1>1, <1>2, <2>1, RmStill
  <1>10. Busy'
    BY <1>8 DEF Busy
  <1>11. ASSUME tree[Reached(p)].kind = "dir", NEW v, v = <<d>> \o s
         PROVE  Stack(v) /\ v # <<>>
    <2>1. d \in Call /\ Standing(d) /\ d.path = p
      BY <1>2, <1>5, <1>7, <1>11, RmEntries
    <2>2. s \in Seq(Call) /\ Len(s) \in Nat
      BY <1>5, LenProperties DEF Stack
    <2>3. /\ v \in Seq(Call) /\ Len(v) = Len(s) + 1 /\ v[1] = d
          /\ \A i \in 1..Len(s) : v[i + 1] = s[i]
      BY <1>11, <2>1, <2>2, InFront
    <2>4. \A k \in 1..Len(v) : k # 1 => k - 1 \in 1..Len(s) /\ v[k] = s[k - 1]
      <3>1. ASSUME NEW k \in 1..Len(v), k # 1
            PROVE  k - 1 \in 1..Len(s) /\ v[k] = s[k - 1]
        <4>1. k - 1 \in 1..Len(s) /\ (k - 1) + 1 = k
          BY <2>2, <2>3, <3>1
        <4>2. v[(k - 1) + 1] = s[k - 1]
          BY <2>3, <4>1
        <4>3. QED
          BY <4>1, <4>2
      <3>2. QED
        BY <3>1
    <2>5. v # <<>> /\ Len(v) # 1
      BY <1>5, <2>2, <2>3, EmptySeq
    <2>6. v[Len(v)].path = RmNow
      <3>1. v[Len(v)] = s[Len(s)]
        <4>1. Len(v) \in 1..Len(v) /\ Len(v) - 1 = Len(s)
          BY <2>2, <2>3
        <4>2. QED
          BY <2>4, <2>5, <4>1
      <3>2. QED
        BY <1>5, <3>1 DEF Stack
    <2>7. ASSUME NEW k \in 1..Len(v)  PROVE Standing(v[k])
      BY <1>5, <2>1, <2>3, <2>4 DEF Stack
    <2>8. ASSUME NEW j \in 1..Len(v), NEW k \in 1..Len(v), j < k
          PROVE  Inside(v[j], v[k])
      <3>1. CASE j # 1
        <4>1. /\ j - 1 \in 1..Len(s) /\ k - 1 \in 1..Len(s) /\ j - 1 < k - 1
              /\ v[j] = s[j - 1] /\ v[k] = s[k - 1]
          BY <2>4, <2>8, <3>1
        <4>2. QED
          BY <1>5, <4>1 DEF Stack
      <3>2. CASE j = 1
        <4>1. k - 1 \in 1..Len(s) /\ v[k] = s[k - 1]
          BY <2>4, <2>8, <3>2
        <4>2. QED
          BY <1>5, <2>1, <2>3, <3>2, <4>1 DEF Inside
      <3>3. QED
        BY <3>1, <3>2
    <2>9. QED
      BY <2>3, <2>5, <2>6, <2>7, <2>8 DEF Stack
  <1>12. RmCalls'
    <2>1. PICK v : v = calls'
      OBVIOUS
    <2>2. Stack(v) /\ v # <<>>
      BY <1>5, <1>8, <1>11, <2>1
    <2>3. Stack(calls)'
      BY <1>1, <1>9, <2>1, <2>2, RmSame DEF Stack
    <2>4. QED
      BY <1>10, <2>1, <2>2, <2>3 DEF RmCalls
  <1>13. RmAsked' /\ RmSaid'
    <2>1. CASE rpc' = "dir"
      BY <1>1, <2>1, RmSame DEF RmAsked, RmSaid
    <2>2. CASE calls' = s /\ rpc' = "ask" /\ AskFor(p)
      <3>1. /\ asking' \in [path : Path, prompts : Nat, should : BOOLEAN]
            /\ asking'.path = p /\ RmSaid'
        BY <1>1, <1>2, <1>5, <2>2, RmAskStep
      <3>2. AtOrBelow(asking'.path, RmNow') /\ Reached(asking.path)' \in DOMAIN tree'
        BY <1>1, <1>5, <3>1, RmSame
      <3>3. RmAsked'
        BY <1>5, <2>2, <3>1, <3>2 DEF RmAsked
      <3>4. QED
        BY <3>1, <3>3
    <2>3. QED
      BY <1>8, <2>1, <2>2
  <1>14. RmSeen'
    BY <1>1, <1>2, <1>10, RmSeenStill
  <1>15. QED
    BY <1>9, <1>12, <1>13, <1>14

(* Calls whose directories and entries are other paths than the one taken. *)
LEMMA RmStandStill ==
    ASSUME RmTree, RmArgs, Busy, UNCHANGED <<flags, named, args, start>>,
           NEW p \in Path, AtOrBelow(p, RmNow),
           DOMAIN tree' = DOMAIN tree \ {Reached(p)},
           \A q \in DOMAIN tree' : tree'[q] = tree[q],
           NEW c \in Call, Standing(c), c.path # p, \A n \in c.left : Append(c.path, n) # p
    PROVE  Standing(c)'
  <1>1. c.path \in Path /\ c.left \subseteq Name /\ AtOrBelow(c.path, RmNow)
    BY DEF Call, Standing
  <1>2. Reached(c.path) # Reached(p)
    BY <1>1, RmWhere
  <1>3. Reached(c.path) \in DOMAIN tree' /\ tree'[Reached(c.path)].kind = "dir"
    BY <1>2 DEF Standing
  <1>4. ASSUME NEW n \in c.left  PROVE Reached(Append(c.path, n)) \in DOMAIN tree'
    <2>1. PICK q : q = Append(c.path, n)
      OBVIOUS
    <2>2. q \in Path /\ AtOrBelow(q, RmNow) /\ q # p
      BY <1>1, <2>1, RmWhere
    <2>3. Reached(q) # Reached(p)
      BY <2>2, RmWhere
    <2>4. Reached(q) \in DOMAIN tree
      BY <2>1 DEF Standing
    <2>5. QED
      BY <2>1, <2>3, <2>4
  <1>5. QED
    BY <1>1, <1>3, <1>4, RmSame DEF Standing

(* What may be taken: what the user was asked about last and did not refuse. *)
LEMMA RmTouchedTaken ==
    ASSUME RmTree, RmArgs, RmAsked, RmSaid, RmTouched, rpc = "ask",
           asking.prompts = 0, Agreed,
           UNCHANGED <<flags, named, args, start, refused>>,
           DOMAIN tree' = DOMAIN tree \ {Reached(asking.path)}
    PROVE  RmTouched'
  <1>1. PICK x : x = Reached(asking.path)
    OBVIOUS
  <1>2. Busy /\ asking.path \in Path /\ AtOrBelow(asking.path, RmNow)
    BY DEF Busy, RmAsked
  <1>3. AtOrBelow(x, RmPlace)
    BY <1>1, <1>2, RmWhere
  <1>4. RmDone \in DOMAIN named
    BY <1>2, LenProperties DEF RmArgs, RmDone
  <1>5. Forced \/ x \notin refused \/ start[x].kind # "file"
    BY <1>1 DEF RmSaid, Agreed
  <1>6. RmMayTouch(x)
    BY <1>3, <1>4, <1>5 DEF RmMayTouch, RmPlace, RmNow
  <1>7. ASSUME NEW q \in DOMAIN start \ DOMAIN tree'  PROVE RmMayTouch(q)
    <2>1. q \in DOMAIN start \ DOMAIN tree \/ q = x
      BY <1>1
    <2>2. QED
      BY <1>6, <2>1 DEF RmTouched
  <1>8. \A q : RmMayTouch(q)' = RmMayTouch(q)
    BY RmSame DEF RmMayTouch
  <1>9. QED
    BY <1>7, <1>8 DEF RmTouched

LEMMA RmRemoveStep ==
    ASSUME RmInv, RemovePath
    PROVE  RmInv'
  <1> USE DEF RmInv
  <1>1. /\ rpc = "ask" /\ asking.prompts = 0 /\ tree[At(tree, asking.path)].kind # "dir"
        /\ rpc' = IF calls = <<>> THEN "next" ELSE "dir"
        /\ UNCHANGED <<args, calls, refused, flags, named, start>>
    BY DEF RemovePath, RmKeep
  <1>2. PICK p, x : p = asking.path /\ x = Reached(p)
    OBVIOUS
  <1>3. /\ Busy /\ p \in Path /\ AtOrBelow(p, RmNow) /\ x \in DOMAIN tree
        /\ (calls = <<>> => p = RmNow)
        /\ \A k \in 1..Len(calls) : \A n \in calls[k].left : Append(calls[k].path, n) # p
    BY <1>1, <1>2 DEF Busy, RmAsked
  <1>4. At(tree, p) = x /\ x \in Path /\ (calls = <<>> => x = RmPlace)
    BY <1>2, <1>3, RmWhere
  <1>5. tree[x].kind # "dir"
    BY <1>1, <1>2, <1>4
  <1>6. \/ Agreed /\ tree' = Without(tree, x) /\ ret' = ret
        \/ Agreed /\ UNCHANGED tree /\ ret' = IF calls = <<>> /\ ~Forced THEN 1 ELSE ret
        \/ ~Agreed /\ UNCHANGED <<tree, ret>>
    BY <1>2, <1>4 DEF RemovePath
  <1>7. ret # 0 => ret' # 0
    BY <1>6
  <1>8. Busy' <=> calls # <<>>
    BY <1>1 DEF Busy
  <1>9. CASE Agreed /\ tree' = Without(tree, x) /\ ret' = ret
    <2>1. \A q \in DOMAIN tree : ~IsStrictPrefix(x, q)
      BY <1>4, <1>5, LeafIs DEF RmTree
    <2>2. /\ RmTree' /\ At(tree, RmNow)' = RmPlace /\ DOMAIN tree' = DOMAIN tree \ {x}
          /\ \A q \in DOMAIN tree' : tree'[q] = tree[q]
      BY <1>1, <1>2, <1>3, <1>9, <2>1, RmTaken
    <2>3. RmArgs'
      BY <1>1, <1>3, <2>2, RmSame DEF RmArgs, Busy
    <2>4. ASSUME NEW k \in 1..Len(calls)  PROVE Standing(calls[k])'
      <3>1. PICK c : c = calls[k]
        OBVIOUS
      <3>2. c \in Call /\ Standing(c)
        BY <2>4, <3>1, ElementOfSeq DEF RmCalls, Stack
      <3>3. c.path # p
        BY <1>2, <1>5, <3>2 DEF Standing
      <3>4. \A n \in c.left : Append(c.path, n) # p
        BY <1>3, <2>4, <3>1
      <3>5. Standing(c)'
        BY <1>1, <1>2, <1>3, <2>2, <3>2, <3>3, <3>4, RmStandStill
      <3>6. c = calls[k]'
        BY <1>1, <3>1
      <3>7. QED
        BY <3>5, <3>6 DEF Standing
    <2>5. RmCalls'
      BY <1>1, <1>8, <2>4, RmSame DEF RmCalls, Stack
    <2>6. RmTouched'
      BY <1>1, <1>2, <1>9, <2>2, RmTouchedTaken
    <2>7. RmSeen'
      <3>1. CASE calls = <<>>
        BY <1>1, <1>3, <1>4, <1>7, <2>2, <3>1, RmSeenOver
      <3>2. CASE calls # <<>>
        BY <1>1, <1>3, <1>7, <1>8, <2>2, <3>2, RmSeenStill
      <3>3. QED
        BY <3>1, <3>2
    <2>8. RmAsked' /\ RmSaid'
      BY <1>1, RmSame DEF RmAsked, RmSaid
    <2>9. QED
      BY <2>2, <2>3, <2>5, <2>6, <2>7, <2>8
  <1>10. CASE /\ UNCHANGED tree
              /\ calls = <<>> => Forced \/ ret' # 0 \/ x \in refused
    <2>1. RmTree' /\ RmArgs' /\ RmTouched' /\ (\A c : Standing(c)' = Standing(c))
      <3>1. rpc' \in {"next", "ask", "dir"}
        BY <1>1
      <3>2. QED
        BY <1>1, <1>3, <1>10, <3>1, RmStill
    <2>2. RmCalls'
      BY <1>1, <1>8, <2>1, RmSame DEF RmCalls, Stack
    <2>3. RmSeen'
      <3>1. CASE calls = <<>>
        BY <1>1, <1>3, <1>4, <1>7, <1>10, <2>1, <3>1, RmSeenOver
      <3>2. CASE calls # <<>>
        BY <1>1, <1>3, <1>7, <1>8, <1>10, <3>2, RmSeenStill
      <3>3. QED
        BY <3>1, <3>2
    <2>4. RmAsked' /\ RmSaid'
      BY <1>1, RmSame DEF RmAsked, RmSaid
    <2>5. QED
      BY <2>1, <2>2, <2>3, <2>4
  <1>11. ~Agreed => x \in refused
    BY <1>1, <1>2 DEF Agreed, RmSaid
  <1>12. QED
    BY <1>6, <1>9, <1>10, <1>11

LEMMA RmDirectoryStep ==
    ASSUME RmInv, RemoveDirectory
    PROVE  RmInv'
  <1> USE DEF RmInv
  <1>1. /\ calls # <<>> /\ rpc = "ask" /\ asking.prompts = 0 /\ asking.path = Head(calls).path
        /\ calls' = Tail(calls)
        /\ rpc' = IF Len(calls) = 1 THEN "next" ELSE "dir"
        /\ UNCHANGED <<args, refused, flags, named, start>>
    BY DEF RemoveDirectory, Answered, RmKeep
  <1>2. PICK p, x : p = asking.path /\ x = Reached(p)
    OBVIOUS
  <1>3. /\ calls \in Seq(Call) /\ Len(calls) \in Nat /\ Len(calls) >= 1
        /\ 1 \in 1..Len(calls) /\ p = calls[1].path
        /\ calls' \in Seq(Call) /\ Len(calls') = Len(calls) - 1
        /\ \A i \in 1..Len(calls') : calls'[i] = calls[i + 1]
    BY <1>1, <1>2, HeadTailProperties, LenProperties, EmptySeq DEF RmCalls, Stack
  <1>4. /\ Busy /\ p \in Path /\ AtOrBelow(p, RmNow) /\ x \in DOMAIN tree
        /\ tree[x].kind = "dir" /\ (Len(calls) = 1 => p = RmNow)
    BY <1>1, <1>2, <1>3 DEF Busy, RmAsked, RmCalls, Stack, Standing
  <1>5. At(tree, p) = x /\ x \in Path /\ (Len(calls) = 1 => x = RmPlace)
    BY <1>2, <1>4, RmWhere
  <1>6. \/ Agreed /\ CanRmdir(tree, p) /\ tree' = Without(tree, x) /\ ret' = ret
        \/ Agreed /\ UNCHANGED tree /\ ret' = IF Len(calls) = 1 THEN 1 ELSE ret
        \/ ~Agreed /\ UNCHANGED <<tree, ret>>
    BY <1>1, <1>2, <1>5 DEF RemoveDirectory
  <1>7. ret # 0 => ret' # 0
    BY <1>6
  <1>8. (Busy' <=> Len(calls) # 1) /\ (Len(calls) = 1 <=> calls' = <<>>)
    <2>1. Busy' <=> Len(calls) # 1
      BY <1>1 DEF Busy
    <2>2. PICK s : s = calls'
      OBVIOUS
    <2>3. s \in Seq(Call) /\ Len(s) = Len(calls) - 1
      BY <1>3, <2>2
    <2>4. s = <<>> <=> Len(s) = 0
      BY <2>3, EmptySeq
    <2>5. QED
      BY <1>3, <2>1, <2>2, <2>3, <2>4
  <1>9. ASSUME NEW k \in 1..Len(calls'), NEW c, c = calls'[k]
        PROVE  c \in Call /\ Standing(c) /\ c.path # p /\ \A n \in c.left : Append(c.path, n) # p
    <2>1. k + 1 \in 1..Len(calls) /\ 1 < k + 1 /\ c = calls[k + 1]
      BY <1>3, <1>9
    <2>2. c \in Call /\ Standing(c) /\ Inside(calls[1], c)
      BY <1>3, <2>1, ElementOfSeq DEF RmCalls, Stack
    <2>3. Len(c.path) < Len(p) /\ Len(c.path) \in Nat
      BY <1>3, <2>2, PathIs, LenProperties DEF Inside, Call
    <2>4. QED
      BY <1>3, <2>2, <2>3 DEF Inside
  <1>10. ASSUME \A k \in 1..Len(calls') : Standing(calls[k])'
         PROVE  RmCalls'
    <2>1. ASSUME NEW j \in 1..Len(calls'), NEW k \in 1..Len(calls'), j < k
          PROVE  Inside(calls'[j], calls'[k])
      <3>1. /\ j + 1 \in 1..Len(calls) /\ k + 1 \in 1..Len(calls) /\ j + 1 < k + 1
            /\ calls'[j] = calls[j + 1] /\ calls'[k] = calls[k + 1]
        BY <1>3, <2>1
      <3>2. QED
        BY <3>1 DEF RmCalls, Stack
    <2>2. ASSUME calls' # <<>>  PROVE calls'[Len(calls')].path = RmNow
      <3>1. Len(calls') \in 1..Len(calls') /\ Len(calls') + 1 = Len(calls)
        BY <1>3, <1>8, <2>2
      <3>2. calls'[Len(calls')] = calls[Len(calls)]
        BY <1>3, <3>1
      <3>3. QED
        BY <1>1, <3>2 DEF RmCalls, Stack
    <2>3. Stack(calls)'
      BY <1>1, <1>3, <1>10, <2>1, <2>2, RmSame DEF Stack, Inside
    <2>4. QED
      BY <1>1, <1>8, <2>3 DEF RmCalls
  <1>11. RmAsked' /\ RmSaid'
    BY <1>1, RmSame DEF RmAsked, RmSaid
  <1>12. CASE Agreed /\ CanRmdir(tree, p) /\ tree' = Without(tree, x) /\ ret' = ret
    <2>1. \A q \in DOMAIN tree : ~IsStrictPrefix(x, q)
      BY <1>4, <1>5, <1>12, NothingListed DEF RmTree, CanRmdir
    <2>2. /\ RmTree' /\ At(tree, RmNow)' = RmPlace /\ DOMAIN tree' = DOMAIN tree \ {x}
          /\ \A q \in DOMAIN tree' : tree'[q] = tree[q]
      BY <1>1, <1>2, <1>4, <1>12, <2>1, RmTaken
    <2>3. RmArgs'
      BY <1>1, <1>4, <2>2, RmSame DEF RmArgs, Busy
    <2>4. ASSUME NEW k \in 1..Len(calls')  PROVE Standing(calls[k])'
      <3>1. PICK c : c = calls'[k]
        OBVIOUS
      <3>2. Standing(c)'
        BY <1>1, <1>2, <1>4, <1>9, <2>2, <2>4, <3>1, RmStandStill
      <3>3. QED
        BY <3>1, <3>2 DEF Standing
    <2>5. RmCalls'
      BY <1>10, <2>4
    <2>6. RmTouched'
      BY <1>1, <1>2, <1>12, <2>2, RmTouchedTaken
    <2>7. RmSeen'
      <3>1. CASE Len(calls) = 1
        BY <1>1, <1>4, <1>5, <1>7, <2>2, <3>1, RmSeenOver
      <3>2. CASE Len(calls) # 1
        BY <1>1, <1>4, <1>7, <1>8, <2>2, <3>2, RmSeenStill
      <3>3. QED
        BY <3>1, <3>2
    <2>8. QED
      BY <1>11, <2>2, <2>3, <2>5, <2>6, <2>7
  <1>13. CASE /\ UNCHANGED tree
              /\ Len(calls) = 1 => Forced \/ ret' # 0 \/ x \in refused
    <2>1. RmTree' /\ RmArgs' /\ RmTouched' /\ (\A c : Standing(c)' = Standing(c))
      <3>1. rpc' \in {"next", "ask", "dir"}
        BY <1>1
      <3>2. QED
        BY <1>1, <1>4, <1>13, <3>1, RmStill
    <2>2. ASSUME NEW k \in 1..Len(calls')  PROVE Standing(calls[k])'
      <3>1. PICK c : c = calls'[k]
        OBVIOUS
      <3>2. Standing(c)'
        BY <1>9, <2>1, <2>2, <3>1
      <3>3. QED
        BY <3>1, <3>2 DEF Standing
    <2>3. RmCalls'
      BY <1>10, <2>2
    <2>4. RmSeen'
      <3>1. CASE Len(calls) = 1
        BY <1>1, <1>4, <1>5, <1>7, <1>13, <2>1, <3>1, RmSeenOver
      <3>2. CASE Len(calls) # 1
        BY <1>1, <1>4, <1>7, <1>8, <1>13, <3>2, RmSeenStill
      <3>3. QED
        BY <3>1, <3>2
    <2>5. QED
      BY <1>11, <2>1, <2>3, <2>4
  <1>14. ~Agreed => x \in refused
    BY <1>1, <1>2 DEF Agreed, RmSaid
  <1>15. QED
    BY <1>6, <1>12, <1>13, <1>14

(* A run of rm, from its first state through each of its steps. *)
LEMMA RmBegins ==
    ASSUME NEW c \in RmCommands, RmInit(c.options, c.operands), tree \in Trees
    PROVE  RmInv
  <1>1. /\ rpc = "next" /\ named = c.operands /\ args = named /\ calls = <<>>
        /\ refused = {} /\ start = tree /\ ret = 0
    BY DEF RmInit
  <1>2. named \in Seq(Path) /\ Len(named) \in Nat /\ RmDone = 0 /\ ~Busy
    BY <1>1, RmCommandsAssumption, LenProperties DEF RmDone, Busy
  <1>3. IsTree(tree)
    BY TreesAssumption
  <1>4. RmTree
    BY <1>1, <1>3, TreeIs DEF RmTree, Within
  <1>5. RmArgs
    BY <1>1, <1>2 DEF RmArgs
  <1>6. RmCalls
    <2>1. Len(calls) = 0 /\ calls \in Seq(Call)
      BY <1>1
    <2>2. QED
      BY <1>1, <1>2, <2>1 DEF RmCalls, Stack
  <1>7. RmAsked /\ RmSaid
    BY <1>1 DEF RmAsked, RmSaid
  <1>8. RmSeen
    BY <1>2 DEF RmSeen
  <1>9. RmTouched
    BY <1>1 DEF RmTouched
  <1>10. QED
    BY <1>4, <1>5, <1>6, <1>7, <1>8, <1>9 DEF RmInv

LEMMA RmSteps ==
    ASSUME RmInv, RmNext \/ (UNCHANGED rmVars /\ UNCHANGED tree)
    PROVE  RmInv'
  <1>1. CASE RmNext
    BY <1>1, RmOperandStep, RmExitStep, RmPromptStep, RmEnterStep, RmEntryStep, RmEndStep,
       RmRemoveStep, RmDirectoryStep DEF RmNext
  <1>2. CASE UNCHANGED rmVars /\ UNCHANGED tree
    <2>1. UNCHANGED <<flags, named, rpc, args, calls, asking, ret, refused, start, tree>>
      BY <1>2 DEF rmVars
    <2>2. RmTree' /\ RmArgs' /\ RmTouched'
      BY <2>1, RmSame DEF RmTree, RmArgs, RmTouched, RmMayTouch, Busy, RmInv
    <2>3. RmCalls'
      <3>1. \A c : Standing(c)' = Standing(c)
        BY <2>1, RmSame DEF Standing
      <3>2. QED
        BY <2>1, <3>1, RmSame DEF RmInv, RmCalls, Stack, Busy
    <2>4. RmAsked' /\ RmSaid'
      BY <2>1, RmSame DEF RmInv, RmAsked, RmSaid
    <2>5. RmSeen'
      <3>1. \A q : Seen(q)' = Seen(q)
        BY <2>1, RmSame DEF Seen, Busy
      <3>2. QED
        BY <2>1, <3>1, RmSame DEF RmInv, RmSeen
    <2>6. QED
      BY <2>2, <2>3, <2>4, <2>5 DEF RmInv
  <1>3. QED
    BY <1>1, <1>2

(* What the invariant says of the files, and of the status at the end. *)
RmLeaves == \A p \in DOMAIN start : ~RmMayTouch(p) => p \in DOMAIN tree /\ tree[p] = start[p]

RmTells ==
    rpc = "exit" /\ ret = 0 /\ ~Forced =>
        \A i \in DOMAIN named :
            At(start, named[i]) \in DOMAIN tree =>
                \E p \in refused : AtOrBelow(At(start, named[i]), p)

LEMMA RmMeans ==
    ASSUME RmInv
    PROVE  RmLeaves /\ RmTells
  <1> USE DEF RmInv
  <1>1. RmLeaves
    BY DEF RmLeaves, RmTouched, RmTree, Within
  <1>2. ASSUME rpc = "exit", ret = 0, ~Forced, NEW i \in DOMAIN named,
               At(start, named[i]) \in DOMAIN tree
        PROVE  \E p \in refused : AtOrBelow(At(start, named[i]), p)
    <2>1. args = <<>> /\ Len(args) = 0 /\ ~Busy
      BY <1>2 DEF RmArgs, Busy
    <2>2. i \in 1..RmDone
      BY <2>1, LenProperties DEF RmArgs, RmDone
    <2>3. Seen(At(start, named[i]))
      BY <1>2, <2>2 DEF RmSeen
    <2>4. QED
      BY <1>2, <2>1, <2>3 DEF Seen
  <1>3. QED
    BY <1>1, <1>2 DEF RmTells

-----------------------------------------------------------------------------
(* mkdir, truncate, mkfifo, link and unlink. *)

W      == Words(maker)
MkSeen == Len(W) - Len(left)

MkArgs ==
    /\ IsTree(before) /\ maker \in MakerCommands
    /\ left \in Seq(Path) /\ Len(left) <= Len(W)
    /\ \A i \in 1..Len(left) : left[i] = W[MkSeen + i]
    /\ kpc \in {"next", "opened", "exit"}
    /\ depth \in Nat /\ (left # <<>> => depth < Len(Head(left)))
    /\ kpc = "opened" => Does("truncate") /\ left # <<>>
    /\ kpc = "exit" /\ ~Does("link") => left = <<>> \/ retVal # 0

\* mkdir and mkfifo: what was there is as it was, what is new may be.
MkGrown ==
    Does("mkdir") \/ Does("mkfifo") =>
        /\ Within(before, tree)
        /\ \A p \in DOMAIN tree \ DOMAIN before : MakerMayTouch(p) /\ tree[p].kind # "link"

\* truncate: a file it may touch, with the content it had or that one sized.
Was(f) == IF f \in DOMAIN before THEN before[f].content ELSE <<>>

MkSized ==
    Does("truncate") =>
        /\ DOMAIN before \subseteq DOMAIN tree
        /\ \A f \in DOMAIN tree :
             /\ IsNode(tree[f])
             /\ \/ f \in DOMAIN before /\ tree[f] = before[f]
                \/ /\ f \in DOMAIN before => before[f].kind = "file"
                   /\ tree[f].kind = "file" /\ tree[f].content \in {Was(f), Sized(Was(f))}
                   /\ MakerMayTouch(f)
        /\ kpc = "opened" => LET f == Follow(before, Head(left))
                             IN  f \in DOMAIN tree /\ tree[f].kind = "file" /\ MakerMayTouch(f)

\* link: nothing yet, or what it was told to make.
MkLinked ==
    Does("link") =>
        LET old == At(before, W[1])
            new == At(before, W[2])
        IN  \/ tree = before /\ left # <<>> /\ (kpc = "exit" => retVal # 0)
            \/ /\ kpc = "exit" /\ new \notin DOMAIN before
               /\ tree = With(before, new, before[old])

\* unlink: nothing yet, or what it was told to take.
MkTaken ==
    Does("unlink") =>
        \/ tree = before /\ (left = <<>> => retVal # 0)
        \/ left = <<>> /\ tree = Without(before, At(before, W[1]))

\* An operand seen to.
MkDid(q) ==
    LET a == At(before, q)
        f == Follow(before, q)
    IN  /\ Does("mkdir") /\ ~Has("p") => a \notin DOMAIN before /\ a \in DOMAIN tree /\ tree[a] = Dir
        /\ Does("mkfifo") => a \notin DOMAIN before /\ a \in DOMAIN tree /\ tree[a] = Fifo
        /\ Does("truncate") =>
             f \in DOMAIN tree /\ tree[f].kind = "file" /\ tree[f].content = Sized(Was(f))

MkDone == retVal = 0 => \A i \in 1..MkSeen : MkDid(W[i])

MkInv == MkArgs /\ MkGrown /\ MkSized /\ MkLinked /\ MkTaken /\ MkDone

\* While a command runs, all of these stay what they are.
LEMMA MkSame ==
    ASSUME UNCHANGED <<maker, before>>
    PROVE  /\ W' = W
           /\ \A c : Sized(c)' = Sized(c)
           /\ \A f : Was(f)' = Was(f)
           /\ \A n : (Does(n)' <=> Does(n)) /\ (Has(n)' <=> Has(n))
           /\ \A p : MakerMayTouch(p)' <=> MakerMayTouch(p)
  BY DEF W, Sized, Was, Does, Has, MakerMayTouch

(* The words are paths, and there is one at least. *)
LEMMA MkWords ==
    ASSUME maker \in MakerCommands
    PROVE  /\ W \in Seq(Path) /\ Len(W) \in Nat /\ Len(W) >= 1
           /\ Does("link") => W = maker.operands /\ Len(W) = 2
           /\ Does("unlink") => Len(W) = 1
  <1>1. PICK o : o = maker.operands
    OBVIOUS
  <1>2. /\ o \in Seq(Path) /\ Len(o) \in Nat /\ Len(o) >= 1
        /\ maker.name = "link" => Len(o) = 2
    BY <1>1, MakerCommandsAssumption, LenProperties, EmptySeq
  <1>3. CASE maker.name = "mkdir" /\ "m" \in maker.letters
    <2>1. PICK m : m = Plain("755")
      OBVIOUS
    <2>2. m \in Name
      <3>1. <<>> \in Seq(Int)
        OBVIOUS
      <3>2. QED
        BY <2>1, <3>1, MakerCommandsAssumption DEF Name, Plain
    <2>3. PICK d : d = <<m>>
      OBVIOUS
    <2>4. d \in Seq(Name) /\ Len(d) = 1
      BY <2>2, <2>3
    <2>5. d \in Path
      BY <2>4, PathIs
    <2>6. W = <<d>> \o o
      BY <1>1, <1>3, <2>1, <2>3 DEF W, Words, Mode
    <2>7. W \in Seq(Path) /\ Len(W) = Len(o) + 1
      BY <1>2, <2>5, <2>6, InFront
    <2>8. QED
      BY <1>2, <1>3, <2>7 DEF Does
  <1>4. CASE maker.name = "unlink"
    <2>1. PICK h : h = Head(o)
      OBVIOUS
    <2>2. h \in Path
      BY <1>2, <2>1, HeadTailProperties, EmptySeq
    <2>3. W = <<h>>
      BY <1>1, <1>4, <2>1 DEF W, Words
    <2>4. W \in Seq(Path) /\ Len(W) = 1
      BY <2>2, <2>3
    <2>5. QED
      BY <1>4, <2>4 DEF Does
  <1>5. CASE ~(maker.name = "mkdir" /\ "m" \in maker.letters) /\ maker.name # "unlink"
    <2>1. W = o
      BY <1>1, <1>5 DEF W, Words
    <2>2. QED
      BY <1>1, <1>2, <1>5, <2>1 DEF Does
  <1>6. QED
    BY <1>3, <1>4, <1>5

(* The operand that comes next. *)
LEMMA MkHead ==
    ASSUME MkArgs, left # <<>>
    PROVE  /\ Head(left) \in Path /\ Head(left) = W[MkSeen + 1]
           /\ MkSeen \in Nat /\ MkSeen + 1 \in 1..Len(W)
           /\ Len(Tail(left)) = Len(left) - 1
  <1>1. /\ left \in Seq(Path) /\ Len(left) \in Nat /\ Len(left) >= 1 /\ Head(left) = left[1]
        /\ Len(Tail(left)) = Len(left) - 1
    BY HeadTailProperties, LenProperties, EmptySeq DEF MkArgs
  <1>2. 1 \in 1..Len(left) /\ left[1] \in Path
    BY <1>1, ElementOfSeq
  <1>3. Len(W) \in Nat
    BY MkWords DEF MkArgs
  <1>4. left[1] = W[MkSeen + 1]
    BY <1>2 DEF MkArgs
  <1>5. QED
    BY <1>1, <1>2, <1>3, <1>4 DEF MkArgs, MkSeen

LEMMA MkFurther ==
    ASSUME MkArgs, left # <<>>, left' = Tail(left), kpc' = "next", depth' = 0,
           UNCHANGED <<maker, before>>
    PROVE  MkArgs' /\ MkSeen' = MkSeen + 1
  <1>1. PICK s, u : s = left /\ u = Tail(left)
    OBVIOUS
  <1>2. /\ s \in Seq(Path) /\ Len(s) \in Nat /\ u \in Seq(Path) /\ Len(u) = Len(s) - 1
        /\ \A i \in 1..Len(u) : u[i] = s[i + 1]
    BY <1>1, HeadTailProperties, LenProperties DEF MkArgs
  <1>3. Len(W) \in Nat /\ W' = W
    BY MkWords, MkSame DEF MkArgs
  <1>4. MkSeen' = MkSeen + 1
    BY <1>1, <1>2, <1>3 DEF MkSeen
  <1>5. ASSUME NEW i \in 1..Len(u)  PROVE u[i] = W[MkSeen' + i]
    <2>1. i + 1 \in 1..Len(s) /\ MkSeen + (i + 1) = MkSeen' + i
      BY <1>1, <1>2, <1>3, <1>4 DEF MkSeen
    <2>2. s[i + 1] = W[MkSeen + (i + 1)]
      BY <1>1, <2>1 DEF MkArgs
    <2>3. QED
      BY <1>2, <2>1, <2>2
  <1>6. u # <<>> => 0 < Len(Head(u))
    <2>1. ASSUME u # <<>>  PROVE Head(u) \in Path
      BY <1>2, <2>1, HeadTailProperties
    <2>2. QED
      BY <2>1, PathIs
  <1>7. Len(u) <= Len(W')
    BY <1>1, <1>2, <1>3 DEF MkArgs
  <1>8. QED
    BY <1>1, <1>2, <1>3, <1>4, <1>5, <1>6, <1>7, MkSame DEF MkArgs

(* Every word leads where it led when the command began. *)
LEMMA MkPlaces ==
    ASSUME MkArgs, MkGrown, MkSized, Does("mkdir") \/ Does("mkfifo") \/ Does("truncate")
    PROVE  \A q : At(tree, q) = At(before, q) /\ Follow(tree, q) = Follow(before, q)
  <1>1. ASSUME NEW q
        PROVE  /\ q \in DOMAIN tree /\ tree[q].kind = "link"
                    <=> q \in DOMAIN before /\ before[q].kind = "link"
               /\ q \in DOMAIN before /\ before[q].kind = "link" => tree[q] = before[q]
    <2>1. CASE Does("mkdir") \/ Does("mkfifo")
      BY <2>1 DEF MkGrown, Within
    <2>2. CASE Does("truncate")
      <3>1. DOMAIN before \subseteq DOMAIN tree
        BY <2>2 DEF MkSized
      <3>2. q \in DOMAIN tree =>
              \/ q \in DOMAIN before /\ tree[q] = before[q]
              \/ (q \in DOMAIN before => before[q].kind = "file") /\ tree[q].kind = "file"
        BY <2>2 DEF MkSized
      <3>3. QED
        BY <3>1, <3>2
    <2>3. QED
      BY <2>1, <2>2
  <1>2. ASSUME NEW q  PROVE At(tree, q) = At(before, q)
    <2>1. LinksAbove(tree, q) = LinksAbove(before, q)
      BY <1>1 DEF LinksAbove
    <2>2. \A x \in LinksAbove(tree, q) : tree[x].to = before[x].to
      BY <1>1 DEF LinksAbove
    <2>3. QED
      BY <2>1, <2>2, SameLinks
  <1>3. ASSUME NEW q  PROVE Follow(tree, q) = Follow(before, q)
    BY <1>1, <1>2 DEF Follow
  <1>4. QED
    BY <1>2, <1>3

(* What may be touched for the operand that comes next. *)
LEMMA MkMay ==
    ASSUME MkArgs, left # <<>>, NEW q, q = Head(left)
    PROVE  /\ Does("mkdir") \/ Does("mkfifo") =>
                (At(before, q) \notin DOMAIN before => MakerMayTouch(At(before, q)))
           /\ Does("mkdir") /\ Has("p") =>
                \A n \in 1..Len(q) :
                    At(before, SubSeq(q, 1, n)) \notin DOMAIN before =>
                        MakerMayTouch(At(before, SubSeq(q, 1, n)))
           /\ Does("truncate") =>
                (Follow(before, q) \in DOMAIN before \/ ~Has("c") => MakerMayTouch(Follow(before, q)))
  <1>1. PICK i : i = MkSeen + 1
    OBVIOUS
  <1>2. q \in Path /\ q = W[i] /\ i \in 1..Len(W) /\ W \in Seq(Path)
    BY <1>1, MkHead, MkWords DEF MkArgs
  <1>3. i \in DOMAIN Words(maker) /\ q = Words(maker)[i] /\ DOMAIN q = 1..Len(q)
    BY <1>2, LenProperties, PathIs DEF W
  <1>4. q \in ToSet(Words(maker))
    BY <1>3 DEF ToSet
  <1>5. ASSUME Does("mkdir") \/ Does("mkfifo"), At(before, q) \notin DOMAIN before
        PROVE  MakerMayTouch(At(before, q))
    BY <1>3, <1>5 DEF MakerMayTouch
  <1>6. ASSUME Does("mkdir"), Has("p"), NEW n \in 1..Len(q),
               At(before, SubSeq(q, 1, n)) \notin DOMAIN before
        PROVE  MakerMayTouch(At(before, SubSeq(q, 1, n)))
    BY <1>3, <1>6 DEF MakerMayTouch
  <1>7. ASSUME Does("truncate"), Follow(before, q) \in DOMAIN before \/ ~Has("c")
        PROVE  MakerMayTouch(Follow(before, q))
    BY <1>3, <1>4, <1>7 DEF MakerMayTouch
  <1>8. QED
    BY <1>5, <1>6, <1>7

-----------------------------------------------------------------------------
(* The steps of the commands that make. *)

(* mkdir and mkfifo: a node at a new place leaves what there was. *)
LEMMA MkGrowth ==
    ASSUME MkGrown, Does("mkdir") \/ Does("mkfifo"), UNCHANGED <<maker, before>>,
           NEW a, NEW node, a \notin DOMAIN tree, MakerMayTouch(a), node.kind # "link",
           tree' = With(tree, a, node)
    PROVE  /\ MkGrown' /\ MkSized' /\ MkLinked' /\ MkTaken'
           /\ \A q : MkDid(q) => MkDid(q)'
           /\ a \in DOMAIN tree' /\ tree'[a] = node /\ a \notin DOMAIN before
  <1>1. /\ DOMAIN tree' = DOMAIN tree \cup {a} /\ tree'[a] = node
        /\ \A p \in DOMAIN tree : tree'[p] = tree[p]
    <2>1. PICK u : u = With(tree, a, node)
      OBVIOUS
    <2>2. /\ DOMAIN u = DOMAIN tree \cup {a} /\ u[a] = node
          /\ \A p \in DOMAIN tree : p # a => u[p] = tree[p]
      BY <2>1 DEF With
    <2>3. QED
      BY <2>1, <2>2
  <1>2. Within(before, tree)
        /\ \A p \in DOMAIN tree \ DOMAIN before : MakerMayTouch(p) /\ tree[p].kind # "link"
    BY DEF MkGrown
  <1>3. Within(before', tree')
    BY <1>1, <1>2 DEF Within
  <1>4. \A p \in DOMAIN tree' \ DOMAIN before' : MakerMayTouch(p)' /\ tree'[p].kind # "link"
    BY <1>1, <1>2, MkSame
  <1>5. MkGrown'
    BY <1>3, <1>4 DEF MkGrown
  <1>6. ~Does("truncate")' /\ ~Does("link")' /\ ~Does("unlink")' /\ ~Does("truncate")
    BY DEF Does
  <1>7. MkSized' /\ MkLinked' /\ MkTaken'
    BY <1>6 DEF MkSized, MkLinked, MkTaken
  <1>8. ASSUME NEW q, MkDid(q)  PROVE MkDid(q)'
    BY <1>1, <1>6, <1>8, MkSame DEF MkDid
  <1>9. QED
    BY <1>1, <1>2, <1>5, <1>7, <1>8 DEF Within

LEMMA MkIdle ==
    ASSUME MkGrown, Does("mkdir") \/ Does("mkfifo"), UNCHANGED <<tree, maker, before>>
    PROVE  /\ MkGrown' /\ MkSized' /\ MkLinked' /\ MkTaken'
           /\ \A q : MkDid(q) => MkDid(q)'
  <1>1. MkGrown'
    BY MkSame DEF MkGrown
  <1>2. ~Does("truncate")' /\ ~Does("link")' /\ ~Does("unlink")' /\ ~Does("truncate")
    BY DEF Does
  <1>3. MkSized' /\ MkLinked' /\ MkTaken'
    BY <1>2 DEF MkSized, MkLinked, MkTaken
  <1>4. ASSUME NEW q, MkDid(q)  PROVE MkDid(q)'
    BY <1>2, <1>4, MkSame DEF MkDid
  <1>5. QED
    BY <1>1, <1>3, <1>4

(* One operand more has been seen to. *)
LEMMA MkDoneMore ==
    ASSUME MkArgs, left # <<>>, MkDone, MkSeen' = MkSeen + 1, UNCHANGED <<maker, before>>,
           retVal' = retVal, \A q : MkDid(q) => MkDid(q)',
           NEW h, h = Head(left), MkDid(h)'
    PROVE  MkDone'
  <1>1. h = W[MkSeen + 1] /\ MkSeen \in Nat /\ W' = W
    BY MkHead, MkSame
  <1>2. ASSUME retVal = 0, NEW i \in 1..(MkSeen + 1), NEW q, q = W[i]  PROVE MkDid(q)'
    <2>1. CASE i \in 1..MkSeen
      BY <1>2, <2>1 DEF MkDone
    <2>2. CASE i = MkSeen + 1
      BY <1>1, <1>2, <2>2
    <2>3. QED
      BY <1>1, <1>2, <2>1, <2>2
  <1>3. ASSUME retVal' = 0, NEW i \in 1..MkSeen'  PROVE MkDid(W[i])'
    <2>1. PICK q : q = W[i]
      OBVIOUS
    <2>2. MkDid(q)' /\ q = W'[i]
      BY <1>1, <1>2, <1>3, <2>1
    <2>3. QED
      BY <2>2 DEF MkDid
  <1>4. QED
    BY <1>3 DEF MkDone

LEMMA MkdirStep ==
    ASSUME MkInv, Mkdir
    PROVE  MkInv'
  <1> USE DEF MkInv
  <1>1. /\ kpc = "next" /\ left # <<>> /\ Does("mkdir") /\ ~Has("p")
        /\ UNCHANGED <<maker, before>>
    BY DEF Mkdir, AtOperand, MakerKeep
  <1>2. PICK q, a : q = Head(left) /\ a = At(before, q)
    OBVIOUS
  <1>3. At(tree, q) = a
    BY <1>1, <1>2, MkPlaces
  <1>4. \/ a \notin DOMAIN tree /\ tree' = With(tree, a, Dir) /\ Done
        \/ UNCHANGED tree /\ Failed
    BY <1>1, <1>2, <1>3 DEF Mkdir, CanMkdir, Made
  <1>5. MkArgs' /\ MkSeen' = MkSeen + 1
    BY <1>1, <1>4, MkFurther DEF Done, Failed
  <1>6. CASE a \notin DOMAIN tree /\ tree' = With(tree, a, Dir) /\ Done
    <2>1. a \notin DOMAIN before
      BY <1>1, <1>6 DEF MkGrown, Within
    <2>2. MakerMayTouch(a)
      BY <1>1, <1>2, <2>1, MkMay
    <2>3. Dir.kind # "link"
      BY DEF Dir
    <2>4. /\ MkGrown' /\ MkSized' /\ MkLinked' /\ MkTaken'
          /\ \A p : MkDid(p) => MkDid(p)'
          /\ a \in DOMAIN tree' /\ tree'[a] = Dir
      BY <1>1, <1>6, <2>2, <2>3, MkGrowth
    <2>5. MkDid(q)'
      <3>1. ~Does("truncate")' /\ ~Does("mkfifo")' /\ a = At(before, q)'
        BY <1>1, <1>2 DEF Does
      <3>2. QED
        BY <1>1, <2>1, <2>4, <3>1 DEF MkDid
    <2>6. MkDone'
      BY <1>1, <1>2, <1>5, <1>6, <2>4, <2>5, MkDoneMore DEF Done
    <2>7. QED
      BY <1>5, <2>4, <2>6
  <1>7. CASE UNCHANGED tree /\ Failed
    <2>1. MkGrown' /\ MkSized' /\ MkLinked' /\ MkTaken'
      BY <1>1, <1>7, MkIdle
    <2>2. MkDone'
      BY <1>7 DEF Failed, MkDone
    <2>3. QED
      BY <1>5, <2>1, <2>2
  <1>8. QED
    BY <1>4, <1>6, <1>7

LEMMA MkParentStep ==
    ASSUME MkInv, CreateParent
    PROVE  MkInv'
  <1> USE DEF MkInv
  <1>1. /\ kpc = "next" /\ left # <<>> /\ Does("mkdir") /\ Has("p")
        /\ UNCHANGED <<maker, before>>
    BY DEF CreateParent, AtOperand, MakerKeep
  <1>2. PICK q, n : q = Head(left) /\ n = depth + 1
    OBVIOUS
  <1>3. PICK p, a : p = SubSeq(q, 1, n) /\ a = At(before, p)
    OBVIOUS
  <1>4. At(tree, p) = a
    BY <1>1, MkPlaces, <1>3
  <1>5. n \in 1..Len(q) /\ n \in Nat
    <2>1. depth \in Nat /\ depth < Len(q) /\ q \in Path
      BY <1>1, <1>2, MkHead DEF MkArgs
    <2>2. QED
      BY <1>2, <2>1, PathIs, LenProperties
  <1>6. /\ \/ a \notin DOMAIN tree /\ tree' = With(tree, a, Dir)
           \/ UNCHANGED tree
        /\ \/ Done
           \/ n # Len(q) /\ depth' = n /\ UNCHANGED <<left, kpc, retVal>>
    BY <1>2, <1>3, <1>4 DEF CreateParent, CanMkdir, Made
  <1>7. MkGrown' /\ MkSized' /\ MkLinked' /\ MkTaken'
    <2>1. CASE a \notin DOMAIN tree /\ tree' = With(tree, a, Dir)
      <3>1. a \notin DOMAIN before
        BY <1>1, <2>1 DEF MkGrown, Within
      <3>2. MakerMayTouch(a)
        BY <1>1, <1>2, <1>3, <1>5, <3>1, MkMay
      <3>3. Dir.kind # "link"
        BY DEF Dir
      <3>4. QED
        BY <1>1, <2>1, <3>2, <3>3, MkGrowth
    <2>2. CASE UNCHANGED tree
      BY <1>1, <2>2, MkIdle
    <2>3. QED
      BY <1>6, <2>1, <2>2
  <1>8. MkArgs'
    <2>1. CASE Done
      BY <1>1, <2>1, MkFurther DEF Done
    <2>2. CASE n # Len(q) /\ depth' = n /\ UNCHANGED <<left, kpc, retVal>>
      <3>1. depth' \in Nat /\ depth' < Len(Head(left'))
        BY <1>2, <1>5, <2>2
      <3>2. QED
        BY <1>1, <2>2, <3>1, MkSame DEF MkArgs, MkSeen
    <2>3. QED
      BY <1>6, <2>1, <2>2
  <1>9. MkDone'
    <2>1. Does("mkdir")' /\ Has("p")' /\ ~Does("truncate")' /\ ~Does("mkfifo")'
      BY <1>1 DEF Does, Has
    <2>2. \A x : MkDid(x)'
      BY <2>1 DEF MkDid
    <2>3. QED
      BY <2>2 DEF MkDone, MkDid
  <1>10. QED
    BY <1>7, <1>8, <1>9

LEMMA MkfifoStep ==
    ASSUME MkInv, Mkfifo
    PROVE  MkInv'
  <1> USE DEF MkInv
  <1>1. /\ kpc = "next" /\ left # <<>> /\ Does("mkfifo") /\ UNCHANGED <<maker, before>>
    BY DEF Mkfifo, AtOperand, MakerKeep
  <1>2. PICK q, a : q = Head(left) /\ a = At(before, q)
    OBVIOUS
  <1>3. At(tree, q) = a
    BY <1>1, <1>2, MkPlaces
  <1>4. \/ a \notin DOMAIN tree /\ tree' = With(tree, a, Fifo) /\ Done
        \/ retVal' = 1 /\ kpc' = "exit" /\ UNCHANGED <<tree, left, depth>>
    BY <1>2, <1>3 DEF Mkfifo
  <1>5. CASE a \notin DOMAIN tree /\ tree' = With(tree, a, Fifo) /\ Done
    <2>1. a \notin DOMAIN before
      BY <1>1, <1>5 DEF MkGrown, Within
    <2>2. MakerMayTouch(a)
      BY <1>1, <1>2, <2>1, MkMay
    <2>3. Fifo.kind # "link"
      BY DEF Fifo
    <2>4. /\ MkGrown' /\ MkSized' /\ MkLinked' /\ MkTaken'
          /\ \A p : MkDid(p) => MkDid(p)'
          /\ a \in DOMAIN tree' /\ tree'[a] = Fifo
      BY <1>1, <1>5, <2>2, <2>3, MkGrowth
    <2>5. MkDid(q)'
      <3>1. ~Does("truncate")' /\ ~Does("mkdir")' /\ a = At(before, q)'
        BY <1>1, <1>2 DEF Does
      <3>2. QED
        BY <1>1, <2>1, <2>4, <3>1 DEF MkDid
    <2>6. MkArgs' /\ MkSeen' = MkSeen + 1
      BY <1>1, <1>5, MkFurther DEF Done
    <2>7. MkDone'
      BY <1>1, <1>2, <1>5, <2>4, <2>5, <2>6, MkDoneMore DEF Done
    <2>8. QED
      BY <2>4, <2>6, <2>7
  <1>6. CASE retVal' = 1 /\ kpc' = "exit" /\ UNCHANGED <<tree, left, depth>>
    <2>1. MkGrown' /\ MkSized' /\ MkLinked' /\ MkTaken'
      BY <1>1, <1>6, MkIdle
    <2>2. MkDone'
      BY <1>6 DEF MkDone
    <2>3. MkArgs'
      BY <1>1, <1>6, MkSame DEF MkArgs, MkSeen
    <2>4. QED
      BY <2>1, <2>2, <2>3
  <1>7. QED
    BY <1>4, <1>5, <1>6

(* What a path leads to in the end is no link. *)
LEMMA FollowIs ==
    ASSUME NEW t, IsTree(t), NEW q \in Path, Follow(t, q) \in DOMAIN t
    PROVE  t[Follow(t, q)].kind # "link"
  <1>1. PICK a, f : a = At(t, q) /\ f = Follow(t, q)
    OBVIOUS
  <1>2. f = IF a \in DOMAIN t /\ t[a].kind = "link" THEN t[a].to ELSE a
    BY <1>1 DEF Follow
  <1>3. CASE a \in DOMAIN t /\ t[a].kind = "link"
    <2>1. f = t[a].to /\ f \in Seq(Name)
      BY <1>1, <1>2, <1>3, TreeIs, PathIs DEF Pathwise
    <2>2. AtOrBelow(f, f)
      BY <2>1, PrefixOrder
    <2>3. QED
      BY <1>1, <1>3, <2>1, <2>2, TreeIs DEF LinksLeadOff
  <1>4. CASE ~(a \in DOMAIN t /\ t[a].kind = "link")
    BY <1>1, <1>2, <1>4
  <1>5. QED
    BY <1>3, <1>4

(* A content sized twice is sized. *)
LEMMA SizedTwice ==
    ASSUME NEW c
    PROVE  Sized(Sized(c)) = Sized(c)
  BY DEF Sized

(* truncate, on a tree that stays or grows by an empty file. *)
LEMMA MkNotOthers ==
    ASSUME Does("truncate"), UNCHANGED <<maker, before>>
    PROVE  MkGrown' /\ MkLinked' /\ MkTaken'
  <1>1. ~Does("mkdir")' /\ ~Does("mkfifo")' /\ ~Does("link")' /\ ~Does("unlink")'
    BY DEF Does
  <1>2. QED
    BY <1>1 DEF MkGrown, MkLinked, MkTaken

LEMMA MkOpenStep ==
    ASSUME MkInv, TruncateOpen
    PROVE  MkInv'
  <1> USE DEF MkInv
  <1>1. kpc = "next" /\ left # <<>> /\ Does("truncate") /\ UNCHANGED <<maker, before>>
    BY DEF TruncateOpen, AtOperand, MakerKeep
  <1>2. PICK q, f : q = Head(left) /\ f = Follow(before, q)
    OBVIOUS
  <1>3. Follow(tree, q) = f /\ q \in Path
    BY <1>1, <1>2, MkPlaces, MkHead
  <1>4. MkGrown' /\ MkLinked' /\ MkTaken'
    BY <1>1, MkNotOthers
  <1>5. \/ /\ f \notin DOMAIN tree /\ ~Has("c") /\ tree' = With(tree, f, File(<<>>))
           /\ kpc' = "opened" /\ UNCHANGED <<left, depth, retVal>>
        \/ /\ f \in DOMAIN tree /\ tree[f].kind # "dir" /\ UNCHANGED tree
           /\ kpc' = "opened" /\ UNCHANGED <<left, depth, retVal>>
        \/ UNCHANGED tree /\ Failed
    BY <1>2, <1>3 DEF TruncateOpen, Exists, IsDir
  <1>6. /\ DOMAIN before \subseteq DOMAIN tree
        /\ \A g \in DOMAIN tree :
             /\ IsNode(tree[g])
             /\ \/ g \in DOMAIN before /\ tree[g] = before[g]
                \/ /\ g \in DOMAIN before => before[g].kind = "file"
                   /\ tree[g].kind = "file" /\ tree[g].content \in {Was(g), Sized(Was(g))}
                   /\ MakerMayTouch(g)
    BY <1>1 DEF MkSized
  <1>7. CASE /\ f \notin DOMAIN tree /\ ~Has("c") /\ tree' = With(tree, f, File(<<>>))
             /\ kpc' = "opened" /\ UNCHANGED <<left, depth, retVal>>
    <2>1. PICK node : node = File(<<>>)
      OBVIOUS
    <2>2. /\ node = [kind |-> "file", content |-> <<>>, ro |-> FALSE]
          /\ node.kind = "file" /\ node.content = <<>> /\ IsNode(node)
      BY <2>1 DEF File, IsNode
    <2>3. /\ DOMAIN tree' = DOMAIN tree \cup {f} /\ tree'[f] = node
          /\ \A g \in DOMAIN tree : tree'[g] = tree[g]
      <3>1. PICK u : u = With(tree, f, node)
        OBVIOUS
      <3>2. /\ DOMAIN u = DOMAIN tree \cup {f} /\ u[f] = node
            /\ \A p \in DOMAIN tree : p # f => u[p] = tree[p]
        BY <3>1 DEF With
      <3>3. QED
        BY <1>7, <2>1, <3>1, <3>2
    <2>4. MakerMayTouch(f) /\ f \notin DOMAIN before /\ Was(f) = <<>>
      BY <1>1, <1>2, <1>6, <1>7, MkMay DEF Was
    <2>5. ASSUME NEW g \in DOMAIN tree'
          PROVE  /\ IsNode(tree'[g])
                 /\ \/ g \in DOMAIN before /\ tree'[g] = before[g]
                    \/ /\ g \in DOMAIN before => before[g].kind = "file"
                       /\ tree'[g].kind = "file" /\ tree'[g].content \in {Was(g), Sized(Was(g))}
                       /\ MakerMayTouch(g)
      <3>1. CASE g = f
        BY <2>2, <2>3, <2>4, <3>1
      <3>2. CASE g \in DOMAIN tree
        <4>1. tree'[g] = tree[g]
          BY <2>3, <3>2
        <4>2. QED
          BY <1>6, <3>2, <4>1
      <3>3. QED
        BY <2>3, <3>1, <3>2
    <2>6. Follow(before, Head(left))' = f
      BY <1>1, <1>2, <1>7
    <2>7. MkSized'
      BY <1>1, <1>6, <2>2, <2>3, <2>4, <2>5, <2>6, MkSame DEF MkSized
    <2>8. MkArgs'
      BY <1>1, <1>7, MkSame DEF MkArgs, MkSeen
    <2>9. ASSUME NEW p, MkDid(p)  PROVE MkDid(p)'
      BY <1>1, <1>7, <2>3, <2>9, MkSame DEF MkDid, Does
    <2>10. MkDone'
      <3>1. ASSUME retVal' = 0, NEW i \in 1..MkSeen'  PROVE MkDid(W[i])'
        <4>1. PICK p : p = W[i]
          OBVIOUS
        <4>2. MkDid(p)
          BY <1>1, <1>7, <3>1, <4>1, MkSame DEF MkDone, MkSeen
        <4>3. MkDid(p)' /\ p = W'[i]
          BY <1>1, <2>9, <4>1, <4>2, MkSame
        <4>4. QED
          BY <4>3 DEF MkDid
      <3>2. QED
        BY <3>1 DEF MkDone
    <2>11. QED
      BY <1>4, <2>7, <2>8, <2>10
  <1>8. CASE /\ f \in DOMAIN tree /\ tree[f].kind # "dir" /\ UNCHANGED tree
             /\ kpc' = "opened" /\ UNCHANGED <<left, depth, retVal>>
    <2>1. tree[f].kind = "file" /\ MakerMayTouch(f)
      <3>1. CASE f \in DOMAIN before /\ tree[f] = before[f]
        <4>1. before[f].kind # "link"
          BY <1>2, <1>3, <3>1, FollowIs DEF MkArgs
        <4>2. tree[f].kind = "file"
          BY <1>6, <1>8, <3>1, <4>1 DEF IsNode
        <4>3. QED
          BY <1>1, <1>2, <3>1, <4>2, MkMay
      <3>2. CASE ~(f \in DOMAIN before /\ tree[f] = before[f])
        BY <1>6, <1>8, <3>2
      <3>3. QED
        BY <3>1, <3>2
    <2>2. Follow(before, Head(left))' = f
      BY <1>1, <1>2, <1>8
    <2>3. MkSized'
      BY <1>1, <1>6, <1>8, <2>1, <2>2, MkSame DEF MkSized
    <2>4. MkArgs'
      BY <1>1, <1>8, MkSame DEF MkArgs, MkSeen
    <2>5. MkDone'
      BY <1>1, <1>8, MkSame DEF MkDone, MkDid, MkSeen
    <2>6. QED
      BY <1>4, <2>3, <2>4, <2>5
  <1>9. CASE UNCHANGED tree /\ Failed
    <2>1. MkArgs'
      BY <1>1, <1>9, MkFurther DEF Failed
    <2>2. MkSized'
      BY <1>1, <1>6, <1>9, MkSame DEF MkSized, Failed
    <2>3. MkDone'
      BY <1>9 DEF MkDone, Failed
    <2>4. QED
      BY <1>4, <2>1, <2>2, <2>3
  <1>10. QED
    BY <1>5, <1>7, <1>8, <1>9

LEMMA MkSizeStep ==
    ASSUME MkInv, Ftruncate
    PROVE  MkInv'
  <1> USE DEF MkInv
  <1>1. /\ kpc = "opened" /\ left # <<>> /\ Does("truncate") /\ UNCHANGED <<maker, before>>
    BY DEF Ftruncate, MakerKeep, MkArgs
  <1>2. PICK q, f : q = Head(left) /\ f = Follow(before, q)
    OBVIOUS
  <1>3. Follow(tree, q) = f /\ q \in Path
    BY <1>1, <1>2, MkPlaces, MkHead
  <1>4. MkGrown' /\ MkLinked' /\ MkTaken'
    BY <1>1, MkNotOthers
  <1>5. \/ tree' = [tree EXCEPT ![f].content = Sized(@)] /\ Done
        \/ UNCHANGED tree /\ Failed
    BY <1>2, <1>3 DEF Ftruncate
  <1>6. /\ DOMAIN before \subseteq DOMAIN tree
        /\ \A g \in DOMAIN tree :
             /\ IsNode(tree[g])
             /\ \/ g \in DOMAIN before /\ tree[g] = before[g]
                \/ /\ g \in DOMAIN before => before[g].kind = "file"
                   /\ tree[g].kind = "file" /\ tree[g].content \in {Was(g), Sized(Was(g))}
                   /\ MakerMayTouch(g)
        /\ f \in DOMAIN tree /\ tree[f].kind = "file" /\ MakerMayTouch(f)
    BY <1>1, <1>2 DEF MkSized
  <1>7. MkArgs' /\ MkSeen' = MkSeen + 1
    BY <1>1, <1>5, MkFurther DEF Done, Failed
  <1>8. kpc' = "next"
    BY <1>5 DEF Done, Failed
  <1>9. CASE tree' = [tree EXCEPT ![f].content = Sized(@)] /\ Done
    <2>1. PICK c, o : c = tree[f].content /\ o = tree[f].ro
      OBVIOUS
    <2>2. tree[f] = [kind |-> "file", content |-> c, ro |-> o]
      BY <1>6, <2>1 DEF IsNode
    <2>3. PICK d : d = Sized(c)
      OBVIOUS
    <2>4. tree' = [tree EXCEPT ![f] = [@ EXCEPT !.content = d]]
      BY <1>9, <2>1, <2>3
    <2>5. [tree[f] EXCEPT !.content = d] = [kind |-> "file", content |-> d, ro |-> o]
      BY <2>2
    <2>6. PICK node : node = [kind |-> "file", content |-> d, ro |-> o]
      OBVIOUS
    <2>7. node.kind = "file" /\ node.content = d /\ IsNode(node)
      BY <2>6 DEF IsNode
    <2>8. /\ DOMAIN tree' = DOMAIN tree /\ tree'[f] = node
          /\ \A g \in DOMAIN tree : g # f => tree'[g] = tree[g]
      BY <1>6, <2>4, <2>5, <2>6
    <2>9. c \in {Was(f), Sized(Was(f))} /\ (f \in DOMAIN before => before[f].kind = "file")
      <3>1. CASE f \in DOMAIN before /\ tree[f] = before[f]
        BY <1>6, <2>1, <3>1 DEF Was
      <3>2. CASE ~(f \in DOMAIN before /\ tree[f] = before[f])
        BY <1>6, <2>1, <3>2
      <3>3. QED
        BY <3>1, <3>2
    <2>10. d = Sized(Was(f))
      BY <2>3, <2>9, SizedTwice
    <2>11. ASSUME NEW g \in DOMAIN tree'
           PROVE  /\ IsNode(tree'[g])
                  /\ \/ g \in DOMAIN before /\ tree'[g] = before[g]
                     \/ /\ g \in DOMAIN before => before[g].kind = "file"
                        /\ tree'[g].kind = "file" /\ tree'[g].content \in {Was(g), Sized(Was(g))}
                        /\ MakerMayTouch(g)
      <3>1. CASE g = f
        BY <1>6, <2>7, <2>8, <2>9, <2>10, <3>1
      <3>2. CASE g # f
        <4>1. g \in DOMAIN tree /\ tree'[g] = tree[g]
          BY <2>8, <3>2
        <4>2. QED
          BY <1>6, <4>1
      <3>3. QED
        BY <3>1, <3>2
    <2>12. MkSized'
      BY <1>1, <1>6, <1>8, <2>8, <2>11, MkSame DEF MkSized
    <2>13. ASSUME NEW p, MkDid(p)  PROVE MkDid(p)'
      <3>1. PICK g : g = Follow(before, p)
        OBVIOUS
      <3>2. g \in DOMAIN tree /\ tree[g].kind = "file" /\ tree[g].content = Sized(Was(g))
        BY <1>1, <2>13, <3>1 DEF MkDid
      <3>3. g \in DOMAIN tree' /\ tree'[g].kind = "file" /\ tree'[g].content = Sized(Was(g))
        <4>1. CASE g = f
          BY <2>7, <2>8, <2>10, <3>2, <4>1
        <4>2. CASE g # f
          BY <2>8, <3>2, <4>2
        <4>3. QED
          BY <4>1, <4>2
      <3>4. g = Follow(before, p)' /\ ~Does("mkdir")' /\ ~Does("mkfifo")'
        BY <1>1, <3>1 DEF Does
      <3>5. QED
        BY <1>1, <3>3, <3>4, MkSame DEF MkDid
    <2>14. MkDid(q)'
      <3>1. f = Follow(before, q)' /\ ~Does("mkdir")' /\ ~Does("mkfifo")'
        BY <1>1, <1>2 DEF Does
      <3>2. QED
        BY <1>1, <1>6, <2>7, <2>8, <2>10, <3>1, MkSame DEF MkDid
    <2>15. MkDone'
      BY <1>1, <1>2, <1>7, <1>9, <2>13, <2>14, MkDoneMore DEF Done
    <2>16. QED
      BY <1>4, <1>7, <2>12, <2>15
  <1>10. CASE UNCHANGED tree /\ Failed
    <2>1. MkSized'
      BY <1>1, <1>6, <1>8, <1>10, MkSame DEF MkSized
    <2>2. MkDone'
      BY <1>10 DEF MkDone, Failed
    <2>3. QED
      BY <1>4, <1>7, <2>1, <2>2
  <1>11. QED
    BY <1>5, <1>9, <1>10

(* link and unlink: one thing is made or taken, or nothing. *)
LEMMA MkLinkStep ==
    ASSUME MkInv, HardLink
    PROVE  MkInv'
  <1> USE DEF MkInv
  <1>1. /\ kpc = "next" /\ left # <<>> /\ Does("link") /\ UNCHANGED <<maker, before>>
        /\ kpc' = "exit" /\ UNCHANGED <<left, depth>>
    BY DEF HardLink, AtOperand, MakerKeep
  <1>2. tree = before
    BY <1>1 DEF MkLinked
  <1>3. W = maker.operands
    BY <1>1, MkWords DEF MkArgs
  <1>4. PICK old, new : old = At(before, W[1]) /\ new = At(before, W[2])
    OBVIOUS
  <1>5. \/ new \notin DOMAIN before /\ tree' = With(before, new, before[old]) /\ UNCHANGED retVal
        \/ tree' = before /\ retVal' = 1
    BY <1>2, <1>3, <1>4 DEF HardLink
  <1>6. /\ Does("link")' /\ ~Does("mkdir")' /\ ~Does("mkfifo")' /\ ~Does("truncate")'
        /\ ~Does("unlink")'
    BY <1>1 DEF Does
  <1>7. MkArgs'
    BY <1>1, <1>6, MkSame DEF MkArgs, MkSeen
  <1>8. MkGrown' /\ MkSized' /\ MkTaken'
    BY <1>6 DEF MkGrown, MkSized, MkTaken
  <1>9. MkDone'
    BY <1>6 DEF MkDone, MkDid
  <1>10. MkLinked'
    <2>1. At(before, W[1])' = old /\ At(before, W[2])' = new
      BY <1>1, <1>4, MkSame
    <2>2. QED
      BY <1>1, <1>5, <2>1 DEF MkLinked
  <1>11. QED
    BY <1>7, <1>8, <1>9, <1>10

LEMMA MkUnlinkStep ==
    ASSUME MkInv, UnlinkOne
    PROVE  MkInv'
  <1> USE DEF MkInv
  <1>1. kpc = "next" /\ left # <<>> /\ Does("unlink") /\ UNCHANGED <<maker, before>>
    BY DEF UnlinkOne, AtOperand, MakerKeep
  <1>2. tree = before
    BY <1>1 DEF MkTaken
  <1>3. Head(left) = W[1] /\ MkSeen + 1 = 1 /\ Len(W) = 1
    BY <1>1, MkHead, MkWords DEF MkArgs
  <1>4. \/ tree' = Without(before, At(before, W[1])) /\ Done
        \/ tree' = before /\ Failed
    BY <1>2, <1>3 DEF UnlinkOne
  <1>5. MkArgs' /\ MkSeen' = MkSeen + 1
    BY <1>1, <1>4, MkFurther DEF Done, Failed
  <1>6. left' = <<>>
    <2>1. PICK s : s = left'
      OBVIOUS
    <2>2. s \in Seq(Path) /\ Len(s) = 0
      <3>1. Len(Tail(left)) = Len(left) - 1 /\ Len(left) <= 1 /\ Len(left) \in Nat
        BY <1>1, <1>3, MkHead, LenProperties DEF MkArgs
      <3>2. left' = Tail(left)
        BY <1>4 DEF Done, Failed
      <3>3. left' \in Seq(Path) /\ Len(left') \in Nat
        BY <1>5, LenProperties DEF MkArgs
      <3>4. Len(s) = Len(left) - 1
        BY <2>1, <3>1, <3>2
      <3>5. s \in Seq(Path) /\ Len(s) \in Nat
        BY <2>1, <3>3
      <3>6. QED
        BY <3>1, <3>4, <3>5
    <2>3. QED
      BY <2>1, <2>2, EmptySeq
  <1>7. /\ Does("unlink")' /\ ~Does("mkdir")' /\ ~Does("mkfifo")' /\ ~Does("truncate")'
        /\ ~Does("link")'
    BY <1>1 DEF Does
  <1>8. MkGrown' /\ MkSized' /\ MkLinked' /\ MkDone'
    BY <1>7 DEF MkGrown, MkSized, MkLinked, MkDone, MkDid
  <1>9. MkTaken'
    <2>1. At(before, W[1])' = At(before, W[1])
      BY <1>1, MkSame
    <2>2. CASE tree' = Without(before, At(before, W[1]))
      BY <1>1, <1>6, <2>1, <2>2 DEF MkTaken
    <2>3. CASE tree' = before /\ Failed
      BY <1>1, <2>3 DEF MkTaken, Failed
    <2>4. QED
      BY <1>4, <2>2, <2>3
  <1>10. QED
    BY <1>5, <1>8, <1>9

LEMMA MkExitStep ==
    ASSUME MkInv, MakerExit
    PROVE  MkInv'
  <1> USE DEF MkInv
  <1>1. /\ kpc = "next" /\ left = <<>> /\ kpc' = "exit"
        /\ UNCHANGED <<tree, left, depth, retVal, maker, before>>
    BY DEF MakerExit, MakerKeep
  <1>2. ~Does("link")
    BY <1>1 DEF MkLinked
  <1>3. ~Does("link")'
    BY <1>1, <1>2, MkSame
  <1>4. MkArgs'
    BY <1>1, MkSame DEF MkArgs, MkSeen
  <1>5. MkGrown' /\ MkSized' /\ MkLinked' /\ MkTaken' /\ MkDone'
    BY <1>1, <1>3, MkSame DEF MkGrown, MkSized, MkLinked, MkTaken, MkDone, MkDid, MkSeen
  <1>6. QED
    BY <1>4, <1>5

(* A run of a command, from its first state through each of its steps. *)
LEMMA MkBegins ==
    ASSUME NEW c \in MakerCommands, MakerInit(c), tree \in Trees
    PROVE  MkInv
  <1>1. /\ maker = c /\ kpc = "next" /\ left = W /\ depth = 0 /\ retVal = 0 /\ before = tree
    BY DEF MakerInit, W
  <1>2. IsTree(before) /\ maker \in MakerCommands
    BY <1>1, TreesAssumption
  <1>3. W \in Seq(Path) /\ Len(W) \in Nat /\ Len(W) >= 1 /\ W # <<>>
    BY <1>2, MkWords, EmptySeq
  <1>4. MkSeen = 0
    BY <1>1, <1>3 DEF MkSeen
  <1>5. MkArgs
    <2>1. Head(left) \in Path
      BY <1>1, <1>3, HeadTailProperties
    <2>2. 0 < Len(Head(left))
      BY <2>1, PathIs
    <2>3. QED
      BY <1>1, <1>2, <1>3, <1>4, <2>2 DEF MkArgs
  <1>6. MkGrown
    BY <1>1 DEF MkGrown, Within
  <1>7. MkSized
    BY <1>1, <1>2 DEF MkSized, IsTree
  <1>8. MkLinked /\ MkTaken
    BY <1>1, <1>3 DEF MkLinked, MkTaken
  <1>9. MkDone
    BY <1>4 DEF MkDone
  <1>10. QED
    BY <1>5, <1>6, <1>7, <1>8, <1>9 DEF MkInv

LEMMA MkSteps ==
    ASSUME MkInv, MakerNext \/ (UNCHANGED makerVars /\ UNCHANGED tree)
    PROVE  MkInv'
  <1>1. CASE MakerNext
    BY <1>1, MkdirStep, MkParentStep, MkOpenStep, MkSizeStep, MkfifoStep, MkLinkStep,
       MkUnlinkStep, MkExitStep DEF MakerNext
  <1>2. CASE UNCHANGED makerVars /\ UNCHANGED tree
    <2>1. UNCHANGED <<tree, maker, kpc, left, depth, retVal, before>>
      BY <1>2 DEF makerVars
    <2>2. QED
      BY <2>1, MkSame DEF MkInv, MkArgs, MkGrown, MkSized, MkLinked, MkTaken, MkDone, MkDid, MkSeen
  <1>3. QED
    BY <1>1, <1>2

(* What the invariant says of the files, and of the status at the end. *)
MkLeaves ==
    \A p \in DOMAIN before \cup DOMAIN tree :
        ~MakerMayTouch(p) => p \in DOMAIN before /\ p \in DOMAIN tree /\ tree[p] = before[p]

LEMMA MkLeft ==
    ASSUME MkInv
    PROVE  MkLeaves
  <1> USE DEF MkInv
  <1>1. CASE Does("mkdir") \/ Does("mkfifo")
    BY <1>1 DEF MkGrown, Within, MkLeaves
  <1>2. CASE Does("truncate")
    BY <1>2 DEF MkSized, MkLeaves
  <1>3. CASE Does("link")
    <2>1. W \in Seq(Path) /\ Len(W) = 2
      BY <1>3, MkWords DEF MkArgs
    <2>2. PICK old, new : old = At(before, W[1]) /\ new = At(before, W[2])
      OBVIOUS
    <2>3. \/ tree = before
          \/ new \notin DOMAIN before /\ tree = With(before, new, before[old])
      BY <1>3, <2>2 DEF MkLinked
    <2>4. ASSUME new \notin DOMAIN before  PROVE MakerMayTouch(new)
      <3>1. 2 \in DOMAIN Words(maker)
        BY <2>1 DEF W
      <3>2. QED
        BY <1>3, <2>2, <2>4, <3>1 DEF MakerMayTouch, W
    <2>5. QED
      BY <2>3, <2>4 DEF MkLeaves, With
  <1>4. CASE Does("unlink")
    <2>1. W \in Seq(Path) /\ Len(W) = 1
      BY <1>4, MkWords DEF MkArgs
    <2>2. PICK x : x = At(before, W[1])
      OBVIOUS
    <2>3. tree = before \/ tree = Without(before, x)
      BY <1>4, <2>2 DEF MkTaken
    <2>4. ASSUME x \in DOMAIN before  PROVE MakerMayTouch(x)
      <3>1. W[1] \in ToSet(Words(maker))
        BY <2>1 DEF W, ToSet
      <3>2. QED
        BY <1>4, <2>2, <2>4, <3>1 DEF MakerMayTouch
    <2>5. QED
      BY <2>3, <2>4 DEF MkLeaves, Without
  <1>5. QED
    BY <1>1, <1>2, <1>3, <1>4, MakerCommandsAssumption DEF Does, MkArgs

LEMMA MkMeans ==
    ASSUME MkInv
    PROVE  kpc = "exit" /\ retVal = 0 => MakerDid
  <1> USE DEF MkInv
  <1> SUFFICES ASSUME kpc = "exit", retVal = 0, NEW i \in DOMAIN W, NEW q, q = W[i]
               PROVE  /\ Does("mkdir") /\ ~Has("p") =>
                           /\ At(before, q) \notin DOMAIN before
                           /\ At(tree, q) \in DOMAIN tree /\ tree[At(tree, q)] = Dir
                      /\ Does("mkfifo") =>
                           /\ At(before, q) \notin DOMAIN before
                           /\ At(tree, q) \in DOMAIN tree /\ tree[At(tree, q)] = Fifo
                      /\ Does("truncate") =>
                           Reads(tree, q) = Sized(IF Exists(before, q) THEN Reads(before, q) ELSE <<>>)
                      /\ Does("link") /\ i = 2 =>
                           /\ At(before, q) \notin DOMAIN before
                           /\ At(tree, q) \in DOMAIN tree
                           /\ tree[At(tree, q)] = before[At(before, maker.operands[1])]
                      /\ Does("unlink") => At(tree, q) \notin DOMAIN tree
    BY DEF MakerDid, W
  <1>1. W \in Seq(Path) /\ Len(W) \in Nat /\ i \in 1..Len(W) /\ q \in Path
    BY MkWords, ElementOfSeq, LenProperties DEF MkArgs
  <1>2. ASSUME ~Does("link")  PROVE MkDid(q)
    <2>1. left = <<>>
      BY <1>2 DEF MkArgs
    <2>2. MkSeen = Len(W)
      BY <1>1, <2>1 DEF MkSeen
    <2>3. QED
      BY <1>1, <2>2 DEF MkDone
  <1>3. Pathwise(before) /\ Rooted(before) /\ LinksLeadOff(before)
    BY TreeIs DEF MkArgs
  <1>4. CASE Does("mkdir") \/ Does("mkfifo")
    <2>1. At(tree, q) = At(before, q) /\ MkDid(q)
      BY <1>2, <1>4, MkPlaces DEF Does
    <2>2. ~Does("truncate") /\ ~Does("link") /\ ~Does("unlink")
      BY <1>4 DEF Does
    <2>3. QED
      BY <2>1, <2>2 DEF MkDid
  <1>5. CASE Does("truncate")
    <2>1. PICK f : f = Follow(before, q)
      OBVIOUS
    <2>2. /\ Follow(tree, q) = f /\ f \in DOMAIN tree /\ tree[f].kind = "file"
          /\ tree[f].content = Sized(Was(f))
      BY <1>2, <1>5, <2>1, MkPlaces DEF Does, MkDid
    <2>3. Reads(tree, q) = Sized(Was(f))
      BY <2>2 DEF Reads, Exists
    <2>4. Was(f) = IF Exists(before, q) THEN Reads(before, q) ELSE <<>>
      <3>1. CASE f \in DOMAIN before
        <4>1. before[f].kind = "file"
          BY <1>5, <2>2, <3>1 DEF MkSized
        <4>2. QED
          BY <2>1, <3>1, <4>1 DEF Was, Reads, Exists
      <3>2. CASE f \notin DOMAIN before
        BY <2>1, <3>2 DEF Was, Exists
      <3>3. QED
        BY <3>1, <3>2
    <2>5. ~Does("mkdir") /\ ~Does("mkfifo") /\ ~Does("link") /\ ~Does("unlink")
      BY <1>5 DEF Does
    <2>6. QED
      BY <2>3, <2>4, <2>5
  <1>6. CASE Does("link")
    <2>1. W = maker.operands
      BY <1>6, MkWords DEF MkArgs
    <2>2. ASSUME i = 2
          PROVE  /\ At(before, q) \notin DOMAIN before
                 /\ At(tree, q) \in DOMAIN tree
                 /\ tree[At(tree, q)] = before[At(before, W[1])]
      <3>1. PICK new, node : new = At(before, q) /\ node = before[At(before, W[1])]
        OBVIOUS
      <3>2. new \notin DOMAIN before /\ tree = With(before, new, node)
        BY <1>6, <2>2, <3>1 DEF MkLinked
      <3>3. /\ DOMAIN tree = DOMAIN before \cup {new} /\ tree[new] = node
            /\ \A p \in DOMAIN before : tree[p] = before[p]
        BY <3>2 DEF With
      <3>4. At(tree, q) = new
        <4>1. ~IsStrictPrefix(new, q)
          <5>1. CASE LinksAbove(before, q) = {}
            BY <3>1, <5>1, Straight DEF IsStrictPrefix
          <5>2. ASSUME NEW k \in LinksAbove(before, q), IsStrictPrefix(new, q)  PROVE FALSE
            <6>1. ~AtOrBelow(k, new) /\ ~AtOrBelow(new, k)
              BY <1>1, <1>3, <3>1, <5>2, LedOff
            <6>2. k \in Seq(Name) /\ new \in Seq(Name) /\ q \in Seq(Name) /\ IsStrictPrefix(k, q)
              BY <1>1, <1>3, <3>1, <5>2, AtIsPath, PathIs DEF LinksAbove, Pathwise
            <6>3. QED
              BY <5>2, <6>1, <6>2, PrefixOrder
          <5>3. QED
            BY <5>1, <5>2
        <4>2. LinksAbove(tree, q) = LinksAbove(before, q)
          BY <3>3, <4>1 DEF LinksAbove
        <4>3. \A x \in LinksAbove(tree, q) : tree[x].to = before[x].to
          BY <3>3, <4>2 DEF LinksAbove
        <4>4. QED
          BY <3>1, <4>2, <4>3, SameLinks
      <3>5. QED
        BY <3>1, <3>2, <3>3, <3>4
    <2>3. ~Does("mkdir") /\ ~Does("mkfifo") /\ ~Does("truncate") /\ ~Does("unlink")
      BY <1>6 DEF Does
    <2>4. QED
      BY <2>1, <2>2, <2>3
  <1>7. CASE Does("unlink")
    <2>1. left = <<>> /\ i = 1
      <3>1. left = <<>>
        BY <1>7 DEF MkArgs, Does
      <3>2. QED
        BY <1>1, <1>7, <3>1, MkWords DEF MkArgs
    <2>2. PICK x : x = At(before, q)
      OBVIOUS
    <2>3. tree = Without(before, x)
      BY <1>7, <2>1, <2>2 DEF MkTaken
    <2>4. x \in Path
      BY <1>1, <1>3, <2>2, AtIsPath
    <2>5. AtOrBelow(x, At(before, q))
      BY <2>2, <2>4, PathIs, PrefixOrder
    <2>6. At(tree, q) = x
      BY <1>1, <1>3, <2>2, <2>3, <2>4, <2>5, WayKept
    <2>7. x \notin DOMAIN tree
      BY <2>3 DEF Without
    <2>8. ~Does("mkdir") /\ ~Does("mkfifo") /\ ~Does("truncate") /\ ~Does("link")
      BY <1>7 DEF Does
    <2>9. QED
      BY <2>6, <2>7, <2>8
  <1>8. QED
    BY <1>4, <1>5, <1>6, <1>7 DEF Does

-----------------------------------------------------------------------------
(* More of trees, for mv: ways, growth and renaming. *)

\* Two trees with the same links, so that every path leads to the same place.
SameWays(t, u) ==
    \A q \in DOMAIN t \cup DOMAIN u :
        (q \in DOMAIN t /\ t[q].kind = "link") \/ (q \in DOMAIN u /\ u[q].kind = "link") =>
            q \in DOMAIN t /\ q \in DOMAIN u /\ t[q] = u[q]

LEMMA SameWay ==
    ASSUME NEW t, NEW u, SameWays(t, u)
    PROVE  \A p : At(t, p) = At(u, p)
  <1> SUFFICES ASSUME NEW p  PROVE At(t, p) = At(u, p)
    OBVIOUS
  <1>1. LinksAbove(t, p) = LinksAbove(u, p)
    BY DEF LinksAbove, SameWays
  <1>2. \A q \in LinksAbove(t, p) : t[q].to = u[q].to
    BY DEF LinksAbove, SameWays
  <1>3. QED
    BY <1>1, <1>2, SameLinks

LEMMA WaysOn ==
    ASSUME NEW t, NEW u, NEW v, SameWays(t, u), SameWays(u, v)
    PROVE  SameWays(t, v)
  BY DEF SameWays

LEMMA SameLead ==
    ASSUME NEW t, NEW u, SameWays(t, u)
    PROVE  /\ LinksLeadOff(t) => LinksLeadOff(u)
           /\ \A p : LinksIn(t, p) = LinksIn(u, p)
  <1>1. \A q : /\ q \in DOMAIN u /\ u[q].kind = "link"
                     <=> q \in DOMAIN t /\ t[q].kind = "link"
               /\ q \in DOMAIN u /\ u[q].kind = "link" => u[q] = t[q]
    BY DEF SameWays
  <1>2. LinksLeadOff(t) => LinksLeadOff(u)
    BY <1>1 DEF LinksLeadOff
  <1>3. \A p : LinksIn(t, p) = LinksIn(u, p)
    BY <1>1 DEF LinksIn
  <1>4. QED
    BY <1>2, <1>3

(* Below a path with no link at or below its place nothing leads away. *)
LEMMA WayOn ==
    ASSUME NEW t, Pathwise(t), Rooted(t), NEW c \in Path, LinksIn(t, At(t, c)) = {},
           NEW p \in Path, AtOrBelow(p, c)
    PROVE  At(t, p) = Place(At(t, c), p, c) /\ Follow(t, p) = At(t, p)
  <1>1. c \in Seq(Name) /\ p \in Seq(Name)
    BY PathIs
  <1>2. PICK r : r = Below(p, c)
    OBVIOUS
  <1>3. r \in Seq(Name) /\ c \o r = p
    BY <1>1, <1>2, BelowIs
  <1>4. At(t, p) = At(t, c) \o r
    <2>1. CASE LinksAbove(t, c) # {}
      BY <1>3, <2>1, NamesBehind
    <2>2. CASE LinksAbove(t, c) = {}
      <3>1. At(t, c) = c
        BY <2>2, Straight
      <3>2. ASSUME NEW q \in LinksAbove(t, p)  PROVE FALSE
        <4>1. q \in DOMAIN t /\ t[q].kind = "link" /\ q \in Seq(Name) /\ AtOrBelow(p, q)
          BY <1>1, PathIs, PrefixIs DEF LinksAbove, Pathwise
        <4>2. AtOrBelow(q, c) \/ AtOrBelow(c, q)
          BY <1>1, <4>1, PrefixOrder
        <4>3. CASE AtOrBelow(q, c)
          BY <3>1, <4>1, <4>3 DEF LinksIn
        <4>4. CASE ~AtOrBelow(q, c)
          <5>1. AtOrBelow(c, q) /\ c # q
            BY <1>1, <4>2, <4>4, PrefixOrder
          <5>2. IsStrictPrefix(q, c)
            BY <1>1, <4>1, <5>1, PrefixOrder
          <5>3. QED
            BY <2>2, <4>1, <5>2 DEF LinksAbove
        <4>5. QED
          BY <4>3, <4>4
      <3>3. At(t, p) = p
        BY <3>2, Straight
      <3>4. QED
        BY <1>3, <3>1, <3>3
    <2>3. QED
      BY <2>1, <2>2
  <1>5. Follow(t, p) = At(t, p)
    <2>1. PICK a : a = At(t, c)
      OBVIOUS
    <2>2. a \in Seq(Name)
      BY <2>1, AtIsPath, PathIs
    <2>3. AtOrBelow(a \o r, a)
      BY <1>3, <2>2, Continued
    <2>4. AtOrBelow(At(t, p), At(t, c))
      BY <1>4, <2>1, <2>3
    <2>5. At(t, p) \in DOMAIN t => t[At(t, p)].kind # "link"
      BY <2>4 DEF LinksIn
    <2>6. QED
      BY <2>5 DEF Follow
  <1>6. QED
    BY <1>2, <1>4, <1>5 DEF Place

LEMMA PlacesTwice ==
    ASSUME NEW a \in Path, NEW b \in Path, NEW c \in Path, NEW p \in Path, AtOrBelow(p, c)
    PROVE  Place(a, Place(b, p, c), b) = Place(a, p, c)
  BY PlaceIs DEF Place

(* Places are as deep as the paths they are of. *)
LEMMA PlacesInOrder ==
    ASSUME NEW a \in Path, NEW c \in Path, NEW p \in Path, NEW q \in Path,
           AtOrBelow(q, c), AtOrBelow(p, q)
    PROVE  AtOrBelow(p, c) /\ AtOrBelow(Place(a, p, c), Place(a, q, c))
  <1>1. a \in Seq(Name) /\ c \in Seq(Name) /\ p \in Seq(Name) /\ q \in Seq(Name)
    BY PathIs
  <1>2. AtOrBelow(p, c)
    BY <1>1, PrefixOrder
  <1>3. PICK x, y : x = Below(q, c) /\ y = Below(p, q)
    OBVIOUS
  <1>4. x \in Seq(Name) /\ y \in Seq(Name) /\ c \o x = q /\ q \o y = p
    BY <1>1, <1>3, BelowIs
  <1>5. x \o y \in Seq(Name) /\ a \o x \in Seq(Name)
    BY <1>1, <1>4, Continued
  <1>6. c \o (x \o y) = p
    <2>1. x \in Seq(Name) /\ y \in Seq(Name)
      BY <1>4
    <2>2. (c \o x) \o y = c \o (x \o y)
      BY <1>1, <2>1, Regroup, SMTT(60)
    <2>3. QED
      BY <1>4, <2>2
  <1>7. Below(p, c) = x \o y
    BY <1>1, <1>5, <1>6, Continued
  <1>8. a \o (x \o y) = (a \o x) \o y
    <2>1. x \in Seq(Name) /\ y \in Seq(Name)
      BY <1>4
    <2>2. QED
      BY <1>1, <2>1, Regroup, SMTT(60)
  <1>9. AtOrBelow((a \o x) \o y, a \o x)
    BY <1>4, <1>5, Continued
  <1>10. QED
    BY <1>2, <1>3, <1>7, <1>8, <1>9 DEF Place

LEMMA NamesListed ==
    ASSUME NEW t, DOMAIN t \subseteq Path, NEW p
    PROVE  Listed(t, p) \subseteq Name
  <1>1. ASSUME NEW x \in DOMAIN t, Len(x) > 1  PROVE x[Len(x)] \in Name
    BY <1>1, ParentIs
  <1>2. QED
    BY <1>1 DEF Listed

(* A path is in the directory its parent leads to, which is there, and so  *)
(* are the directories above.                                              *)
LEMMA InDirectory ==
    ASSUME NEW t, Pathwise(t), Rooted(t), LinksLeadOff(t), NEW p \in Path, Len(p) > 1
    PROVE  /\ Follow(t, Parent(p)) \in Path
           /\ At(t, p) = Append(Follow(t, Parent(p)), p[Len(p)])
  <1>1. PICK d, n : d = Parent(p) /\ n = p[Len(p)]
    OBVIOUS
  <1>2. d \in Path /\ d \in Seq(Name) /\ p \in Seq(Name) /\ n \in Name /\ p = Append(d, n)
    BY <1>1, ParentIs, PathIs
  <1>3. PICK a : a = At(t, d)
    OBVIOUS
  <1>4. a \in Path /\ a \in Seq(Name)
    BY <1>2, <1>3, AtIsPath, PathIs
  <1>5. CASE ~(a \in DOMAIN t /\ t[a].kind = "link")
    <2>1. Follow(t, d) = a
      BY <1>3, <1>5 DEF Follow
    <2>2. At(t, Append(d, n)) = Append(a, n)
      BY <1>2, <1>3, <1>5, NameMore
    <2>3. QED
      BY <1>1, <1>2, <1>4, <2>1, <2>2
  <1>6. CASE a \in DOMAIN t /\ t[a].kind = "link"
    <2>1. LinksAbove(t, d) = {}
      <3>1. AtOrBelow(a, a)
        BY <1>4, PrefixOrder
      <3>2. QED
        BY <1>2, <1>3, <1>6, <3>1, LedOff
    <2>2. a = d
      BY <1>3, <2>1, Straight
    <2>3. PICK to : to = t[d].to
      OBVIOUS
    <2>4. to \in Path /\ to \in Seq(Name) /\ Follow(t, d) = to
      BY <1>3, <1>6, <2>2, <2>3, PathIs DEF Follow, Pathwise
    <2>5. d \in LinksAbove(t, p)
      BY <1>2, <1>6, <2>2, Appended DEF LinksAbove
    <2>6. At(t, p) = to \o Below(p, d)
      BY <2>3, <2>5, Behind
    <2>7. <<n>> \in Seq(Name) /\ p = d \o <<n>> /\ Append(to, n) = to \o <<n>>
      BY <1>2, <2>4, Appended
    <2>8. Below(d \o <<n>>, d) = <<n>>
      BY <1>2, <2>7, Continued
    <2>9. QED
      BY <1>1, <2>4, <2>6, <2>7, <2>8
  <1>7. QED
    BY <1>5, <1>6

\* All that is above a path is a directory of the tree.
Grounded(t, a) == \A q \in Path : IsStrictPrefix(q, a) => q \in DOMAIN t /\ t[q].kind = "dir"

LEMMA ShortIsGrounded ==
    ASSUME NEW t, NEW a \in Path, Len(a) = 1
    PROVE  Grounded(t, a)
  <1> SUFFICES ASSUME NEW q \in Path, IsStrictPrefix(q, a)  PROVE FALSE
    BY DEF Grounded
  <1>1. q \in Seq(Name) /\ a \in Seq(Name) /\ Len(q) >= 1
    BY PathIs
  <1>2. Len(q) < Len(a)
    BY <1>1, PrefixIs
  <1>3. QED
    BY <1>1, <1>2

LEMMA EntryIsGrounded ==
    ASSUME NEW t, Pathwise(t), Rooted(t), NEW d \in DOMAIN t, t[d].kind = "dir", NEW n \in Name
    PROVE  Grounded(t, Append(d, n))
  <1> SUFFICES ASSUME NEW q \in Path, IsStrictPrefix(q, Append(d, n))
               PROVE  q \in DOMAIN t /\ t[q].kind = "dir"
    BY DEF Grounded
  <1>1. q \in Seq(Name) /\ d \in Seq(Name) /\ Len(d) >= 1
    BY PathIs DEF Pathwise
  <1>2. PICK a : a = Append(d, n)
    OBVIOUS
  <1>3. a \in Path /\ Len(a) > 1 /\ Parent(a) = d
    <2>1. a \in Path /\ Len(a) = Len(d) + 1 /\ Parent(a) = d
      BY <1>1, <1>2, Appended
    <2>2. QED
      BY <1>1, <2>1
  <1>4. AtOrBelow(d, q)
    BY <1>1, <1>2, <1>3, ParentIs
  <1>5. CASE q = d
    BY <1>5
  <1>6. CASE q # d
    <2>1. IsStrictPrefix(q, d)
      BY <1>1, <1>4, <1>6, PrefixOrder
    <2>2. QED
      BY <2>1, DirsAbove DEF Pathwise
  <1>7. QED
    BY <1>5, <1>6

LEMMA ShortStays ==
    ASSUME NEW t, Pathwise(t), NEW p \in Path, Len(p) = 1
    PROVE  At(t, p) = p
  <1>1. ASSUME NEW q \in LinksAbove(t, p)  PROVE FALSE
    <2>1. q \in Path /\ IsStrictPrefix(q, p)
      BY DEF LinksAbove, Pathwise
    <2>2. p \in Seq(Name) /\ q \in Seq(Name) /\ Len(q) >= 1
      BY <2>1, PathIs
    <2>3. Len(q) < Len(p)
      BY <2>1, <2>2, PrefixIs
    <2>4. QED
      BY <2>2, <2>3
  <1>2. QED
    BY <1>1, Straight

LEMMA HeldIsGrounded ==
    ASSUME NEW t, Pathwise(t), Rooted(t), LinksLeadOff(t), NEW p \in Path, HasParent(t, p)
    PROVE  Grounded(t, At(t, p))
  <1>1. p \in Seq(Name) /\ Len(p) >= 1
    BY PathIs
  <1>2. CASE Len(p) = 1
    BY <1>2, ShortStays, ShortIsGrounded
  <1>3. CASE Len(p) # 1
    <2>1. Len(p) > 1
      BY <1>1, <1>3
    <2>2. PICK f, n : f = Follow(t, Parent(p)) /\ n = p[Len(p)]
      OBVIOUS
    <2>3. f \in DOMAIN t /\ t[f].kind = "dir" /\ n \in Name /\ At(t, p) = Append(f, n)
      BY <1>3, <2>1, <2>2, InDirectory, ParentIs DEF HasParent, IsDir, Exists
    <2>4. QED
      BY <2>3, EntryIsGrounded
  <1>4. QED
    BY <1>2, <1>3

(* A place of its own leads nowhere else. *)
LEMMA PlaceOfPlace ==
    ASSUME NEW t, Pathwise(t), Rooted(t), LinksLeadOff(t), NEW p \in Path
    PROVE  At(t, At(t, p)) = At(t, p)
  BY LedOff, Straight

LEMMA WithIs ==
    ASSUME NEW t, NEW a, NEW node, NEW u, u = With(t, a, node)
    PROVE  /\ DOMAIN u = DOMAIN t \cup {a} /\ u[a] = node
           /\ \A p \in DOMAIN t : p # a => u[p] = t[p]
  BY DEF With

LEMMA GrownTree ==
    ASSUME NEW t, Pathwise(t), Rooted(t), NEW a \in Path, Grounded(t, a),
           NEW node, node.kind # "link",
           a \in DOMAIN t => t[a].kind # "link" /\ (t[a].kind = "dir" => node.kind = "dir"),
           NEW u, u = With(t, a, node)
    PROVE  Pathwise(u) /\ Rooted(u) /\ SameWays(t, u)
  <1>1. /\ DOMAIN u = DOMAIN t \cup {a} /\ u[a] = node
        /\ \A p \in DOMAIN t : p # a => u[p] = t[p]
    BY DEF With
  <1>2. Pathwise(u)
    <2>1. DOMAIN u \subseteq Path
      BY <1>1 DEF Pathwise
    <2>2. ASSUME NEW q \in DOMAIN u, u[q].kind = "link"  PROVE u[q].to \in Path
      <3>1. q # a
        BY <1>1, <2>2
      <3>2. q \in DOMAIN t /\ u[q] = t[q]
        BY <1>1, <3>1
      <3>3. QED
        BY <2>2, <3>2 DEF Pathwise
    <2>3. QED
      BY <2>1, <2>2 DEF Pathwise
  <1>3. ASSUME NEW p \in DOMAIN u, NEW q \in Path, IsStrictPrefix(q, p)
        PROVE  q \in DOMAIN u /\ u[q].kind = "dir"
    <2>1. q \in DOMAIN t /\ t[q].kind = "dir"
      <3>1. CASE p = a
        BY <1>3, <3>1 DEF Grounded
      <3>2. CASE p # a
        BY <1>1, <1>3, <3>2, DirsAbove DEF Pathwise
      <3>3. QED
        BY <3>1, <3>2
    <2>2. QED
      BY <1>1, <2>1
  <1>4. Rooted(u)
    BY <1>2, <1>3, RootedIf DEF Pathwise
  <1>5. SameWays(t, u)
    BY <1>1 DEF SameWays
  <1>6. QED
    BY <1>2, <1>4, <1>5

\* Of two paths none is at or below the other.
Apart(p, q) == ~AtOrBelow(p, q) /\ ~AtOrBelow(q, p)

(* Paths on two devices are apart. *)
LEMMA DevicesApart ==
    ASSUME NEW p \in Path, NEW q \in Path, Device(p) # Device(q), <<Mount>> \notin {p, q}
    PROVE  Apart(p, q)
  <1>1. ASSUME NEW x \in Path, NEW y \in Path, Device(x) # Device(y),
               <<Mount>> # y, AtOrBelow(x, y)
        PROVE  FALSE
    <2>1. x \in Seq(Name) /\ y \in Seq(Name) /\ Len(y) >= 1 /\ Len(x) >= 1
      BY PathIs
    <2>2. Len(y) <= Len(x) /\ \A i \in 1..Len(y) : y[i] = x[i]
      BY <1>1, <2>1, PrefixIs
    <2>3. y[1] = x[1]
      BY <2>1, <2>2
    <2>4. Len(y) > 1 => Device(x) = Device(y)
      BY <2>1, <2>2, <2>3 DEF Device
    <2>5. ASSUME Len(y) = 1, x[1] = Mount  PROVE FALSE
      <3>1. y[1] = Mount
        BY <2>3, <2>5
      <3>2. PICK o : o = <<Mount>>
        OBVIOUS
      <3>3. Mount \in Name
        BY <2>1, <2>5, <3>1, ElementOfSeq
      <3>4. o \in Seq(Name) /\ Len(o) = 1 /\ o[1] = Mount
        BY <3>2, <3>3
      <3>5. \A i \in 1..Len(y) : y[i] = o[i]
        BY <2>5, <3>1, <3>4
      <3>6. y = o
        BY <2>1, <2>5, <3>4, <3>5, SeqEqual
      <3>7. QED
        BY <1>1, <3>2, <3>6
    <2>6. Len(y) = 1 => Device(x) = Device(y)
      BY <2>5 DEF Device
    <2>7. Len(y) = 1 \/ Len(y) > 1
      BY DepthIs
    <2>8. QED
      BY <1>1, <2>4, <2>6, <2>7
  <1>2. QED
    BY <1>1 DEF Apart

(* What a rename that succeeds found. *)
LEMMA RenameFound ==
    ASSUME NEW t, Pathwise(t), Rooted(t), LinksLeadOff(t), NEW from \in Path, NEW to \in Path,
           RenameError(t, from, to) = "none",
           NEW s, s = At(t, from), NEW d, d = At(t, to)
    PROVE  /\ s \in Path /\ d \in Path /\ s \in DOMAIN t /\ Grounded(t, d)
           /\ <<Mount>> \notin {s, d} /\ Device(s) = Device(d)
           /\ s # d => Apart(s, d) /\ \A p \in DOMAIN t : ~IsStrictPrefix(d, p)
  <1>1. s \in Path /\ d \in Path /\ s \in Seq(Name) /\ d \in Seq(Name)
    BY AtIsPath, PathIs
  <1> DEFINE clash == /\ d \in DOMAIN t
                      /\ \/ (t[s].kind = "dir") # (t[d].kind = "dir")
                         \/ Listed(t, d) # {} /\ t[d].kind = "dir"
  <1>2. RenameError(t, from, to) =
        IF ~HasParent(t, to) \/ <<Mount>> \in {s, d} THEN "other"
        ELSE IF Device(s) # Device(d) THEN "xdev"
        ELSE IF s \notin DOMAIN t THEN "other"
        ELSE IF s = d THEN "none"
        ELSE IF IsStrictPrefix(s, d) \/ IsStrictPrefix(d, s) \/ clash THEN "other"
        ELSE "none"
    BY Zenon DEF RenameError
  <1>3. /\ HasParent(t, to) /\ <<Mount>> \notin {s, d} /\ Device(s) = Device(d) /\ s \in DOMAIN t
        /\ s # d => ~IsStrictPrefix(s, d) /\ ~IsStrictPrefix(d, s) /\ ~clash
    <2> HIDE DEF clash
    <2>1. QED
      BY <1>2
  <1>4. Grounded(t, d)
    BY <1>3, HeldIsGrounded
  <1>5. ASSUME s # d  PROVE Apart(s, d)
    BY <1>1, <1>3, <1>5, PrefixOrder DEF Apart
  <1>6. ASSUME s # d, NEW p \in DOMAIN t, IsStrictPrefix(d, p)  PROVE FALSE
    <2>1. ~clash
      BY <1>3, <1>6
    <2>2. CASE d \in DOMAIN t /\ t[d].kind = "dir"
      BY <1>6, <2>1, <2>2, NothingListed
    <2>3. CASE ~(d \in DOMAIN t /\ t[d].kind = "dir")
      BY <1>1, <1>6, <2>3, LeafIs
    <2>4. QED
      BY <2>2, <2>3
  <1>7. QED
    BY <1>1, <1>3, <1>4, <1>5, <1>6

(* A rename takes what is at or below the one place to the other, where    *)
(* nothing was below, and leaves the rest.                                 *)
LEMMA RenamedIs ==
    ASSUME NEW t, DOMAIN t \subseteq Path, NEW from, NEW to,
           NEW s \in Path, s = At(t, from), NEW d \in Path, d = At(t, to), Apart(s, d),
           \A p \in DOMAIN t : ~IsStrictPrefix(d, p),
           NEW u, u = Renamed(t, from, to)
    PROVE  /\ \A p \in DOMAIN t : ~AtOrBelow(p, s) /\ p # d => p \in DOMAIN u /\ u[p] = t[p]
           /\ \A p \in DOMAIN t : AtOrBelow(p, s) =>
                Place(d, p, s) \in DOMAIN u /\ u[Place(d, p, s)] = t[p]
           /\ \A p \in DOMAIN u :
                \/ p \in DOMAIN t /\ ~AtOrBelow(p, s) /\ p # d /\ u[p] = t[p]
                \/ \E q \in DOMAIN t : AtOrBelow(q, s) /\ p = Place(d, q, s) /\ u[p] = t[q]
  <1> DEFINE gone == {p \in DOMAIN t : AtOrBelow(p, s)}
             stay == DOMAIN t \ (gone \cup {d})
  <1>1. s # d
    BY PathIs, PrefixOrder DEF Apart
  <1>2. /\ DOMAIN u = stay \cup {Place(d, q, s) : q \in gone}
        /\ \A p \in DOMAIN u : u[p] = IF p \in stay THEN t[p] ELSE t[Place(s, p, d)]
    BY <1>1 DEF Renamed, Place
  <1>3. ASSUME NEW q \in gone
        PROVE  Place(d, q, s) \notin stay /\ Place(s, Place(d, q, s), d) = q
    <2>1. q \in Path /\ AtOrBelow(q, s)
      OBVIOUS
    <2>2. PICK x : x = Place(d, q, s)
      OBVIOUS
    <2>3. /\ x \in Path /\ AtOrBelow(x, d) /\ Below(x, d) = Below(q, s)
          /\ q = s \o Below(q, s)
      BY <2>1, <2>2, PlaceIs
    <2>4. Place(s, x, d) = q
      BY <2>3 DEF Place
    <2>5. x = d \/ IsStrictPrefix(d, x)
      BY <2>3, PathIs, PrefixOrder
    <2>6. x \notin stay
      BY <2>5
    <2>7. QED
      BY <2>2, <2>4, <2>6
  <1>4. ASSUME NEW p \in DOMAIN t, ~AtOrBelow(p, s), p # d
        PROVE  p \in DOMAIN u /\ u[p] = t[p]
    BY <1>2, <1>4
  <1>5. ASSUME NEW p \in DOMAIN t, AtOrBelow(p, s)
        PROVE  Place(d, p, s) \in DOMAIN u /\ u[Place(d, p, s)] = t[p]
    <2>1. p \in gone
      BY <1>5
    <2>2. QED
      BY <1>2, <1>3, <2>1
  <1>6. ASSUME NEW p \in DOMAIN u
        PROVE  \/ p \in DOMAIN t /\ ~AtOrBelow(p, s) /\ p # d /\ u[p] = t[p]
               \/ \E q \in DOMAIN t : AtOrBelow(q, s) /\ p = Place(d, q, s) /\ u[p] = t[q]
    <2>1. CASE p \in stay
      BY <1>2, <2>1
    <2>2. ASSUME NEW q \in gone, p = Place(d, q, s)
          PROVE  AtOrBelow(q, s) /\ u[p] = t[q]
      BY <1>2, <1>3, <2>2
    <2>3. QED
      BY <1>2, <2>1, <2>2
  <1>7. QED
    BY <1>4, <1>5, <1>6

LEMMA RenamedTree ==
    ASSUME NEW t, Pathwise(t), Rooted(t), NEW from, NEW to,
           NEW s \in Path, s = At(t, from), NEW d \in Path, d = At(t, to), Apart(s, d),
           \A p \in DOMAIN t : ~IsStrictPrefix(d, p), Grounded(t, d),
           LinksIn(t, s) = {}, LinksIn(t, d) = {},
           NEW u, u = Renamed(t, from, to)
    PROVE  Pathwise(u) /\ Rooted(u) /\ SameWays(t, u)
  <1>1. /\ \A p \in DOMAIN t : ~AtOrBelow(p, s) /\ p # d => p \in DOMAIN u /\ u[p] = t[p]
        /\ \A p \in DOMAIN t : AtOrBelow(p, s) =>
             Place(d, p, s) \in DOMAIN u /\ u[Place(d, p, s)] = t[p]
        /\ \A p \in DOMAIN u :
             \/ p \in DOMAIN t /\ ~AtOrBelow(p, s) /\ p # d /\ u[p] = t[p]
             \/ \E q \in DOMAIN t : AtOrBelow(q, s) /\ p = Place(d, q, s) /\ u[p] = t[q]
    BY RenamedIs DEF Pathwise
  <1>2. /\ DOMAIN t \subseteq Path
        /\ \A p \in DOMAIN t : p = d \/ AtOrBelow(p, s) => t[p].kind # "link"
    <2>1. AtOrBelow(d, d)
      BY PathIs, PrefixOrder
    <2>2. QED
      BY <2>1 DEF Pathwise, LinksIn
  <1>3. SameWays(t, u)
    BY <1>1, <1>2 DEF SameWays
  <1>4. DOMAIN u \subseteq Path
    BY <1>1, <1>2, PlaceIs
  <1>5. Pathwise(u)
    BY <1>3, <1>4 DEF Pathwise, SameWays
  <1>6. ASSUME NEW p \in DOMAIN u, NEW q \in Path, IsStrictPrefix(q, p)
        PROVE  q \in DOMAIN u /\ u[q].kind = "dir"
    <2>1. p \in Path /\ p \in Seq(Name) /\ q \in Seq(Name) /\ s \in Seq(Name) /\ d \in Seq(Name)
      BY <1>4, PathIs
    <2>2. AtOrBelow(p, q)
      BY <1>6, <2>1, PrefixOrder
    <2>3. ASSUME q \in DOMAIN t, t[q].kind = "dir", ~AtOrBelow(q, s), q # d
          PROVE  q \in DOMAIN u /\ u[q].kind = "dir"
      BY <1>1, <2>3
    <2>4. CASE p \in DOMAIN t /\ ~AtOrBelow(p, s) /\ p # d
      <3>1. q \in DOMAIN t /\ t[q].kind = "dir"
        BY <1>2, <1>6, <2>4, DirsAbove
      <3>2. ~AtOrBelow(q, s)
        BY <2>1, <2>2, <2>4, PrefixOrder
      <3>3. q # d
        BY <1>6, <2>4
      <3>4. QED
        BY <2>3, <3>1, <3>2, <3>3
    <2>5. ASSUME NEW x \in DOMAIN t, AtOrBelow(x, s), p = Place(d, x, s)
          PROVE  q \in DOMAIN u /\ u[q].kind = "dir"
      <3>1. x \in Path /\ x \in Seq(Name)
        BY <1>2, PathIs
      <3>2. AtOrBelow(p, d) /\ Place(s, p, d) = x
        <4>1. PICK b : b = Below(x, s)
          OBVIOUS
        <4>2. AtOrBelow(p, d) /\ Below(p, d) = b /\ x = s \o b
          BY <2>5, <3>1, <4>1, PlaceIs, ZenonT(60)
        <4>3. QED
          BY <4>2 DEF Place
      <3>3. CASE AtOrBelow(q, d)
        <4>1. PICK y : y = Place(s, q, d)
          OBVIOUS
        <4>2. /\ y \in Path /\ AtOrBelow(y, s) /\ Below(y, s) = Below(q, d)
              /\ q = d \o Below(q, d) /\ Len(y) = Len(s) + (Len(q) - Len(d))
          BY <3>3, <4>1, PlaceIs, ZenonT(60)
        <4>3. Place(d, y, s) = q
          BY <4>2 DEF Place
        <4>4. AtOrBelow(x, y)
          BY <2>1, <2>2, <3>2, <3>3, <4>1, PlacesInOrder
        <4>5. x # y
          <5>1. p # q
            BY <1>6, <2>1, PrefixOrder
          <5>2. QED
            BY <2>5, <4>3, <5>1
        <4>6. IsStrictPrefix(y, x)
          BY <3>1, <4>2, <4>4, <4>5, PathIs, PrefixOrder
        <4>7. y \in DOMAIN t /\ t[y].kind = "dir"
          BY <1>2, <4>2, <4>6, DirsAbove
        <4>8. QED
          BY <1>1, <4>2, <4>3, <4>7
      <3>4. CASE ~AtOrBelow(q, d)
        <4>1. AtOrBelow(d, q)
          BY <2>1, <2>2, <3>2, <3>4, PrefixOrder
        <4>2. q # d
          BY <2>1, <3>4, PrefixOrder
        <4>3. IsStrictPrefix(q, d)
          BY <2>1, <4>1, <4>2, PrefixOrder
        <4>4. q \in DOMAIN t /\ t[q].kind = "dir"
          BY <4>3 DEF Grounded
        <4>5. ~AtOrBelow(q, s)
          BY <2>1, <4>1, PrefixOrder DEF Apart
        <4>6. QED
          BY <2>3, <4>2, <4>4, <4>5
      <3>5. QED
        BY <3>3, <3>4
    <2>6. QED
      BY <1>1, <2>4, <2>5
  <1>7. Rooted(u)
    BY <1>4, <1>6, RootedIf
  <1>8. QED
    BY <1>3, <1>5, <1>7

-----------------------------------------------------------------------------
(* mv.  Where the source is, its destination and the backup of that, before *)
(* the move.                                                               *)

SrcAt    == At(prior, src)
FinalAt  == At(prior, final)
BackAt   == At(prior, BackupName(prior, final))
BackedUp == cmd.backup # "none" /\ Exists(prior, final)
SrcOf(x) == Place(SrcAt, x, src)

(* A name with a mark more is another name in the same directory. *)
LEMMA NumberedIs ==
    ASSUME NEW p \in Path, NEW n \in Int, NEW q, q = Numbered(p, n)
    PROVE  /\ q \in Path /\ Len(q) = Len(p) /\ q # p
           /\ Len(p) > 1 => Parent(q) = Parent(p) /\ q[Len(q)] # p[Len(p)]
  <1>1. p \in Seq(Name) /\ Len(p) \in Nat /\ Len(p) >= 1
    BY PathIs
  <1>2. PICK x : x = p[Len(p)]
    OBVIOUS
  <1>3. x \in Name
    BY <1>1, <1>2
  <1>4. PICK m : m = x.marks
    OBVIOUS
  <1>5. m \in Seq(Int) /\ x.base \in Base /\ x = [base |-> x.base, marks |-> m]
    BY <1>3, <1>4 DEF Name
  <1>6. PICK w : w = Append(m, n)
    OBVIOUS
  <1>7. w \in Seq(Int) /\ Len(w) = Len(m) + 1 /\ Len(m) \in Nat
    BY <1>5, <1>6, AppendProperties, LenProperties
  <1>8. w # m
    BY <1>7
  <1>9. PICK y : y = [x EXCEPT !.marks = w]
    OBVIOUS
  <1>10. y \in Name /\ y # x
    BY <1>3, <1>5, <1>7, <1>8, <1>9, SMTT(60) DEF Name
  <1>11. q = [p EXCEPT ![Len(p)] = y]
    BY <1>2, <1>4, <1>6, <1>9 DEF Numbered
  <1>12. /\ q \in Seq(Name) /\ Len(q) = Len(p) /\ q[Len(p)] = y
         /\ \A i \in 1..(Len(p) - 1) : q[i] = p[i]
    BY <1>1, <1>10, <1>11
  <1>13. q \in Path
    BY <1>1, <1>12, PathIs
  <1>14. q # p
    BY <1>2, <1>10, <1>12
  <1>15. ASSUME Len(p) > 1  PROVE Parent(q) = Parent(p)
    <2>1. ASSUME NEW r \in Path, Len(r) = Len(p)
          PROVE  /\ Parent(r) \in Seq(Name) /\ Len(Parent(r)) = Len(p) - 1
                 /\ \A i \in 1..(Len(p) - 1) : Parent(r)[i] = r[i]
      <3>1. PICK c : c = Parent(r)
        OBVIOUS
      <3>2. c \in Path /\ Len(c) = Len(r) - 1 /\ IsStrictPrefix(c, r)
        BY <1>15, <2>1, <3>1, ParentIs
      <3>3. c \in Seq(Name) /\ r \in Seq(Name)
        BY <3>2, PathIs
      <3>4. \A i \in 1..Len(c) : c[i] = r[i]
        BY <3>2, <3>3, PrefixIs
      <3>5. QED
        BY <2>1, <3>1, <3>2, <3>3, <3>4
    <2>2. PICK c, d : c = Parent(p) /\ d = Parent(q)
      OBVIOUS
    <2>3. /\ c \in Seq(Name) /\ Len(c) = Len(p) - 1 /\ \A i \in 1..(Len(p) - 1) : c[i] = p[i]
          /\ d \in Seq(Name) /\ Len(d) = Len(p) - 1 /\ \A i \in 1..(Len(p) - 1) : d[i] = q[i]
      BY <1>12, <1>13, <2>1, <2>2
    <2>4. \A i \in 1..Len(c) : c[i] = d[i]
      BY <1>12, <2>3
    <2>5. c = d
      BY <2>3, <2>4, SeqEqual
    <2>6. QED
      BY <2>2, <2>5
  <1>16. QED
    BY <1>2, <1>10, <1>12, <1>13, <1>14, <1>15

LEMMA LeastOf ==
    ASSUME NEW S, S \subseteq Nat, S # {}
    PROVE  \E n \in S : \A m \in S : n <= m
  <1> DEFINE R == {e \in Nat \X Nat : e[1] < e[2]}
  <1>1. IsWellFoundedOn(R, Nat)
    BY NatLessThanWellFounded DEF OpToRel
  <1>2. PICK n \in S : \A m \in S : ~(<<m, n>> \in R)
    <2> HIDE DEF R
    <2>1. QED
      BY <1>1, WFMin
  <1>3. ASSUME NEW m \in S, m < n  PROVE FALSE
    <2> DEFINE e == <<m, n>>
    <2>1. e[1] < e[2] /\ e \in Nat \X Nat
      BY <1>3
    <2>2. e \in R
      BY <2>1, Zenon
    <2>3. QED
      BY <1>2, <2>2
  <1>4. QED
    BY <1>3

(* The backup's name is the file's with a mark. *)
LEMMA BackupMark ==
    ASSUME NEW t, NEW p
    PROVE  \E n \in Int : BackupName(t, p) = Numbered(p, n)
  <1>1. CASE cmd.backup = "simple"
    <2>1. BackupName(t, p) = Numbered(p, Simple) /\ Simple \in Int
      BY <1>1 DEF BackupName, Simple
    <2>2. QED
      BY <2>1
  <1>2. CASE cmd.backup # "simple"
    <2>1. PICK free : free = {n \in 1..BackupLimit : ~Exists(t, Numbered(p, n))}
      OBVIOUS
    <2>2. BackupName(t, p) = Numbered(p, IF free = {} THEN BackupLimit + 1
                                         ELSE CHOOSE n \in free : \A m \in free : n <= m)
      BY <1>2, <2>1 DEF BackupName
    <2>3. PICK k : k = IF free = {} THEN BackupLimit + 1
                       ELSE CHOOSE n \in free : \A m \in free : n <= m
      OBVIOUS
    <2>4. k \in Int
      <3>1. CASE free = {}
        BY <2>3, <3>1, BackupLimitAssumption
      <3>2. CASE free # {}
        <4>1. free \subseteq Nat
          BY <2>1, BackupLimitAssumption
        <4>2. \E n \in free : \A m \in free : n <= m
          BY <3>2, <4>1, LeastOf
        <4>3. k = CHOOSE n \in free : \A m \in free : n <= m
          BY <2>3, <3>2
        <4>4. k \in free
          BY <4>2, <4>3
        <4>5. QED
          BY <4>1, <4>4
      <3>3. QED
        BY <3>1, <3>2
    <2>5. BackupName(t, p) = Numbered(p, k)
      BY <2>2, <2>3
    <2>6. QED
      BY <2>4, <2>5
  <1>3. QED
    BY <1>1, <1>2

(* The backup is beside the file: on its device, and under what the file   *)
(* is under.                                                               *)
LEMMA Beside ==
    ASSUME NEW t, Pathwise(t), Rooted(t), LinksLeadOff(t), NEW p \in Path,
           NEW a, a = At(t, p), NEW b, b = At(t, BackupName(t, p))
    PROVE  /\ BackupName(t, p) \in Path
           /\ a \in Path /\ b \in Path /\ a # b /\ Len(a) = Len(b) /\ Device(a) = Device(b)
           /\ \A q \in Seq(Name) : IsStrictPrefix(q, a) => AtOrBelow(b, q)
           /\ \A q \in Seq(Name) : IsStrictPrefix(q, b) => AtOrBelow(a, q)
  <1>1. PICK n \in Int : BackupName(t, p) = Numbered(p, n)
    BY BackupMark
  <1>2. PICK c : c = Numbered(p, n)
    OBVIOUS
  <1>3. /\ c \in Path /\ Len(c) = Len(p) /\ c # p
        /\ Len(p) > 1 => Parent(c) = Parent(p) /\ c[Len(c)] # p[Len(p)]
    BY <1>2, NumberedIs
  <1>4. a \in Path /\ b \in Path /\ a \in Seq(Name) /\ b \in Seq(Name) /\ b = At(t, c)
    BY <1>1, <1>2, <1>3, AtIsPath, PathIs
  <1>5. CASE Len(p) = 1
    <2>1. a = p /\ b = c
      BY <1>3, <1>4, <1>5, ShortStays
    <2>2. Device(a) = Device(b)
      <3>1. Len(a) = 1 /\ Len(b) = 1
        BY <1>3, <1>5, <2>1
      <3>2. Device(a) = 1 /\ Device(b) = 1
        BY <3>1 DEF Device
      <3>3. QED
        BY <3>2
    <2>3. ASSUME NEW q \in Seq(Name), NEW x \in Path, Len(x) = 1, IsStrictPrefix(q, x)
          PROVE  \A y \in Path : AtOrBelow(y, q)
      <3>1. x \in Seq(Name) /\ Len(q) < 1 /\ Len(q) \in Nat
        BY <2>3, PathIs, PrefixIs
      <3>2. \A y \in Seq(Name) : Len(q) <= Len(y) /\ \A i \in 1..Len(q) : q[i] = y[i]
        BY <3>1
      <3>3. QED
        BY <3>2, PrefixIs, PathIs
    <2>4. QED
      BY <1>1, <1>2, <1>3, <1>4, <1>5, <2>1, <2>2, <2>3
  <1>6. CASE Len(p) # 1
    <2>1. Len(p) > 1
      BY <1>6, DepthIs
    <2>2. PICK f, x, y : f = Follow(t, Parent(p)) /\ x = p[Len(p)] /\ y = c[Len(c)]
      OBVIOUS
    <2>3. x \in Name /\ y \in Name /\ x # y
      BY <1>3, <2>1, <2>2, ParentIs
    <2>4. f \in Path /\ a = Append(f, x) /\ b = Append(f, y)
      BY <1>3, <1>4, <2>1, <2>2, InDirectory
    <2>5. f \in Seq(Name) /\ Len(f) >= 1
      BY <2>4, PathIs
    <2>6. /\ Len(a) = Len(f) + 1 /\ Len(b) = Len(f) + 1 /\ Parent(a) = f /\ Parent(b) = f
          /\ a[Len(f) + 1] = x /\ b[Len(f) + 1] = y
          /\ \A i \in 1..Len(f) : a[i] = f[i]
          /\ \A i \in 1..Len(f) : b[i] = f[i]
      <3>1. x \in Name /\ y \in Name /\ f \in Seq(Name)
        BY <2>3, <2>5
      <3>2. a = Append(f, x) /\ b = Append(f, y)
        BY <2>4
      <3>3. Len(a) = Len(f) + 1 /\ Parent(a) = f /\ a[Len(f) + 1] = x
        BY <3>1, <3>2, Appended
      <3>4. \A i \in 1..Len(f) : a[i] = f[i]
        BY <3>1, <3>2, Appended
      <3>5. Len(b) = Len(f) + 1 /\ Parent(b) = f /\ b[Len(f) + 1] = y
        BY <3>1, <3>2, Appended
      <3>6. \A i \in 1..Len(f) : b[i] = f[i]
        BY <3>1, <3>2, Appended
      <3>7. QED
        BY <3>3, <3>4, <3>5, <3>6
    <2>7. a # b
      BY <2>3, <2>6
    <2>8. Len(a) > 1 /\ Len(b) > 1 /\ a[1] = b[1] /\ Len(a) = Len(b)
      BY <2>5, <2>6
    <2>9. Device(a) = Device(b)
      BY <2>8 DEF Device
    <2>10. \A q \in Seq(Name) : /\ IsStrictPrefix(q, a) <=> AtOrBelow(f, q)
                                /\ IsStrictPrefix(q, b) <=> AtOrBelow(f, q)
      BY <1>4, <2>6, <2>8, ParentIs
    <2>11. \A q \in Seq(Name) : /\ IsStrictPrefix(q, a) => AtOrBelow(b, q)
                                /\ IsStrictPrefix(q, b) => AtOrBelow(a, q)
      BY <1>4, <2>10, PrefixOrder
    <2>12. QED
      BY <1>1, <1>2, <1>3, <1>4, <2>7, <2>8, <2>9, <2>11
  <1>7. QED
    BY <1>5, <1>6

LEMMA BelowApart ==
    ASSUME NEW a \in Path, NEW b \in Path, Apart(a, b), NEW p \in Path, AtOrBelow(p, a)
    PROVE  ~AtOrBelow(p, b)
  BY PathIs, PrefixOrder DEF Apart

\* A move with no link at or below its source, its destination or the place
\* of the backup.
PlainMove ==
    /\ IsTree(prior)
    /\ LinksIn(prior, SrcAt) = {} /\ LinksIn(prior, FinalAt) = {}
    /\ BackedUp => LinksIn(prior, BackAt) = {}

\* The tree that rename is tried on.
Backed  == IF BackedUp THEN Renamed(prior, final, BackupName(prior, final)) ELSE prior
BackupDone == BackedUp => RenameError(prior, final, BackupName(prior, final)) = "none"

\* A path that two trees have alike, and one that no move may touch.
Alike(t, u, p) == (p \in DOMAIN t <=> p \in DOMAIN u) /\ (p \in DOMAIN u => u[p] = t[p])

Elsewhere(p) ==
    /\ ~AtOrBelow(p, SrcAt) /\ ~AtOrBelow(p, FinalAt)
    /\ BackedUp => ~AtOrBelow(p, BackAt)

\* What there was and is not to be lost has a file of its content that is not
\* at or below a place.
Spared(p) == prior[p].kind = "file" /\ ~MayReplace(p)
SavedOff(t, place) ==
    \A p \in DOMAIN prior : Spared(p) =>
        \E q \in DOMAIN t : /\ t[q].kind = "file" /\ t[q].content = prior[p].content
                            /\ ~AtOrBelow(q, place)

\* A tree with the links there were.
Nodes(t) == \A p \in DOMAIN t : IsNode(t[p])
Sound(t) == Pathwise(t) /\ Rooted(t) /\ SameWays(prior, t) /\ Nodes(t)

Kept(t)   == \A p \in DOMAIN prior : Spared(p) => prior[p].content \in Contents(t)
Leaves(t) ==
    \A p \in DOMAIN prior \cup DOMAIN t :
        ~MvMayTouch(p) => p \in DOMAIN prior /\ p \in DOMAIN t /\ t[p] = prior[p]

SourceFiles == {p \in DOMAIN prior : AtOrBelow(p, SrcAt) /\ prior[p].kind # "dir"}
Arrived(t) ==
    ~SourceReplaced =>
        /\ SameWays(prior, t)
        /\ \A p \in SourceFiles :
             /\ Place(FinalAt, p, SrcAt) \in DOMAIN t
             /\ t[Place(FinalAt, p, SrcAt)].kind = "file"
             /\ t[Place(FinalAt, p, SrcAt)].content = prior[p].content
        /\ SrcAt = FinalAt \/ SrcAt \notin DOMAIN t

LEMMA MvPlaces ==
    ASSUME PlainMove, src \in Path, final \in Path
    PROVE  /\ Pathwise(prior) /\ Rooted(prior) /\ LinksLeadOff(prior)
           /\ SrcAt \in Path /\ FinalAt \in Path
           /\ Follow(prior, src) = SrcAt /\ Follow(prior, final) = FinalAt
           /\ BackAt \in Path /\ FinalAt # BackAt /\ Device(FinalAt) = Device(BackAt)
           /\ \A q \in Seq(Name) : IsStrictPrefix(q, BackAt) => AtOrBelow(FinalAt, q)
           /\ BackupName(prior, final) \in Path
  <1>1. Pathwise(prior) /\ Rooted(prior) /\ LinksLeadOff(prior)
    BY TreeIs DEF PlainMove
  <1>2. SrcAt \in Path /\ FinalAt \in Path
    BY <1>1, AtIsPath DEF SrcAt, FinalAt
  <1>3. AtOrBelow(src, src) /\ AtOrBelow(final, final)
    BY PathIs, PrefixOrder
  <1>4. Follow(prior, src) = SrcAt /\ Follow(prior, final) = FinalAt
    BY <1>1, <1>3, WayOn DEF PlainMove, SrcAt, FinalAt
  <1>5. /\ BackupName(prior, final) \in Path
        /\ BackAt \in Path /\ FinalAt # BackAt /\ Device(FinalAt) = Device(BackAt)
        /\ \A q \in Seq(Name) : IsStrictPrefix(q, BackAt) => AtOrBelow(FinalAt, q)
    BY <1>1, Beside DEF FinalAt, BackAt
  <1>6. QED
    BY <1>1, <1>2, <1>4, <1>5

(* The files of the source: what is no directory there is no link.         *)
LEMMA SourceFileIs ==
    ASSUME PlainMove, NEW p \in SourceFiles
    PROVE  prior[p].kind = "file" /\ p \in Path
  <1>1. prior[p].kind # "dir" /\ AtOrBelow(p, SrcAt) /\ p \in DOMAIN prior
    BY DEF SourceFiles
  <1>2. prior[p].kind # "link"
    BY <1>1 DEF PlainMove, LinksIn
  <1>3. IsNode(prior[p]) /\ p \in Path
    BY <1>1 DEF PlainMove, IsTree
  <1>4. QED
    BY <1>1, <1>2, <1>3 DEF IsNode

(* The tree the rename is tried on: nothing is where the destination is if *)
(* that was backed up, and nothing is lost.                                *)
LEMMA BackedIs ==
    ASSUME PlainMove, src \in Path, final \in Path, BackupDone, NEW t, t = Backed
    PROVE  /\ Pathwise(t) /\ Rooted(t) /\ SameWays(prior, t) /\ Nodes(t)
           /\ \A p : ~AtOrBelow(p, FinalAt) /\ (BackedUp => ~AtOrBelow(p, BackAt)) =>
                Alike(prior, t, p)
           /\ SavedOff(t, FinalAt)
           /\ ~BackedUp => t = prior
           /\ BackedUp =>
                /\ \A p \in DOMAIN t : ~AtOrBelow(p, FinalAt)
                /\ \A p \in DOMAIN prior : ~IsStrictPrefix(BackAt, p)
                /\ <<Mount>> # BackAt
  <1> USE DEF PlainMove
  <1>1. /\ Pathwise(prior) /\ Rooted(prior) /\ LinksLeadOff(prior)
        /\ FinalAt \in Path /\ BackAt \in Path /\ FinalAt # BackAt
        /\ Follow(prior, final) = FinalAt /\ BackupName(prior, final) \in Path
        /\ \A p \in DOMAIN prior : IsNode(prior[p])
    BY MvPlaces DEF IsTree
  <1>2. CASE ~BackedUp
    <2>1. t = prior
      BY <1>2 DEF Backed
    <2>2. SameWays(prior, t) /\ \A p : Alike(prior, t, p)
      BY <2>1 DEF SameWays, Alike
    <2>3. ASSUME NEW p \in DOMAIN prior, Spared(p), AtOrBelow(p, FinalAt)  PROVE FALSE
      <3>1. CASE cmd.backup = "none"
        <4>1. Beyond(prior, p, FinalAt)
          BY <2>3 DEF Beyond
        <4>2. QED
          BY <2>3, <3>1, <4>1 DEF Spared, MayReplace, FinalAt
      <3>2. CASE cmd.backup # "none"
        <4>1. FinalAt \notin DOMAIN prior
          BY <1>1, <1>2, <3>2 DEF BackedUp, Exists
        <4>2. p \in Path
          BY <1>1 DEF Pathwise
        <4>3. QED
          BY <1>1, <2>3, <4>1, <4>2, GoneBelow
      <3>3. QED
        BY <3>1, <3>2
    <2>4. SavedOff(t, FinalAt)
      BY <2>1, <2>3 DEF SavedOff, Spared
    <2>5. QED
      BY <1>1, <1>2, <2>1, <2>2, <2>4 DEF Nodes
  <1>3. CASE BackedUp
    <2>1. PICK name : name = BackupName(prior, final)
      OBVIOUS
    <2>2. PICK s, d : s = FinalAt /\ d = BackAt
      OBVIOUS
    <2>3. /\ name \in Path /\ s \in Path /\ d \in Path /\ s # d
          /\ s = At(prior, final) /\ d = At(prior, name)
          /\ RenameError(prior, final, name) = "none" /\ t = Renamed(prior, final, name)
      BY <1>1, <1>3, <2>1, <2>2 DEF FinalAt, BackAt, BackupDone, Backed
    <2>4. /\ s \in DOMAIN prior /\ Grounded(prior, d) /\ <<Mount>> # d
          /\ Apart(s, d) /\ \A p \in DOMAIN prior : ~IsStrictPrefix(d, p)
      BY <1>1, <2>3, RenameFound
    <2>5. /\ \A p \in DOMAIN prior : ~AtOrBelow(p, s) /\ p # d => p \in DOMAIN t /\ t[p] = prior[p]
          /\ \A p \in DOMAIN prior : AtOrBelow(p, s) =>
               Place(d, p, s) \in DOMAIN t /\ t[Place(d, p, s)] = prior[p]
          /\ \A p \in DOMAIN t :
               \/ p \in DOMAIN prior /\ ~AtOrBelow(p, s) /\ p # d /\ t[p] = prior[p]
               \/ \E q \in DOMAIN prior : AtOrBelow(q, s) /\ p = Place(d, q, s) /\ t[p] = prior[q]
      BY <1>1, <2>3, <2>4, RenamedIs DEF Pathwise
    <2>6. LinksIn(prior, s) = {} /\ LinksIn(prior, d) = {}
      BY <1>3, <2>2
    <2>7. Pathwise(t) /\ Rooted(t) /\ SameWays(prior, t)
      BY <1>1, <2>3, <2>4, <2>6, RenamedTree
    <2>8. ASSUME NEW q \in DOMAIN prior, AtOrBelow(q, s)
          PROVE  /\ Place(d, q, s) \in Path /\ AtOrBelow(Place(d, q, s), d)
                 /\ ~AtOrBelow(Place(d, q, s), s)
      <3>1. PICK x : x = Place(d, q, s)
        OBVIOUS
      <3>2. q \in Path
        BY <1>1 DEF Pathwise
      <3>3. x \in Path /\ AtOrBelow(x, d)
        BY <2>3, <2>8, <3>1, <3>2, PlaceIs
      <3>4. ~AtOrBelow(x, s)
        BY <2>3, <2>4, <3>3, BelowApart DEF Apart
      <3>5. QED
        BY <3>1, <3>3, <3>4
    <2>9. ASSUME NEW p, ~AtOrBelow(p, s), ~AtOrBelow(p, d)  PROVE Alike(prior, t, p)
      <3>1. p # d
        BY <2>3, <2>9, PathIs, PrefixOrder
      <3>2. QED
        BY <2>5, <2>8, <2>9, <3>1 DEF Alike
    <2>10. \A p \in DOMAIN t : ~AtOrBelow(p, s)
      BY <2>5, <2>8
    <2>11. ASSUME NEW p \in DOMAIN prior, Spared(p)
           PROVE  \E q \in DOMAIN t : /\ t[q].kind = "file" /\ t[q].content = prior[p].content
                                      /\ ~AtOrBelow(q, s)
      <3>1. p # d /\ prior[p].kind = "file"
        BY <1>3, <2>2, <2>11 DEF Spared, MayReplace, BackedUp, BackAt
      <3>2. CASE AtOrBelow(p, s)
        BY <2>5, <2>8, <3>1, <3>2
      <3>3. CASE ~AtOrBelow(p, s)
        BY <2>5, <3>1, <3>3
      <3>4. QED
        BY <3>2, <3>3
    <2>12. SavedOff(t, FinalAt)
      BY <2>2, <2>11 DEF SavedOff
    <2>13. Nodes(t)
      BY <1>1, <2>5 DEF Nodes
    <2>14. QED
      BY <1>3, <2>2, <2>4, <2>7, <2>9, <2>10, <2>12, <2>13
  <1>4. QED
    BY <1>2, <1>3

(* A rename that succeeds loses nothing, touches nothing else and leaves   *)
(* the whole source at the destination.                                    *)
LEMMA RenameMoves ==
    ASSUME PlainMove, src \in Path, final \in Path, BackupDone, NEW t, t = Backed,
           RenameError(t, src, final) = "none", NEW u, u = Renamed(t, src, final)
    PROVE  Kept(u) /\ Leaves(u) /\ Arrived(u) /\ Sound(u)
  <1>1. /\ Pathwise(prior) /\ Rooted(prior) /\ LinksLeadOff(prior)
        /\ FinalAt \in Path /\ BackAt \in Path /\ SrcAt \in Path
        /\ \A q \in Seq(Name) : IsStrictPrefix(q, BackAt) => AtOrBelow(FinalAt, q)
    BY MvPlaces
  <1>2. /\ Pathwise(t) /\ Rooted(t) /\ SameWays(prior, t) /\ Nodes(t)
        /\ \A p : ~AtOrBelow(p, FinalAt) /\ (BackedUp => ~AtOrBelow(p, BackAt)) =>
             Alike(prior, t, p)
        /\ SavedOff(t, FinalAt)
        /\ ~BackedUp => t = prior
        /\ BackedUp =>
             /\ \A p \in DOMAIN t : ~AtOrBelow(p, FinalAt)
             /\ \A p \in DOMAIN prior : ~IsStrictPrefix(BackAt, p)
    BY BackedIs
  <1>3. PICK s, d : s = SrcAt /\ d = FinalAt
    OBVIOUS
  <1>4. LinksLeadOff(t) /\ s = At(t, src) /\ d = At(t, final)
    BY <1>1, <1>2, <1>3, SameWay, SameLead DEF SrcAt, FinalAt
  <1>5. /\ s \in Path /\ d \in Path /\ s \in DOMAIN t /\ Grounded(t, d)
        /\ s # d => Apart(s, d) /\ \A p \in DOMAIN t : ~IsStrictPrefix(d, p)
    BY <1>2, <1>4, RenameFound
  <1>6. \A p \in SourceFiles : p \in Path /\ p \in DOMAIN prior /\ AtOrBelow(p, s)
                               /\ prior[p].kind = "file"
    BY <1>3, SourceFileIs DEF SourceFiles
  <1>7. ASSUME NEW p, ~MvMayTouch(p)
        PROVE  Elsewhere(p)
    <2>1. /\ ~Beyond(prior, p, SrcAt) /\ ~Beyond(prior, p, FinalAt)
          /\ cmd.backup # "none" => ~AtOrBelow(p, BackAt)
      BY <1>7 DEF MvMayTouch, SrcAt, FinalAt, BackAt
    <2>2. QED
      BY <2>1 DEF Beyond, Elsewhere, BackedUp
  <1>8. CASE s = d
    <2>1. AtOrBelow(s, d)
      BY <1>5, <1>8, PathIs, PrefixOrder
    <2>2. t = prior
      BY <1>2, <1>3, <1>5, <2>1
    <2>3. u = prior
      BY <1>4, <1>8, <2>2 DEF Renamed
    <2>4. Kept(u)
      BY <2>3 DEF Kept, Contents, Spared
    <2>5. Leaves(u)
      BY <2>3 DEF Leaves
    <2>6. \A p \in SourceFiles : Place(d, p, s) = p
      <3>1. ASSUME NEW p \in SourceFiles  PROVE Place(d, p, s) = p
        <4>1. p = s \o Below(p, s)
          BY <1>5, <1>6, PlaceIs
        <4>2. QED
          BY <1>8, <4>1 DEF Place
      <3>2. QED
        BY <3>1
    <2>7. SameWays(prior, u)
      BY <2>3 DEF SameWays
    <2>8. Arrived(u)
      BY <1>3, <1>6, <1>8, <2>3, <2>6, <2>7 DEF Arrived
    <2>9. Sound(u)
      BY <1>2, <2>2, <2>3 DEF Sound
    <2>10. QED
      BY <2>4, <2>5, <2>8, <2>9
  <1>9. CASE s # d
    <2>1. Apart(s, d) /\ \A p \in DOMAIN t : ~IsStrictPrefix(d, p)
      BY <1>5, <1>9
    <2>2. /\ \A p \in DOMAIN t : ~AtOrBelow(p, s) /\ p # d => p \in DOMAIN u /\ u[p] = t[p]
          /\ \A p \in DOMAIN t : AtOrBelow(p, s) =>
               Place(d, p, s) \in DOMAIN u /\ u[Place(d, p, s)] = t[p]
          /\ \A p \in DOMAIN u :
               \/ p \in DOMAIN t /\ ~AtOrBelow(p, s) /\ p # d /\ u[p] = t[p]
               \/ \E q \in DOMAIN t : AtOrBelow(q, s) /\ p = Place(d, q, s) /\ u[p] = t[q]
      BY <1>2, <1>4, <1>5, <2>1, RenamedIs DEF Pathwise
    <2>3. LinksIn(t, s) = {} /\ LinksIn(t, d) = {}
      BY <1>2, <1>3, SameLead DEF PlainMove
    <2>4. SameWays(t, u) /\ Pathwise(u) /\ Rooted(u)
      BY <1>2, <1>4, <1>5, <2>1, <2>3, RenamedTree
    <2>5. SameWays(prior, u)
      BY <1>2, <2>4, WaysOn
    <2>6. ASSUME NEW q \in DOMAIN t, AtOrBelow(q, s)
          PROVE  /\ AtOrBelow(Place(d, q, s), d) /\ ~AtOrBelow(Place(d, q, s), s)
      <3>1. PICK x : x = Place(d, q, s)
        OBVIOUS
      <3>2. q \in Path
        BY <1>2 DEF Pathwise
      <3>3. x \in Path /\ AtOrBelow(x, d)
        BY <1>5, <2>6, <3>1, <3>2, PlaceIs
      <3>4. Apart(d, s)
        BY <2>1 DEF Apart
      <3>5. ~AtOrBelow(x, s)
        BY <1>5, <3>3, <3>4, BelowApart
      <3>6. QED
        BY <3>1, <3>3, <3>5
    <2>7. ASSUME NEW p \in DOMAIN prior, Spared(p)
          PROVE  prior[p].content \in Contents(u)
      <3>1. PICK q \in DOMAIN t : /\ t[q].kind = "file" /\ t[q].content = prior[p].content
                                  /\ ~AtOrBelow(q, d)
        BY <1>2, <1>3, <2>7 DEF SavedOff
      <3>2. q # d
        BY <1>5, <3>1, PathIs, PrefixOrder
      <3>3. \E x \in DOMAIN u : u[x] = t[q]
        BY <2>2, <3>2
      <3>4. PICK x \in DOMAIN u : u[x] = t[q]
        BY <3>3
      <3>5. x \in {y \in DOMAIN u : u[y].kind = "file"} /\ u[x].content = prior[p].content
        BY <3>1, <3>4
      <3>6. QED
        BY <3>5 DEF Contents
    <2>8. Kept(u)
      BY <2>7 DEF Kept
    <2>9. ASSUME NEW p \in DOMAIN prior \cup DOMAIN u, ~MvMayTouch(p)
          PROVE  p \in DOMAIN prior /\ p \in DOMAIN u /\ u[p] = prior[p]
      <3>1. /\ ~AtOrBelow(p, s) /\ ~AtOrBelow(p, d) /\ Alike(prior, t, p)
        BY <1>2, <1>3, <1>7, <2>9 DEF Elsewhere
      <3>2. p # d
        BY <1>5, <3>1, PathIs, PrefixOrder
      <3>3. p \in DOMAIN u => p \in DOMAIN t
        BY <2>2, <2>6, <3>1
      <3>4. p \in DOMAIN t
        BY <2>9, <3>1, <3>3 DEF Alike
      <3>5. p \in DOMAIN u /\ u[p] = t[p]
        BY <2>2, <3>1, <3>2, <3>4
      <3>6. QED
        BY <3>1, <3>4, <3>5 DEF Alike
    <2>10. Leaves(u)
      BY <2>9 DEF Leaves
    <2>11. ASSUME ~SourceReplaced, NEW p \in SourceFiles
           PROVE  /\ Place(d, p, s) \in DOMAIN u
                  /\ u[Place(d, p, s)].kind = "file"
                  /\ u[Place(d, p, s)].content = prior[p].content
      <3>1. p \in Path /\ p \in DOMAIN prior /\ AtOrBelow(p, s) /\ prior[p].kind = "file"
        BY <1>6, <2>11
      <3>2. ~AtOrBelow(p, d)
        BY <1>5, <2>1, <3>1, BelowApart
      <3>3. ASSUME BackedUp, AtOrBelow(p, BackAt)  PROVE FALSE
        <4>1. BackAt # s
          BY <1>3, <2>11, <3>3 DEF SourceReplaced, BackedUp, BackAt, SrcAt
        <4>2. /\ p \in Seq(Name) /\ s \in Seq(Name) /\ BackAt \in Seq(Name)
          BY <1>1, <1>5, <3>1, PathIs
        <4>3. AtOrBelow(s, BackAt) \/ AtOrBelow(BackAt, s)
          BY <3>1, <3>3, <4>2, PrefixOrder
        <4>4. CASE AtOrBelow(s, BackAt)
          <5>1. IsStrictPrefix(BackAt, s)
            BY <4>1, <4>2, <4>4, PrefixOrder
          <5>2. Len(BackAt) < Len(s) /\ Len(s) <= Len(p)
            BY <3>1, <4>2, <5>1, PrefixIs
          <5>3. p # BackAt
            <6>1. Len(BackAt) \in Nat /\ Len(s) \in Nat /\ Len(p) \in Nat
              BY <4>2, LenProperties
            <6>2. QED
              BY <5>2, <6>1
          <5>4. IsStrictPrefix(BackAt, p)
            BY <3>3, <4>2, <5>3, PrefixOrder
          <5>5. QED
            BY <1>2, <3>1, <3>3, <5>4
        <4>5. CASE AtOrBelow(BackAt, s)
          <5>1. IsStrictPrefix(s, BackAt)
            BY <4>1, <4>2, <4>5, PrefixOrder
          <5>2. AtOrBelow(d, s)
            BY <1>1, <1>3, <4>2, <5>1
          <5>3. QED
            BY <2>1, <5>2 DEF Apart
        <4>6. QED
          BY <4>3, <4>4, <4>5
      <3>4. Alike(prior, t, p)
        BY <1>2, <1>3, <3>2, <3>3
      <3>5. p \in DOMAIN t /\ t[p] = prior[p]
        BY <3>1, <3>4 DEF Alike
      <3>6. Place(d, p, s) \in DOMAIN u /\ u[Place(d, p, s)] = t[p]
        BY <2>2, <3>1, <3>5
      <3>7. QED
        BY <3>1, <3>5, <3>6
    <2>12. s \notin DOMAIN u
      <3>1. AtOrBelow(s, s)
        BY <1>5, PathIs, PrefixOrder
      <3>2. QED
        BY <2>2, <2>6, <3>1
    <2>13. Arrived(u)
      BY <1>3, <2>5, <2>11, <2>12 DEF Arrived
    <2>14. Nodes(u)
      BY <1>2, <2>2 DEF Nodes
    <2>15. Sound(u)
      BY <2>4, <2>5, <2>14 DEF Sound
    <2>16. QED
      BY <2>8, <2>10, <2>13, <2>15
  <1>10. QED
    BY <1>8, <1>9

-----------------------------------------------------------------------------
(* A copy from one device to the other and the removal of the source.      *)

\* What holds of the tree throughout: the places are apart, its links are what
\* they were, and nothing has changed elsewhere.
Stands(t) ==
    /\ Apart(SrcAt, FinalAt) /\ (BackedUp => Apart(SrcAt, BackAt))
    /\ SrcAt \in DOMAIN prior
    /\ Pathwise(t) /\ Rooted(t) /\ SameWays(prior, t) /\ Nodes(t)
    /\ \A p \in DOMAIN prior \cup DOMAIN t : Elsewhere(p) => Alike(prior, t, p)

\* The source while it is copied, and while it is removed; a file that is copied.
SourceWhole(t) ==
    \A p \in DOMAIN prior \cup DOMAIN t : AtOrBelow(p, SrcAt) => Alike(prior, t, p)
SourceLeft(t) ==
    \A p \in DOMAIN t : AtOrBelow(p, SrcAt) => p \in DOMAIN prior /\ t[p] = prior[p]
Copied(t, p) ==
    /\ Place(FinalAt, p, SrcAt) \in DOMAIN t
    /\ t[Place(FinalAt, p, SrcAt)] = File(prior[p].content)

LEMMA Untouched ==
    ASSUME NEW p, ~MvMayTouch(p)
    PROVE  Elsewhere(p)
  <1>1. /\ ~Beyond(prior, p, SrcAt) /\ ~Beyond(prior, p, FinalAt)
        /\ cmd.backup # "none" => ~AtOrBelow(p, BackAt)
    BY DEF MvMayTouch, SrcAt, FinalAt, BackAt
  <1>2. QED
    BY <1>1 DEF Beyond, Elsewhere, BackedUp

LEMMA StandsMeans ==
    ASSUME NEW t, Stands(t), NEW place, SavedOff(t, place)
    PROVE  Kept(t) /\ Leaves(t) /\ Sound(t)
  <1>1. ASSUME NEW p \in DOMAIN prior, Spared(p)
        PROVE  prior[p].content \in Contents(t)
    <2>1. PICK q \in DOMAIN t : t[q].kind = "file" /\ t[q].content = prior[p].content
      BY <1>1 DEF SavedOff
    <2>2. q \in {y \in DOMAIN t : t[y].kind = "file"}
      BY <2>1
    <2>3. QED
      BY <2>1, <2>2 DEF Contents
  <1>2. Leaves(t)
    BY Untouched DEF Leaves, Stands, Alike
  <1>3. Sound(t)
    BY DEF Sound, Stands
  <1>4. QED
    BY <1>1, <1>2, <1>3 DEF Kept

(* Where the paths below the source and below the destination lead.        *)
LEMMA MvWhere ==
    ASSUME PlainMove, src \in Path, final \in Path,
           NEW t, Pathwise(t), Rooted(t), SameWays(prior, t), NEW x \in Path
    PROVE  /\ AtOrBelow(x, src) =>
                At(t, x) = Place(SrcAt, x, src) /\ Follow(t, x) = Place(SrcAt, x, src)
           /\ AtOrBelow(x, final) =>
                At(t, x) = Place(FinalAt, x, final) /\ Follow(t, x) = Place(FinalAt, x, final)
  <1>1. At(t, src) = SrcAt /\ At(t, final) = FinalAt
    BY SameWay DEF SrcAt, FinalAt
  <1>2. LinksIn(t, SrcAt) = {} /\ LinksIn(t, FinalAt) = {}
    BY SameLead DEF PlainMove
  <1>3. QED
    BY <1>1, <1>2, WayOn

LEMMA Crosses ==
    ASSUME PlainMove, src \in Path, final \in Path, BackupDone, NEW t, t = Backed,
           SrcAt \in DOMAIN prior, Device(SrcAt) # Device(FinalAt),
           <<Mount>> \notin {SrcAt, FinalAt}
    PROVE  Stands(t) /\ SourceWhole(t) /\ SavedOff(t, FinalAt)
  <1>1. /\ SrcAt \in Path /\ FinalAt \in Path /\ BackAt \in Path
        /\ Device(FinalAt) = Device(BackAt) /\ Pathwise(prior)
    BY MvPlaces
  <1>2. /\ Pathwise(t) /\ Rooted(t) /\ SameWays(prior, t) /\ Nodes(t)
        /\ \A p : ~AtOrBelow(p, FinalAt) /\ (BackedUp => ~AtOrBelow(p, BackAt)) =>
             Alike(prior, t, p)
        /\ SavedOff(t, FinalAt)
        /\ BackedUp => <<Mount>> # BackAt
    BY BackedIs
  <1>3. Apart(SrcAt, FinalAt)
    BY <1>1, DevicesApart
  <1>4. ASSUME BackedUp  PROVE Apart(SrcAt, BackAt)
    <2>1. <<Mount>> \notin {SrcAt, BackAt} /\ Device(SrcAt) # Device(BackAt)
      BY <1>1, <1>2, <1>4
    <2>2. QED
      BY <1>1, <2>1, DevicesApart
  <1>5. ASSUME NEW p \in DOMAIN prior \cup DOMAIN t, AtOrBelow(p, SrcAt)
        PROVE  Alike(prior, t, p)
    <2>1. p \in Path
      BY <1>1, <1>2 DEF Pathwise
    <2>2. ~AtOrBelow(p, FinalAt)
      BY <1>1, <1>3, <1>5, <2>1, BelowApart
    <2>3. BackedUp => ~AtOrBelow(p, BackAt)
      BY <1>1, <1>4, <1>5, <2>1, BelowApart
    <2>4. QED
      BY <1>2, <2>2, <2>3
  <1>6. Stands(t)
    BY <1>2, <1>3, <1>4 DEF Stands, Elsewhere
  <1>7. QED
    BY <1>2, <1>5, <1>6 DEF SourceWhole

(* A node put at or below the destination.                                 *)
LEMMA CopyGrows ==
    ASSUME PlainMove, src \in Path, final \in Path,
           NEW t, Stands(t), SourceWhole(t), SavedOff(t, FinalAt),
           NEW a \in Path, AtOrBelow(a, FinalAt), Grounded(t, a),
           NEW node, node.kind # "link", IsNode(node),
           a \in DOMAIN t /\ t[a].kind = "dir" => node.kind = "dir",
           NEW u, u = With(t, a, node)
    PROVE  /\ Stands(u) /\ SourceWhole(u) /\ SavedOff(u, FinalAt)
           /\ a \in DOMAIN u /\ u[a] = node
           /\ \A p \in SourceFiles :
                Copied(t, p) /\ Place(FinalAt, p, SrcAt) # a => Copied(u, p)
  <1>1. SrcAt \in Path /\ FinalAt \in Path
    BY MvPlaces
  <1>2. /\ Apart(SrcAt, FinalAt) /\ Pathwise(t) /\ Rooted(t) /\ SameWays(prior, t)
        /\ Nodes(t)
        /\ \A p \in DOMAIN prior \cup DOMAIN t : Elsewhere(p) => Alike(prior, t, p)
    BY DEF Stands
  <1>3. /\ DOMAIN u = DOMAIN t \cup {a} /\ u[a] = node
        /\ \A p \in DOMAIN t : p # a => u[p] = t[p]
    BY DEF With
  <1>4. a \in DOMAIN t => t[a].kind # "link"
    <2>1. LinksIn(t, FinalAt) = {}
      BY <1>2, SameLead DEF PlainMove
    <2>2. QED
      BY <2>1 DEF LinksIn
  <1>5. Pathwise(u) /\ Rooted(u) /\ SameWays(t, u)
    BY <1>2, <1>4, GrownTree
  <1>6. SameWays(prior, u)
    BY <1>2, <1>5, WaysOn
  <1>7. ~AtOrBelow(a, SrcAt) /\ ~Elsewhere(a)
    BY <1>1, <1>2, BelowApart DEF Apart, Elsewhere
  <1>8. \A p : p # a => (Alike(prior, t, p) => Alike(prior, u, p))
    BY <1>3 DEF Alike
  <1>9. Stands(u)
    <2>1. \A p \in DOMAIN prior \cup DOMAIN u : Elsewhere(p) => Alike(prior, u, p)
      BY <1>2, <1>3, <1>7, <1>8
    <2>2. Nodes(u)
      BY <1>2, <1>3 DEF Nodes
    <2>3. QED
      BY <1>5, <1>6, <2>1, <2>2 DEF Stands
  <1>10. SourceWhole(u)
    BY <1>3, <1>7, <1>8 DEF SourceWhole
  <1>11. SavedOff(u, FinalAt)
    BY <1>3 DEF SavedOff
  <1>12. QED
    BY <1>3, <1>9, <1>10, <1>11 DEF Copied

(* All is copied: what is to be kept is kept without the source.           *)
LEMMA CopyOver ==
    ASSUME PlainMove, src \in Path, final \in Path,
           NEW t, Stands(t), SourceWhole(t), SavedOff(t, FinalAt),
           \A p \in SourceFiles : Copied(t, p)
    PROVE  SourceLeft(t) /\ SavedOff(t, SrcAt)
  <1>1. SrcAt \in Path /\ FinalAt \in Path
    BY MvPlaces
  <1>2. SourceLeft(t)
    BY DEF SourceLeft, SourceWhole, Alike
  <1>3. ASSUME NEW p \in DOMAIN prior, Spared(p)
        PROVE  \E q \in DOMAIN t : /\ t[q].kind = "file" /\ t[q].content = prior[p].content
                                   /\ ~AtOrBelow(q, SrcAt)
    <2>1. PICK q \in DOMAIN t : t[q].kind = "file" /\ t[q].content = prior[p].content
      BY <1>3 DEF SavedOff
    <2>2. CASE ~AtOrBelow(q, SrcAt)
      BY <2>1, <2>2
    <2>3. CASE AtOrBelow(q, SrcAt)
      <3>1. q \in DOMAIN prior /\ t[q] = prior[q]
        BY <1>2, <2>3 DEF SourceLeft
      <3>2. q \in SourceFiles
        BY <2>1, <2>3, <3>1 DEF SourceFiles
      <3>3. q \in Path
        BY <3>2, SourceFileIs
      <3>4. PICK x : x = Place(FinalAt, q, SrcAt)
        OBVIOUS
      <3>5. x \in DOMAIN t /\ t[x] = File(prior[q].content)
        BY <3>2, <3>4 DEF Copied
      <3>6. t[x].kind = "file" /\ t[x].content = prior[p].content
        BY <2>1, <3>1, <3>5 DEF File
      <3>7. x \in Path /\ AtOrBelow(x, FinalAt)
        BY <1>1, <2>3, <3>3, <3>4, PlaceIs
      <3>8. ~AtOrBelow(x, SrcAt)
        <4>1. Apart(FinalAt, SrcAt)
          BY DEF Stands, Apart
        <4>2. QED
          BY <1>1, <3>7, <4>1, BelowApart
      <3>9. QED
        BY <3>5, <3>6, <3>8
    <2>4. QED
      BY <2>2, <2>3
  <1>4. QED
    BY <1>2, <1>3 DEF SavedOff

(* A leaf of the source taken away.                                        *)
LEMMA SourceShrinks ==
    ASSUME PlainMove, src \in Path, final \in Path,
           NEW t, Stands(t), SourceLeft(t), SavedOff(t, SrcAt),
           NEW a \in Path, AtOrBelow(a, SrcAt), \A p \in DOMAIN t : ~IsStrictPrefix(a, p),
           NEW u, u = Without(t, a)
    PROVE  /\ Stands(u) /\ SourceLeft(u) /\ SavedOff(u, SrcAt)
           /\ a \notin DOMAIN u
           /\ \A p \in SourceFiles : Copied(t, p) => Copied(u, p)
  <1>1. SrcAt \in Path /\ FinalAt \in Path
    BY MvPlaces
  <1>2. /\ Apart(SrcAt, FinalAt) /\ Pathwise(t) /\ Rooted(t) /\ SameWays(prior, t)
        /\ Nodes(t)
        /\ \A p \in DOMAIN prior \cup DOMAIN t : Elsewhere(p) => Alike(prior, t, p)
    BY DEF Stands
  <1>3. DOMAIN u = DOMAIN t \ {a} /\ \A p \in DOMAIN t : p # a => u[p] = t[p]
    BY DEF Without
  <1>4. Pathwise(u) /\ Rooted(u)
    <2>1. LinksLeadOff(t)
      BY <1>2, SameLead, TreeIs DEF PlainMove
    <2>2. QED
      BY <1>2, <2>1, WithoutLeaf
  <1>5. SameWays(t, u)
    <2>1. LinksIn(t, SrcAt) = {}
      BY <1>2, SameLead DEF PlainMove
    <2>2. a \in DOMAIN t => t[a].kind # "link"
      BY <2>1 DEF LinksIn
    <2>3. QED
      BY <1>3, <2>2 DEF SameWays
  <1>6. SameWays(prior, u)
    BY <1>2, <1>5, WaysOn
  <1>7. ~Elsewhere(a)
    BY DEF Elsewhere
  <1>8. Stands(u)
    <2>1. \A p \in DOMAIN prior \cup DOMAIN u : Elsewhere(p) => Alike(prior, u, p)
      BY <1>2, <1>3, <1>7 DEF Alike
    <2>2. Nodes(u)
      BY <1>2, <1>3 DEF Nodes
    <2>3. QED
      BY <1>4, <1>6, <2>1, <2>2 DEF Stands
  <1>9. SourceLeft(u)
    BY <1>3 DEF SourceLeft
  <1>10. SavedOff(u, SrcAt)
    BY <1>3 DEF SavedOff
  <1>11. ASSUME NEW p \in SourceFiles, Copied(t, p)  PROVE Copied(u, p)
    <2>1. p \in Path /\ AtOrBelow(p, SrcAt)
      BY SourceFileIs DEF SourceFiles
    <2>2. PICK x : x = Place(FinalAt, p, SrcAt)
      OBVIOUS
    <2>3. x \in Path /\ AtOrBelow(x, FinalAt)
      BY <1>1, <2>1, <2>2, PlaceIs
    <2>4. x # a
      <3>1. ~AtOrBelow(a, FinalAt)
        BY <1>1, <1>2, BelowApart
      <3>2. QED
        BY <2>3, <3>1
    <2>5. QED
      BY <1>3, <1>11, <2>2, <2>4 DEF Copied
  <1>12. QED
    BY <1>3, <1>8, <1>9, <1>10, <1>11

(* The source is gone, all of it having been copied.                       *)
LEMMA CopyArrives ==
    ASSUME NEW t, Stands(t), \A p \in SourceFiles : Copied(t, p), SrcAt \notin DOMAIN t
    PROVE  Arrived(t)
  <1>1. SameWays(prior, t)
    BY DEF Stands
  <1>2. ASSUME NEW p \in SourceFiles
        PROVE  /\ Place(FinalAt, p, SrcAt) \in DOMAIN t
               /\ t[Place(FinalAt, p, SrcAt)].kind = "file"
               /\ t[Place(FinalAt, p, SrcAt)].content = prior[p].content
    <2>1. PICK x : x = Place(FinalAt, p, SrcAt)
      OBVIOUS
    <2>2. x \in DOMAIN t /\ t[x] = File(prior[p].content)
      BY <2>1 DEF Copied
    <2>3. t[x].kind = "file" /\ t[x].content = prior[p].content
      BY <2>2 DEF File
    <2>4. QED
      BY <2>1, <2>2, <2>3
  <1>3. QED
    BY <1>1, <1>2 DEF Arrived

LEMMA ArrivedMeans ==
    ASSUME PlainMove, src \in Path, final \in Path, Arrived(tree)
    PROVE  MovedWhole
  <1>1. /\ Pathwise(prior) /\ Rooted(prior) /\ SrcAt \in Path /\ FinalAt \in Path
    BY MvPlaces
  <1>2. ASSUME mpc = "moved", ~SourceReplaced, NEW p \in DOMAIN prior, AtOrBelow(p, SrcAt),
               prior[p].kind # "dir"
        PROVE  Reads(tree, final \o Below(p, SrcAt)) = Reads(prior, p)
    <2>1. p \in SourceFiles
      BY <1>2 DEF SourceFiles
    <2>2. prior[p].kind = "file" /\ p \in Path
      BY <2>1, SourceFileIs
    <2>3. PICK x : x = Place(final, p, SrcAt)
      OBVIOUS
    <2>4. x \in Path /\ AtOrBelow(x, final)
      BY <1>1, <1>2, <2>2, <2>3, PlaceIs
    <2>5. PICK y : y = Place(FinalAt, p, SrcAt)
      OBVIOUS
    <2>6. Place(FinalAt, x, final) = y
      BY <1>1, <1>2, <2>2, <2>3, <2>5, PlacesTwice
    <2>7. At(prior, x) = y
      BY <1>1, <2>4, <2>6, WayOn DEF PlainMove, FinalAt
    <2>8. At(tree, x) = y
      BY <1>2, <2>7, SameWay DEF Arrived
    <2>9. y \in DOMAIN tree /\ tree[y].kind = "file" /\ tree[y].content = prior[p].content
      BY <1>2, <2>1, <2>5 DEF Arrived
    <2>10. Follow(tree, x) = y
      BY <2>8, <2>9 DEF Follow
    <2>11. Reads(tree, x) = prior[p].content
      BY <2>9, <2>10 DEF Reads, Exists
    <2>12. Follow(prior, p) = p
      BY <1>1, <1>2, <2>2, PlaceOfItself DEF Follow
    <2>13. Reads(prior, p) = prior[p].content
      BY <1>2, <2>2, <2>12 DEF Reads, Exists
    <2>14. QED
      BY <2>3, <2>11, <2>13 DEF Place
  <1>3. ASSUME mpc = "moved", ~SourceReplaced  PROVE SrcAt = FinalAt \/ SrcAt \notin DOMAIN tree
    BY <1>3 DEF Arrived
  <1>4. QED
    BY <1>2, <1>3 DEF MovedWhole, SrcAt, FinalAt
-----------------------------------------------------------------------------
(* The moves of mv, step by step.  What mv's invariant says of a tree, of  *)
(* the calls and of the pair of files being copied takes them as           *)
(* parameters, for the states before and after a step.                     *)

MvArgs ==
    /\ cmd \in MvCommands /\ sources \in Seq(Path)
    /\ mpc \notin {"start", "died"} => dest \in Path
    /\ src # <<>> => src \in Path /\ final \in Path /\ Exists(prior, src)
    /\ mpc \notin {"start", "next", "exit0", "died"} => src # <<>>

\* The calls of copy_dir and of remove_dir.
CopyCall ==
    {f \in [from : Path, to : Path, left : SUBSET Name, in : BOOLEAN] :
        /\ AtOrBelow(f.from, src) /\ f.to = Place(final, f.from, src)
        /\ SrcOf(f.from) \in DOMAIN prior /\ prior[SrcOf(f.from)].kind = "dir"}

RemoveCall ==
    {f \in [path : Path, left : SUBSET Name, in : BOOLEAN] : AtOrBelow(f.path, src)}

\* What a call has still to see to, what the calls have, and what is not copied.
Due(f, p) ==
    \/ ~f.in /\ AtOrBelow(p, SrcOf(f.from))
    \/ \E n \in f.left : AtOrBelow(p, SrcOf(Append(f.from, n)))
Waits(s, p) == \E k \in 1..Len(s) : Due(s[k], p)
Pending(m, s, c, p) ==
    \/ s = <<>> /\ m \in {"copyfile", "copydata"}
    \/ Waits(s, p)
    \/ s # <<>> /\ m \in {"copyfile", "copydata"} /\ p = SrcOf(c[1])

\* The pair of files being copied.
PairOf(c) ==
    /\ c[1] \in Path /\ AtOrBelow(c[1], src) /\ c[2] = Place(final, c[1], src)
    /\ SrcOf(c[1]) \in DOMAIN prior => prior[SrcOf(c[1])].kind = "file"

CopyTree(t) == Stands(t) /\ SourceWhole(t) /\ SavedOff(t, FinalAt)
CopyCalls(m, s, c) ==
    /\ s \in Seq(CopyCall)
    /\ m = "copydir" => s # <<>>
    /\ m \in {"copyfile", "copydata"} /\ s = <<>> => prior[SrcAt].kind = "file"
    /\ m = "copyfile" /\ s # <<>> => PairOf(c)
    /\ m = "copydata" => PairOf(c) /\ SrcOf(c[1]) \in DOMAIN prior
    /\ m = "copydata" /\ s = <<>> => c[1] = src
Opened(t, m, c) ==
    m = "copydata" => /\ Place(FinalAt, SrcOf(c[1]), SrcAt) \in DOMAIN t
                      /\ t[Place(FinalAt, SrcOf(c[1]), SrcAt)].kind = "file"
CopyState(t, m, s, c) ==
    /\ CopyTree(t) /\ CopyCalls(m, s, c) /\ Opened(t, m, c)
    /\ \A p \in SourceFiles : Copied(t, p) \/ Pending(m, s, c, p)

RemoveTree(t) ==
    /\ Stands(t) /\ SourceLeft(t) /\ SavedOff(t, SrcAt)
    /\ \A p \in SourceFiles : Copied(t, p)
RemoveState(t, m, s) ==
    /\ RemoveTree(t)
    /\ m = "rmdir" => s \in Seq(RemoveCall) /\ s # <<>> /\ s[Len(s)].path = src
    /\ m = "unlink" => prior[SrcAt].kind = "file"

MoveState(t, m, s, c) ==
    /\ m \in {"decide", "prompt", "backup"} => t = prior
    /\ m = "rename" => t = Backed /\ BackupDone
    /\ m \in {"copydir", "copyfile", "copydata"} => CopyState(t, m, s, c)
    /\ m \in {"unlink", "rmdir"} => RemoveState(t, m, s)
    /\ m = "moved" => Arrived(t)
    /\ Kept(t) /\ Leaves(t) /\ Sound(t)

MvInv == MvArgs /\ (src # <<>> /\ PlainMove => MoveState(tree, mpc, frames, copying))

(* All of this is about one move: while it lasts it means the same.        *)
LEMMA MvSame ==
    ASSUME UNCHANGED <<cmd, src, final, prior>>
    PROVE  /\ PlainMove' = PlainMove
           /\ \A t, m, s, c : MoveState(t, m, s, c)' = MoveState(t, m, s, c)
  <1>1. /\ SrcAt' = SrcAt /\ FinalAt' = FinalAt /\ BackAt' = BackAt /\ BackedUp' = BackedUp
        /\ \A x : SrcOf(x)' = SrcOf(x)
    BY DEF SrcAt, FinalAt, BackAt, BackedUp, SrcOf, BackupName
  <1>2. PlainMove' = PlainMove
    BY <1>1 DEF PlainMove
  <1>3. Backed' = Backed /\ BackupDone' = BackupDone /\ SourceReplaced' = SourceReplaced
    BY <1>1 DEF Backed, BackupDone, SourceReplaced, BackupName
  <1>4. \A p : Elsewhere(p)' = Elsewhere(p) /\ MvMayTouch(p)' = MvMayTouch(p)
               /\ MayReplace(p)' = MayReplace(p)
    BY <1>1 DEF Elsewhere, MvMayTouch, MayReplace, BackupName
  <1>5. \A p : Spared(p)' = Spared(p)
    BY <1>4 DEF Spared
  <1>6. SourceFiles' = SourceFiles
    BY <1>1 DEF SourceFiles
  <1>7. \A t, p : Copied(t, p)' = Copied(t, p)
    BY <1>1 DEF Copied
  <1>8. \A t, x : SavedOff(t, x)' = SavedOff(t, x)
    BY <1>5 DEF SavedOff
  <1>9. \A t : Stands(t)' = Stands(t) /\ SourceWhole(t)' = SourceWhole(t)
               /\ SourceLeft(t)' = SourceLeft(t) /\ Sound(t)' = Sound(t)
    BY <1>1, <1>4 DEF Stands, SourceWhole, SourceLeft, Sound
  <1>10. \A t : Kept(t)' = Kept(t) /\ Leaves(t)' = Leaves(t) /\ Arrived(t)' = Arrived(t)
    BY <1>1, <1>3, <1>4, <1>5, <1>6 DEF Kept, Leaves, Arrived
  <1>11. CopyCall' = CopyCall /\ RemoveCall' = RemoveCall
    BY <1>1 DEF CopyCall, RemoveCall
  <1>12. \A f, p : Due(f, p)' = Due(f, p)
    BY <1>1 DEF Due
  <1>13. \A m, s, c, p : Pending(m, s, c, p)' = Pending(m, s, c, p)
    BY <1>1, <1>12 DEF Pending, Waits
  <1>14. \A m, s, c : CopyCalls(m, s, c)' = CopyCalls(m, s, c)
    BY <1>1, <1>11 DEF CopyCalls, PairOf
  <1>15. \A t, m, c : Opened(t, m, c)' = Opened(t, m, c)
    BY <1>1 DEF Opened
  <1>16. \A t, m, s, c : CopyState(t, m, s, c)' = CopyState(t, m, s, c)
    BY <1>1, <1>6, <1>7, <1>8, <1>9, <1>13, <1>14, <1>15 DEF CopyState, CopyTree
  <1>17. \A t, m, s : RemoveState(t, m, s)' = RemoveState(t, m, s)
    BY <1>1, <1>6, <1>7, <1>8, <1>9, <1>11 DEF RemoveState, RemoveTree
  <1>18. QED
    BY <1>2, <1>3, <1>9, <1>10, <1>16, <1>17 DEF MoveState

\* A state of a move.
InMove == MvArgs /\ src # <<>> /\ PlainMove /\ MoveState(tree, mpc, frames, copying)

LEMMA MvGoesOn ==
    ASSUME MvInv, MvKeep, mpc \notin {"start", "died"}, mpc' # "start",
           mpc \in {"next", "exit0"} => mpc' = "exit0",
           NEW t, t = tree', NEW m, m = mpc', NEW s, s = frames', NEW c, c = copying',
           InMove => MoveState(t, m, s, c)
    PROVE  MvInv'
  <1>1. UNCHANGED <<cmd, sources, dest, src, final, prior>>
    BY DEF MvKeep
  <1>2. PlainMove' = PlainMove /\ MoveState(t, m, s, c)' = MoveState(t, m, s, c)
    BY <1>1, MvSame
  <1>3. MvArgs'
    BY <1>1 DEF MvInv, MvArgs, Exists
  <1>4. ASSUME src # <<>>, PlainMove  PROVE MoveState(tree, mpc, frames, copying)'
    <2>1. MoveState(t, m, s, c)'
      BY <1>2, <1>4 DEF InMove, MvInv
    <2>2. QED
      BY <2>1
  <1>5. QED
    BY <1>1, <1>2, <1>3, <1>4 DEF MvInv

(* A move that is over, or was never made.                                 *)
LEMMA MvLeaves ==
    ASSUME InMove, NEW m, m \in {"next", "died", "exit0"}, NEW s, NEW c
    PROVE  MoveState(tree, m, s, c)
  BY DEF InMove, MoveState

(* What is known while a source is being moved.                            *)
LEMMA MvHere ==
    ASSUME InMove
    PROVE  /\ src \in Path /\ final \in Path /\ PlainMove
           /\ SrcAt \in Path /\ FinalAt \in Path /\ SrcAt \in DOMAIN prior
           /\ Pathwise(prior) /\ Rooted(prior) /\ LinksLeadOff(prior)
           /\ AtOrBelow(src, src) /\ SrcOf(src) = SrcAt /\ Place(final, src, src) = final
           /\ AtOrBelow(SrcAt, SrcAt) /\ Place(FinalAt, SrcAt, SrcAt) = FinalAt
  <1>1. src \in Path /\ final \in Path /\ PlainMove /\ Exists(prior, src)
    BY DEF InMove, MvArgs
  <1>2. /\ SrcAt \in Path /\ FinalAt \in Path /\ Follow(prior, src) = SrcAt
        /\ Pathwise(prior) /\ Rooted(prior) /\ LinksLeadOff(prior)
    BY <1>1, MvPlaces
  <1>3. AtOrBelow(src, src) /\ AtOrBelow(SrcAt, SrcAt)
    BY <1>1, <1>2, PathIs, PrefixOrder
  <1>4. SrcOf(src) = SrcAt /\ Place(final, src, src) = final
    BY <1>1, <1>2, <1>3, PlaceIs DEF SrcOf
  <1>5. Place(FinalAt, SrcAt, SrcAt) = FinalAt
    BY <1>2, <1>3, PlaceIs
  <1>6. QED
    BY <1>1, <1>2, <1>3, <1>4, <1>5 DEF Exists

LEMMA MvDecideStep ==
    ASSUME InMove, Decide \/ PromptOverride, NEW m, m = mpc', NEW s, NEW c
    PROVE  MoveState(tree, m, s, c)
  <1>1. mpc \in {"decide", "prompt"} /\ m \in {"died", "next", "prompt", "backup"}
    BY DEF Decide, PromptOverride
  <1>2. QED
    BY <1>1 DEF InMove, MoveState

(* The backup, or none: the tree the rename is tried on.                   *)
LEMMA MvBackupStep ==
    ASSUME InMove, CreateBackup, NEW t, t = tree', NEW m, m = mpc', NEW s, NEW c
    PROVE  MoveState(t, m, s, c)
  <1>1. tree = prior /\ src \in Path /\ final \in Path /\ PlainMove
    BY MvHere DEF InMove, MoveState, CreateBackup
  <1>2. CASE m = "died"
    <2>1. t = tree
      BY <1>2 DEF CreateBackup
    <2>2. QED
      BY <1>2, <2>1, MvLeaves
  <1>3. CASE m # "died"
    <2>1. m = "rename" /\ t = Backed /\ BackupDone
      <3>1. CASE cmd.backup = "none" \/ ~Exists(prior, final)
        <4>1. m = "rename" /\ t = prior
          BY <1>1, <3>1 DEF CreateBackup
        <4>2. QED
          BY <3>1, <4>1 DEF Backed, BackupDone, BackedUp
      <3>2. CASE ~(cmd.backup = "none" \/ ~Exists(prior, final))
        <4>1. /\ m = "rename" /\ t = Renamed(prior, final, BackupName(prior, final))
              /\ RenameError(prior, final, BackupName(prior, final)) = "none"
          BY <1>1, <1>3, <3>2 DEF CreateBackup, Die
        <4>2. QED
          BY <3>2, <4>1 DEF Backed, BackupDone, BackedUp
      <3>3. QED
        BY <3>1, <3>2
    <2>2. /\ \A p : ~AtOrBelow(p, FinalAt) /\ (BackedUp => ~AtOrBelow(p, BackAt)) =>
               Alike(prior, t, p)
          /\ SavedOff(t, FinalAt)
      BY <1>1, <2>1, BackedIs
    <2>3. \A p : ~MvMayTouch(p) => Alike(prior, t, p)
      BY <2>2, Untouched DEF Elsewhere
    <2>4. Leaves(t)
      BY <2>3 DEF Leaves, Alike
    <2>5. ASSUME NEW p \in DOMAIN prior, Spared(p)  PROVE prior[p].content \in Contents(t)
      <3>1. PICK q \in DOMAIN t : t[q].kind = "file" /\ t[q].content = prior[p].content
        BY <2>2, <2>5 DEF SavedOff
      <3>2. q \in {y \in DOMAIN t : t[y].kind = "file"}
        BY <3>1
      <3>3. QED
        BY <3>1, <3>2 DEF Contents
    <2>6. Sound(t)
      BY <1>1, <2>1, BackedIs DEF Sound
    <2>7. QED
      BY <2>1, <2>4, <2>5, <2>6 DEF Kept, MoveState
  <1>4. QED
    BY <1>2, <1>3

(* Stacks of calls of copy_dir: what waits in them.                        *)
LEMMA CopyHead ==
    ASSUME NEW s \in Seq(CopyCall), s # <<>>
    PROVE  /\ Head(s) = s[1] /\ s[1] \in CopyCall
           /\ Tail(s) \in Seq(CopyCall) /\ (Tail(s) = <<>> <=> ~(Len(s) > 1))
           /\ \A p : Waits(s, p) => Due(s[1], p) \/ Waits(Tail(s), p)
  <1>1. PICK u : u = Tail(s)
    OBVIOUS
  <1>2. /\ Head(s) = s[1] /\ u \in Seq(CopyCall) /\ Len(u) = Len(s) - 1 /\ Len(s) \in Nat
        /\ \A i \in 1..Len(u) : u[i] = s[i + 1]
    BY <1>1, HeadTailProperties, LenProperties
  <1>3. Len(s) >= 1
    BY <1>2, EmptySeq
  <1>4. s[1] \in CopyCall
    BY <1>2, <1>3, ElementOfSeq
  <1>5. u = <<>> <=> ~(Len(s) > 1)
    <2>1. u = <<>> <=> Len(u) = 0
      BY <1>2, EmptySeq
    <2>2. QED
      BY <1>2, <1>3, <2>1
  <1>6. ASSUME NEW p, NEW k \in 1..Len(s), Due(s[k], p), k # 1  PROVE Waits(u, p)
    <2>1. k - 1 \in 1..Len(u) /\ (k - 1) + 1 = k
      BY <1>2, <1>6
    <2>2. u[k - 1] = s[k]
      BY <1>2, <2>1
    <2>3. QED
      BY <1>6, <2>1, <2>2 DEF Waits
  <1>7. QED
    BY <1>1, <1>2, <1>4, <1>5, <1>6 DEF Waits

LEMMA CopyHeadReplaced ==
    ASSUME NEW s \in Seq(CopyCall), s # <<>>, NEW g \in CopyCall,
           NEW v, v = <<g>> \o Tail(s)
    PROVE  /\ v \in Seq(CopyCall) /\ v # <<>>
           /\ \A p : Due(g, p) => Waits(v, p)
           /\ \A p : Waits(s, p) => Due(s[1], p) \/ Waits(v, p)
  <1>1. /\ v \in Seq(CopyCall) /\ Len(v) = Len(s) /\ v[1] = g
        /\ \A i \in 2..Len(s) : v[i] = s[i]
    BY HeadReplaced
  <1>2. Len(s) \in Nat /\ Len(s) >= 1
    BY LenProperties, EmptySeq
  <1>3. v # <<>>
    BY <1>1, <1>2, EmptySeq
  <1>4. \A p : Due(g, p) => Waits(v, p)
    BY <1>1, <1>2 DEF Waits
  <1>5. ASSUME NEW p, NEW k \in 1..Len(s), Due(s[k], p), k # 1  PROVE Waits(v, p)
    <2>1. k \in 2..Len(s) /\ k \in 1..Len(v)
      BY <1>1, <1>2, <1>5
    <2>2. QED
      BY <1>1, <1>5, <2>1 DEF Waits
  <1>6. QED
    BY <1>1, <1>3, <1>4, <1>5 DEF Waits

LEMMA CopyInFront ==
    ASSUME NEW s \in Seq(CopyCall), NEW g \in CopyCall, NEW v, v = <<g>> \o s
    PROVE  /\ v \in Seq(CopyCall) /\ v # <<>>
           /\ \A p : Due(g, p) \/ Waits(s, p) => Waits(v, p)
  <1>1. /\ v \in Seq(CopyCall) /\ Len(v) = Len(s) + 1 /\ v[1] = g
        /\ \A i \in 1..Len(s) : v[i + 1] = s[i]
    BY InFront
  <1>2. Len(s) \in Nat /\ 1 \in 1..Len(v)
    BY <1>1, LenProperties
  <1>3. v # <<>>
    BY <1>1, <1>2, EmptySeq
  <1>4. \A p : Due(g, p) => Waits(v, p)
    BY <1>1, <1>2 DEF Waits
  <1>5. ASSUME NEW p, NEW k \in 1..Len(s), Due(s[k], p)  PROVE Waits(v, p)
    <2>1. k + 1 \in 1..Len(v)
      BY <1>1, <1>2
    <2>2. QED
      BY <1>1, <1>5, <2>1 DEF Waits
  <1>6. QED
    BY <1>1, <1>3, <1>4, <1>5 DEF Waits
(* Where the paths at and below the source lead, and those they go to.     *)
LEMMA MvPaths ==
    ASSUME InMove, NEW t, Stands(t), NEW x \in Path, AtOrBelow(x, src),
           NEW z, z = SrcOf(x), NEW y, y = Place(final, x, src),
           NEW a, a = Place(FinalAt, z, SrcAt)
    PROVE  /\ z \in Path /\ AtOrBelow(z, SrcAt) /\ At(t, x) = z /\ Follow(t, x) = z
           /\ y \in Path /\ AtOrBelow(y, final) /\ At(t, y) = a /\ Follow(t, y) = a
           /\ a \in Path /\ AtOrBelow(a, FinalAt)
           /\ \A n \in Name :
                /\ Append(x, n) \in Path /\ AtOrBelow(Append(x, n), src)
                /\ SrcOf(Append(x, n)) = Append(z, n)
                /\ Place(final, Append(x, n), src) = Append(y, n)
  <1>1. /\ src \in Path /\ final \in Path /\ PlainMove /\ SrcAt \in Path /\ FinalAt \in Path
    BY MvHere
  <1>2. Pathwise(t) /\ Rooted(t) /\ SameWays(prior, t)
    BY DEF Stands
  <1>3. /\ z \in Path /\ AtOrBelow(z, SrcAt) /\ y \in Path /\ AtOrBelow(y, final)
    BY <1>1, PlaceIs DEF SrcOf
  <1>4. At(t, x) = z /\ Follow(t, x) = z
    BY <1>1, <1>2, MvWhere DEF SrcOf
  <1>5. At(t, y) = Place(FinalAt, y, final) /\ Follow(t, y) = Place(FinalAt, y, final)
    BY <1>1, <1>2, <1>3, MvWhere
  <1>6. Place(FinalAt, y, final) = Place(FinalAt, x, src)
    BY <1>1, PlacesTwice
  <1>7. a = Place(FinalAt, x, src)
    BY <1>1, PlacesTwice DEF SrcOf
  <1>8. a \in Path /\ AtOrBelow(a, FinalAt)
    BY <1>1, <1>3, PlaceIs
  <1>9. ASSUME NEW n \in Name
        PROVE  /\ Append(x, n) \in Path /\ AtOrBelow(Append(x, n), src)
               /\ SrcOf(Append(x, n)) = Append(z, n)
               /\ Place(final, Append(x, n), src) = Append(y, n)
    <2>1. ASSUME NEW b \in Path
          PROVE  /\ Append(x, n) \in Path /\ AtOrBelow(Append(x, n), src)
                 /\ Place(b, Append(x, n), src) = Append(Place(b, x, src), n)
      BY <1>1, <1>9, PlaceOfMore
    <2>2. QED
      BY <1>1, <2>1 DEF SrcOf
  <1>10. QED
    BY <1>3, <1>4, <1>5, <1>6, <1>7, <1>8, <1>9

(* While the source is whole it is what it was.                            *)
LEMMA MvSource ==
    ASSUME InMove, NEW t, CopyTree(t), NEW x \in Path, AtOrBelow(x, src), NEW z, z = SrcOf(x)
    PROVE  /\ z \in DOMAIN t <=> z \in DOMAIN prior
           /\ z \in DOMAIN prior => t[z] = prior[z]
           /\ IsDir(t, x) <=> z \in DOMAIN prior /\ prior[z].kind = "dir"
           /\ Exists(t, x) <=> z \in DOMAIN prior
           /\ ~IsDir(t, x) /\ z \in DOMAIN prior => prior[z].kind = "file"
           /\ z \in DOMAIN prior => Reads(t, x) = IF prior[z].kind = "file" THEN prior[z].content
                                                  ELSE Listing
  <1>1. Stands(t) /\ SourceWhole(t) /\ PlainMove
    BY MvHere DEF CopyTree
  <1>2. AtOrBelow(z, SrcAt) /\ Follow(t, x) = z
    BY <1>1, MvPaths
  <1>3. (z \in DOMAIN t <=> z \in DOMAIN prior) /\ (z \in DOMAIN prior => t[z] = prior[z])
    BY <1>1, <1>2 DEF SourceWhole, Alike
  <1>4. /\ IsDir(t, x) <=> z \in DOMAIN prior /\ prior[z].kind = "dir"
        /\ Exists(t, x) <=> z \in DOMAIN prior
    BY <1>2, <1>3 DEF IsDir, Exists
  <1>5. ASSUME ~IsDir(t, x), z \in DOMAIN prior  PROVE prior[z].kind = "file"
    <2>1. z \in SourceFiles
      BY <1>2, <1>4, <1>5 DEF SourceFiles
    <2>2. QED
      BY <1>1, <2>1, SourceFileIs
  <1>6. z \in DOMAIN prior => Reads(t, x) = IF prior[z].kind = "file" THEN prior[z].content
                                            ELSE Listing
    BY <1>2, <1>3 DEF Reads, Exists
  <1>7. QED
    BY <1>3, <1>4, <1>5, <1>6

(* What is no directory of the source has nothing of the source below it.  *)
LEMMA SourceLeaf ==
    ASSUME InMove, NEW z \in Path, z \in DOMAIN prior => prior[z].kind # "dir",
           NEW p \in SourceFiles, AtOrBelow(p, z)
    PROVE  p = z
  <1>1. Pathwise(prior) /\ Rooted(prior) /\ p \in DOMAIN prior /\ p \in Path
    BY MvHere, SourceFileIs DEF SourceFiles
  <1>2. ~IsStrictPrefix(z, p)
    BY <1>1, LeafIs
  <1>3. QED
    BY <1>1, <1>2, PathIs, PrefixOrder

LEMMA RenameCrosses ==
    ASSUME NEW t, NEW from, NEW to, RenameError(t, from, to) = "xdev",
           NEW s, s = At(t, from), NEW d, d = At(t, to)
    PROVE  <<Mount>> \notin {s, d} /\ Device(s) # Device(d)
  <1> DEFINE clash == /\ d \in DOMAIN t
                      /\ \/ (t[s].kind = "dir") # (t[d].kind = "dir")
                         \/ Listed(t, d) # {} /\ t[d].kind = "dir"
  <1>1. RenameError(t, from, to) =
        IF ~HasParent(t, to) \/ <<Mount>> \in {s, d} THEN "other"
        ELSE IF Device(s) # Device(d) THEN "xdev"
        ELSE IF s \notin DOMAIN t THEN "other"
        ELSE IF s = d THEN "none"
        ELSE IF IsStrictPrefix(s, d) \/ IsStrictPrefix(d, s) \/ clash THEN "other"
        ELSE "none"
    BY Zenon DEF RenameError
  <1> HIDE DEF clash
  <1>2. QED
    BY <1>1

LEMMA OneCall ==
    ASSUME NEW S, NEW f \in S, NEW s, s = <<f>>
    PROVE  s \in Seq(S) /\ s # <<>> /\ Len(s) = 1 /\ s[1] = f /\ 1 \in 1..Len(s)
  OBVIOUS

(* A copy begins, of a directory or of a file.                             *)
LEMMA MvCopyBegins ==
    ASSUME InMove, mpc = "rename", RenameError(tree, src, final) = "xdev",
           NEW m, m = (IF IsDir(tree, src) THEN "copydir" ELSE "copyfile"),
           NEW s, s = (IF IsDir(tree, src)
                       THEN <<[from |-> src, to |-> final, left |-> {}, in |-> FALSE]>>
                       ELSE <<>>),
           NEW c
    PROVE  CopyState(tree, m, s, c)
  <1>1. /\ src \in Path /\ final \in Path /\ PlainMove /\ SrcAt \in DOMAIN prior
        /\ SrcOf(src) = SrcAt /\ AtOrBelow(src, src) /\ Place(final, src, src) = final
        /\ SrcAt \in Path
    BY MvHere
  <1>2. tree = Backed /\ BackupDone
    BY DEF InMove, MoveState
  <1>3. SameWays(prior, tree)
    BY <1>1, <1>2, BackedIs
  <1>4. At(tree, src) = SrcAt /\ At(tree, final) = FinalAt
    BY <1>3, SameWay DEF SrcAt, FinalAt
  <1>5. <<Mount>> \notin {SrcAt, FinalAt} /\ Device(SrcAt) # Device(FinalAt)
    BY <1>4, RenameCrosses
  <1>6. CopyTree(tree)
    BY <1>1, <1>2, <1>5, Crosses DEF CopyTree
  <1>7. CASE IsDir(tree, src)
    <2>1. prior[SrcAt].kind = "dir"
      BY <1>1, <1>6, <1>7, MvSource
    <2>2. PICK f : f = [from |-> src, to |-> final, left |-> {}, in |-> FALSE]
      OBVIOUS
    <2>3. f \in CopyCall
      BY <1>1, <2>1, <2>2 DEF CopyCall
    <2>4. s = <<f>> /\ m = "copydir"
      BY <1>7, <2>2
    <2>5. s \in Seq(CopyCall) /\ s # <<>> /\ s[1] = f /\ 1 \in 1..Len(s)
      BY <2>3, <2>4, OneCall
    <2>6. ASSUME NEW p \in SourceFiles  PROVE Waits(s, p)
      <3>1. Due(f, p)
        BY <1>1, <2>2, <2>6 DEF Due, SourceFiles
      <3>2. QED
        BY <2>5, <3>1 DEF Waits
    <2>7. QED
      BY <1>6, <2>4, <2>5, <2>6 DEF CopyState, CopyCalls, Opened, Pending
  <1>8. CASE ~IsDir(tree, src)
    <2>1. prior[SrcAt].kind = "file"
      BY <1>1, <1>6, <1>8, MvSource
    <2>2. s = <<>> /\ m = "copyfile" /\ s \in Seq(CopyCall)
      BY <1>8
    <2>3. QED
      BY <1>6, <2>1, <2>2 DEF CopyState, CopyCalls, Opened, Pending
  <1>9. QED
    BY <1>7, <1>8

LEMMA MvRenameStep ==
    ASSUME InMove, TryRename,
           NEW t, t = tree', NEW m, m = mpc', NEW s, s = frames', NEW c, c = copying'
    PROVE  MoveState(t, m, s, c)
  <1>1. mpc = "rename" /\ tree = Backed /\ BackupDone /\ src \in Path /\ final \in Path
        /\ PlainMove
    BY MvHere DEF InMove, MoveState, TryRename
  <1>2. Kept(tree) /\ Leaves(tree) /\ Sound(tree)
    BY DEF InMove, MoveState
  <1>3. CASE m = "moved"
    <2>1. RenameError(tree, src, final) = "none" /\ t = Renamed(tree, src, final)
      BY <1>3 DEF TryRename, Die
    <2>2. Kept(t) /\ Leaves(t) /\ Arrived(t) /\ Sound(t)
      BY <1>1, <2>1, RenameMoves
    <2>3. QED
      BY <1>3, <2>2 DEF MoveState
  <1>4. CASE m = "died"
    <2>1. t = tree
      BY <1>4 DEF TryRename
    <2>2. QED
      BY <1>4, <2>1, MvLeaves
  <1>5. CASE m \notin {"moved", "died"}
    <2>1. /\ RenameError(tree, src, final) = "xdev" /\ t = tree
          /\ m = (IF IsDir(tree, src) THEN "copydir" ELSE "copyfile")
          /\ s = (IF IsDir(tree, src)
                  THEN <<[from |-> src, to |-> final, left |-> {}, in |-> FALSE]>>
                  ELSE <<>>)
      BY <1>5 DEF TryRename, Die
    <2>2. CopyState(t, m, s, c)
      BY <1>1, <2>1, MvCopyBegins
    <2>3. m \in {"copydir", "copyfile"}
      BY <2>1
    <2>4. QED
      BY <1>2, <2>1, <2>2, <2>3 DEF MoveState
  <1>6. QED
    BY <1>3, <1>4, <1>5
LEMMA MvCopied ==
    ASSUME NEW t, NEW m, m \in {"copydir", "copyfile", "copydata"}, NEW s, NEW c,
           CopyState(t, m, s, c)
    PROVE  MoveState(t, m, s, c)
  <1>1. Kept(t) /\ Leaves(t) /\ Sound(t)
    BY StandsMeans DEF CopyState, CopyTree
  <1>2. QED
    BY <1>1 DEF MoveState

LEMMA MvCopyCut ==
    ASSUME NEW t, NEW m, m \in {"next", "died", "exit0"}, NEW s, NEW c, CopyTree(t)
    PROVE  MoveState(t, m, s, c)
  <1>1. Kept(t) /\ Leaves(t) /\ Sound(t)
    BY StandsMeans DEF CopyTree
  <1>2. QED
    BY <1>1 DEF MoveState

LEMMA MvRemoved ==
    ASSUME NEW t, NEW m, m \in {"unlink", "rmdir"}, NEW s, NEW c, RemoveState(t, m, s)
    PROVE  MoveState(t, m, s, c)
  <1>1. Kept(t) /\ Leaves(t) /\ Sound(t)
    BY StandsMeans DEF RemoveState, RemoveTree
  <1>2. QED
    BY <1>1 DEF MoveState

\* A call of copy_dir: its directory, and where that goes.
LEMMA CopyCallIs ==
    ASSUME NEW f \in CopyCall
    PROVE  /\ f \in [from : Path, to : Path, left : SUBSET Name, in : BOOLEAN]
           /\ f.from \in Path /\ f.to \in Path /\ f.left \subseteq Name /\ f.in \in BOOLEAN
           /\ AtOrBelow(f.from, src) /\ f.to = Place(final, f.from, src)
           /\ SrcOf(f.from) \in DOMAIN prior /\ prior[SrcOf(f.from)].kind = "dir"
  BY DEF CopyCall

(* A directory is entered: what was due with it is due with its entries.   *)
LEMMA DueInside ==
    ASSUME InMove, NEW t, CopyTree(t), NEW f \in CopyCall, ~f.in, NEW p \in SourceFiles,
           Due(f, p), NEW l, l = Listed(t, f.from)
    PROVE  \E n \in l : AtOrBelow(p, SrcOf(Append(f.from, n)))
  <1>1. PICK x, d : x = f.from /\ d = SrcOf(x)
    OBVIOUS
  <1>2. /\ x \in Path /\ AtOrBelow(x, src) /\ f.left \subseteq Name
        /\ d \in DOMAIN prior /\ prior[d].kind = "dir"
    BY <1>1, CopyCallIs
  <1>3. Stands(t) /\ SourceWhole(t) /\ Pathwise(t) /\ Rooted(t) /\ PlainMove
    BY MvHere DEF CopyTree, Stands
  <1>4. /\ d \in Path /\ AtOrBelow(d, SrcAt) /\ Follow(t, x) = d
        /\ \A n \in Name : SrcOf(Append(x, n)) = Append(d, n)
    BY <1>1, <1>2, <1>3, MvPaths
  <1>5. d \in DOMAIN t /\ t[d].kind = "dir"
    BY <1>2, <1>3, <1>4 DEF SourceWhole, Alike
  <1>6. p \in Path /\ p \in DOMAIN prior /\ AtOrBelow(p, SrcAt) /\ prior[p].kind = "file"
    BY <1>3, SourceFileIs DEF SourceFiles
  <1>7. p \in DOMAIN t
    BY <1>3, <1>6 DEF SourceWhole, Alike
  <1>8. AtOrBelow(p, d)
    <2>1. CASE AtOrBelow(p, SrcOf(f.from))
      BY <1>1, <2>1
    <2>2. CASE \E n \in f.left : AtOrBelow(p, SrcOf(Append(f.from, n)))
      <3>1. PICK n \in Name : AtOrBelow(p, Append(d, n))
        BY <1>1, <1>2, <1>4, <2>2
      <3>2. PICK q : q = Append(d, n)
        OBVIOUS
      <3>3. q \in Seq(Name) /\ AtOrBelow(q, d) /\ d \in Seq(Name) /\ p \in Seq(Name)
        BY <1>4, <1>6, <3>2, Appended, PathIs
      <3>4. QED
        BY <3>1, <3>2, <3>3, PrefixOrder
    <2>3. QED
      BY <2>1, <2>2 DEF Due
  <1>9. IsStrictPrefix(d, p)
    BY <1>2, <1>4, <1>6, <1>8, PathIs, PrefixOrder
  <1>10. PICK n \in Name : n \in Listed(t, d) /\ AtOrBelow(p, Append(d, n))
    BY <1>3, <1>5, <1>7, <1>9, EntryAbove
  <1>11. Follow(t, d) = d
    BY <1>3, <1>5, PlaceOfItself DEF Follow
  <1>12. Listed(t, x) = Listed(t, d)
    BY <1>4, <1>11 DEF Listed
  <1>13. QED
    BY <1>1, <1>4, <1>10, <1>12

LEMMA MvCopyDirEnterStep ==
    ASSUME InMove, CopyDirEnter,
           NEW t, t = tree', NEW m, m = mpc', NEW s, s = frames', NEW c, c = copying'
    PROVE  MoveState(t, m, s, c)
  <1>1. /\ mpc = "copydir" /\ ~Head(frames).in /\ PlainMove /\ src \in Path /\ final \in Path
        /\ CopyTree(tree) /\ Stands(tree) /\ Pathwise(tree) /\ Rooted(tree)
        /\ LinksLeadOff(tree) /\ frames \in Seq(CopyCall) /\ frames # <<>>
        /\ \A p \in SourceFiles : Copied(tree, p) \/ Waits(frames, p)
    <2>1. mpc = "copydir" /\ ~Head(frames).in /\ CopyState(tree, mpc, frames, copying)
      BY DEF CopyDirEnter, InMove, MoveState
    <2>2. Stands(tree) /\ SameWays(prior, tree)
      BY <2>1 DEF CopyState, CopyTree, Stands
    <2>3. LinksLeadOff(tree)
      BY <2>2, MvHere, SameLead
    <2>4. \A p \in SourceFiles : Copied(tree, p) \/ Waits(frames, p)
      BY <2>1 DEF CopyState, Pending
    <2>5. QED
      BY <2>1, <2>2, <2>3, <2>4, MvHere DEF CopyState, CopyCalls, Stands
  <1>2. PICK f : f = frames[1]
    OBVIOUS
  <1>3. f \in CopyCall /\ Head(frames) = f /\ ~f.in
    BY <1>1, <1>2, CopyHead
  <1>4. PICK x, y, a : x = f.from /\ y = f.to /\ a = Place(FinalAt, SrcOf(x), SrcAt)
    OBVIOUS
  <1>5. /\ x \in Path /\ AtOrBelow(x, src) /\ y = Place(final, x, src)
        /\ y \in Path /\ At(tree, y) = a /\ a \in Path /\ AtOrBelow(a, FinalAt)
    BY <1>1, <1>3, <1>4, CopyCallIs, MvPaths
  <1>6. CopyTree(t) /\ \A p \in SourceFiles : Copied(tree, p) => Copied(t, p)
    <2>1. CASE t = tree
      BY <1>1, <2>1
    <2>2. CASE CanMkdir(tree, y) /\ t = Made(tree, y)
      <3>1. a \notin DOMAIN tree /\ HasParent(tree, y) /\ t = With(tree, a, Dir)
        BY <1>5, <2>2 DEF CanMkdir, Made
      <3>2. Grounded(tree, a)
        BY <1>1, <1>5, <3>1, HeldIsGrounded
      <3>3. Dir.kind # "link" /\ IsNode(Dir)
        BY DEF Dir, IsNode
      <3>4. /\ Stands(t) /\ SourceWhole(t) /\ SavedOff(t, FinalAt)
            /\ \A p \in SourceFiles :
                 Copied(tree, p) /\ Place(FinalAt, p, SrcAt) # a => Copied(t, p)
        BY <1>1, <1>5, <3>1, <3>2, <3>3, CopyGrows DEF CopyTree
      <3>5. QED
        BY <3>1, <3>4 DEF CopyTree, Copied
    <2>3. QED
      BY <1>3, <1>4, <2>1, <2>2 DEF CopyDirEnter
  <1>7. CASE m = "died"
    BY <1>6, <1>7, MvCopyCut
  <1>8. CASE m # "died"
    <2>1. PICK l, g : l = Listed(tree, x) /\ g = [f EXCEPT !.in = TRUE, !.left = l]
      OBVIOUS
    <2>2. m = "copydir" /\ s = <<g>> \o Tail(frames)
      BY <1>1, <1>3, <1>4, <1>8, <2>1 DEF CopyDirEnter, Die
    <2>3. l \subseteq Name
      BY <1>1, <2>1, NamesListed DEF Pathwise
    <2>4. g \in CopyCall /\ g.from = x /\ g.left = l
      BY <1>3, <1>4, <2>1, <2>3 DEF CopyCall
    <2>5. /\ s \in Seq(CopyCall) /\ s # <<>>
          /\ \A p : Due(g, p) => Waits(s, p)
          /\ \A p : Waits(frames, p) => Due(f, p) \/ Waits(s, p)
      BY <1>1, <1>2, <2>2, <2>4, CopyHeadReplaced
    <2>6. ASSUME NEW p \in SourceFiles, Due(f, p)  PROVE Due(g, p)
      <3>1. \E n \in l : AtOrBelow(p, SrcOf(Append(f.from, n)))
        BY <1>1, <1>3, <1>4, <2>1, <2>6, DueInside
      <3>2. QED
        BY <1>4, <2>4, <3>1 DEF Due
    <2>7. \A p \in SourceFiles : Copied(t, p) \/ Waits(s, p)
      BY <1>1, <1>6, <2>5, <2>6
    <2>8. CopyState(t, m, s, c)
      BY <1>6, <2>2, <2>5, <2>7 DEF CopyState, CopyCalls, Opened, Pending
    <2>9. QED
      BY <2>2, <2>8, MvCopied
  <1>9. QED
    BY <1>7, <1>8
(* What the states of copy_dir have in common.                             *)
LEMMA MvInCopy ==
    ASSUME InMove, mpc \in {"copydir", "copyfile", "copydata"}
    PROVE  /\ PlainMove /\ src \in Path /\ final \in Path
           /\ CopyState(tree, mpc, frames, copying) /\ CopyTree(tree)
           /\ Stands(tree) /\ SourceWhole(tree) /\ Pathwise(tree) /\ Rooted(tree)
           /\ LinksLeadOff(tree) /\ SameWays(prior, tree) /\ frames \in Seq(CopyCall)
           /\ \A p \in SourceFiles : Copied(tree, p) \/ Pending(mpc, frames, copying, p)
  <1>1. CopyState(tree, mpc, frames, copying)
    BY DEF InMove, MoveState
  <1>2. Stands(tree) /\ SameWays(prior, tree) /\ Pathwise(tree) /\ Rooted(tree)
    BY <1>1 DEF CopyState, CopyTree, Stands
  <1>3. LinksLeadOff(tree)
    BY <1>2, MvHere, SameLead
  <1>4. QED
    BY <1>1, <1>2, <1>3, MvHere DEF CopyState, CopyTree, CopyCalls

LEMMA MvCopyEntryStep ==
    ASSUME InMove, CopyEntry,
           NEW t, t = tree', NEW m, m = mpc', NEW s, s = frames', NEW c, c = copying'
    PROVE  MoveState(t, m, s, c)
  <1>1. mpc = "copydir" /\ Head(frames).in /\ t = tree
    BY DEF CopyEntry
  <1>2. /\ CopyTree(tree) /\ Stands(tree) /\ frames \in Seq(CopyCall) /\ frames # <<>>
        /\ \A p \in SourceFiles : Copied(tree, p) \/ Waits(frames, p)
    BY <1>1, MvInCopy DEF CopyState, CopyCalls, Pending
  <1>3. PICK f : f = frames[1]
    OBVIOUS
  <1>4. f \in CopyCall /\ Head(frames) = f /\ f.in
    BY <1>1, <1>2, <1>3, CopyHead
  <1>5. PICK name \in f.left :
           LET from  == Append(f.from, name)
               to    == Append(f.to, name)
               after == <<[f EXCEPT !.left = @ \ {name}]>> \o Tail(frames)
           IN  IF IsDir(tree, from)
               THEN /\ s = <<[from |-> from, to |-> to, left |-> {}, in |-> FALSE]>> \o after
                    /\ m = mpc /\ c = copying
               ELSE /\ s = after /\ m = "copyfile" /\ c = <<from, to>>
    BY <1>4 DEF CopyEntry
  <1>6. PICK x, y, z : x = Append(f.from, name) /\ y = Append(f.to, name) /\ z = SrcOf(x)
    OBVIOUS
  <1>7. /\ f.from \in Path /\ AtOrBelow(f.from, src) /\ f.to = Place(final, f.from, src)
        /\ f.left \subseteq Name
    BY <1>4, CopyCallIs
  <1>8. x \in Path /\ AtOrBelow(x, src) /\ y = Place(final, x, src)
    BY <1>2, <1>6, <1>7, MvPaths
  <1>9. y \in Path /\ z \in Path
    BY <1>2, <1>6, <1>8, MvPaths
  <1>10. PICK g, after : /\ g = [f EXCEPT !.left = @ \ {name}]
                         /\ after = <<g>> \o Tail(frames)
    OBVIOUS
  <1>11. g \in CopyCall /\ g.from = f.from /\ g.left = f.left \ {name} /\ g.in
    BY <1>4, <1>10 DEF CopyCall
  <1>12. /\ after \in Seq(CopyCall) /\ after # <<>>
         /\ \A p : Due(g, p) => Waits(after, p)
         /\ \A p : Waits(frames, p) => Due(f, p) \/ Waits(after, p)
    BY <1>2, <1>3, <1>10, <1>11, CopyHeadReplaced, ZenonT(60)
  <1>13. ASSUME NEW p, Due(f, p)  PROVE Due(g, p) \/ AtOrBelow(p, z)
    BY <1>4, <1>6, <1>11, <1>13 DEF Due
  <1>14. \A p \in SourceFiles : Copied(t, p) \/ Waits(after, p) \/ AtOrBelow(p, z)
    BY <1>1, <1>2, <1>12, <1>13
  <1>15. CASE IsDir(tree, x)
    <2>1. PICK h : h = [from |-> x, to |-> y, left |-> {}, in |-> FALSE]
      OBVIOUS
    <2>2. s = <<h>> \o after /\ m = "copydir"
      BY <1>1, <1>5, <1>6, <1>10, <1>15, <2>1
    <2>3. z \in DOMAIN prior /\ prior[z].kind = "dir"
      BY <1>2, <1>6, <1>8, <1>15, MvSource
    <2>4. h \in CopyCall
      BY <1>6, <1>8, <1>9, <2>1, <2>3 DEF CopyCall
    <2>5. /\ s \in Seq(CopyCall) /\ s # <<>>
          /\ \A p : Due(h, p) \/ Waits(after, p) => Waits(s, p)
      BY <1>12, <2>2, <2>4, CopyInFront
    <2>6. \A p : AtOrBelow(p, z) => Due(h, p)
      BY <1>6, <2>1 DEF Due
    <2>7. CopyState(t, m, s, c)
      BY <1>1, <1>2, <1>14, <2>2, <2>5, <2>6 DEF CopyState, CopyCalls, Opened, Pending
    <2>8. QED
      BY <2>2, <2>7, MvCopied
  <1>16. CASE ~IsDir(tree, x)
    <2>1. s = after /\ m = "copyfile" /\ c = <<x, y>>
      BY <1>5, <1>6, <1>10, <1>16
    <2>2. z \in DOMAIN prior => prior[z].kind = "file"
      BY <1>2, <1>6, <1>8, <1>16, MvSource
    <2>3. c[1] = x /\ c[2] = y
      BY <2>1
    <2>4. PairOf(c)
      BY <1>6, <1>8, <2>2, <2>3 DEF PairOf
    <2>5. ASSUME NEW p \in SourceFiles, AtOrBelow(p, z)  PROVE p = SrcOf(c[1])
      <3>1. z \in DOMAIN prior => prior[z].kind # "dir"
        BY <2>2
      <3>2. QED
        BY <1>6, <1>9, <2>3, <2>5, <3>1, SourceLeaf
    <2>6. \A p \in SourceFiles : Copied(t, p) \/ Pending(m, s, c, p)
      BY <1>12, <1>14, <2>1, <2>5 DEF Pending
    <2>7. CopyState(t, m, s, c)
      BY <1>1, <1>2, <1>12, <2>1, <2>4, <2>6 DEF CopyState, CopyCalls, Opened
    <2>8. QED
      BY <2>1, <2>7, MvCopied
  <1>17. QED
    BY <1>15, <1>16

LEMMA MvCopyDirLeaveStep ==
    ASSUME InMove, CopyDirLeave,
           NEW t, t = tree', NEW m, m = mpc', NEW s, s = frames', NEW c, c = copying'
    PROVE  MoveState(t, m, s, c)
  <1>1. mpc = "copydir" /\ Head(frames).in /\ Head(frames).left = {} /\ t = tree
    BY DEF CopyDirLeave
  <1>2. /\ CopyTree(tree) /\ frames \in Seq(CopyCall) /\ frames # <<>>
        /\ \A p \in SourceFiles : Copied(tree, p) \/ Waits(frames, p)
    BY <1>1, MvInCopy DEF CopyState, CopyCalls, Pending
  <1>3. PICK u : u = Tail(frames)
    OBVIOUS
  <1>4. /\ u \in Seq(CopyCall) /\ (u = <<>> <=> ~(Len(frames) > 1))
        /\ \A p : Waits(frames, p) => Due(frames[1], p) \/ Waits(u, p)
        /\ Head(frames) = frames[1]
    BY <1>2, <1>3, CopyHead
  <1>5. \A p : ~Due(frames[1], p)
    BY <1>1, <1>4 DEF Due
  <1>6. \A p \in SourceFiles : Copied(t, p) \/ Waits(u, p)
    BY <1>1, <1>2, <1>4, <1>5
  <1>7. CASE Len(frames) > 1
    <2>1. s = u /\ m = "copydir"
      BY <1>1, <1>3, <1>7 DEF CopyDirLeave
    <2>2. CopyState(t, m, s, c)
      BY <1>1, <1>2, <1>4, <1>6, <1>7, <2>1 DEF CopyState, CopyCalls, Opened, Pending
    <2>3. QED
      BY <2>1, <2>2, MvCopied
  <1>8. CASE ~(Len(frames) > 1)
    <2>1. PICK f : f = [path |-> src, left |-> {}, in |-> FALSE]
      OBVIOUS
    <2>2. s = <<f>> /\ m = "rmdir"
      BY <1>8, <2>1 DEF CopyDirLeave
    <2>3. \A p : ~Waits(u, p)
      <3>1. Len(u) = 0
        BY <1>4, <1>8
      <3>2. QED
        BY <3>1 DEF Waits
    <2>4. \A p \in SourceFiles : Copied(t, p)
      BY <1>6, <2>3
    <2>5. Stands(t) /\ SourceWhole(t) /\ SavedOff(t, FinalAt) /\ PlainMove
          /\ src \in Path /\ final \in Path /\ AtOrBelow(src, src)
      BY <1>1, <1>2, MvHere DEF CopyTree
    <2>6. RemoveTree(t)
      BY <2>4, <2>5, CopyOver DEF RemoveTree
    <2>7. f \in RemoveCall /\ f.path = src
      BY <2>1, <2>5 DEF RemoveCall
    <2>8. s \in Seq(RemoveCall) /\ s # <<>> /\ Len(s) = 1 /\ s[1] = f
      BY <2>2, <2>7, OneCall
    <2>9. RemoveState(t, m, s)
      BY <2>2, <2>6, <2>7, <2>8 DEF RemoveState
    <2>10. QED
      BY <2>2, <2>9, MvRemoved
  <1>9. QED
    BY <1>7, <1>8

LEMMA MvCopyOpenStep ==
    ASSUME InMove, CopyOpen,
           NEW t, t = tree', NEW m, m = mpc', NEW s, s = frames', NEW c, c = copying'
    PROVE  MoveState(t, m, s, c)
  <1>1. mpc = "copyfile" /\ s = frames
    BY DEF CopyOpen
  <1>2. /\ PlainMove /\ src \in Path /\ final \in Path
        /\ CopyTree(tree) /\ Stands(tree) /\ Pathwise(tree) /\ Rooted(tree)
        /\ LinksLeadOff(tree) /\ SameWays(prior, tree) /\ frames \in Seq(CopyCall)
        /\ frames = <<>> => prior[SrcAt].kind = "file"
        /\ frames # <<>> => PairOf(copying)
        /\ \A p \in SourceFiles : Copied(tree, p) \/ Pending(mpc, frames, copying, p)
    BY <1>1, MvInCopy DEF CopyState, CopyCalls
  <1>3. CASE m = "died"
    <2>1. t = tree
      BY <1>3 DEF CopyOpen
    <2>2. QED
      BY <1>3, <2>1, MvLeaves
  <1>4. CASE m # "died"
    <2>1. PICK pair : pair = IF frames = <<>> THEN <<src, final>> ELSE copying
      OBVIOUS
    <2>2. /\ CanTruncate(tree, pair[2]) /\ Exists(tree, pair[1])
          /\ t = Truncated(tree, pair[2]) /\ c = pair /\ m = "copydata"
      BY <1>4, <2>1 DEF CopyOpen, Die
    <2>3. PairOf(c) /\ (frames = <<>> => c[1] = src)
      <3>1. CASE frames = <<>>
        <4>1. c[1] = src /\ c[2] = final
          BY <2>1, <2>2, <3>1
        <4>2. QED
          BY <1>2, <3>1, <4>1, MvHere DEF PairOf
      <3>2. CASE frames # <<>>
        BY <1>2, <2>1, <2>2, <3>2
      <3>3. QED
        BY <3>1, <3>2
    <2>4. PICK x, y, z, a : /\ x = c[1] /\ y = c[2] /\ z = SrcOf(x)
                            /\ a = Place(FinalAt, z, SrcAt)
      OBVIOUS
    <2>5. /\ x \in Path /\ AtOrBelow(x, src) /\ y = Place(final, x, src)
      BY <2>3, <2>4 DEF PairOf
    <2>6. /\ y \in Path /\ At(tree, y) = a /\ Follow(tree, y) = a
          /\ a \in Path /\ AtOrBelow(a, FinalAt) /\ z \in Path /\ AtOrBelow(z, SrcAt)
      BY <1>2, <2>4, <2>5, MvPaths
    <2>7. z \in DOMAIN prior
      BY <1>2, <2>2, <2>4, <2>5, MvSource
    <2>8. HasParent(tree, a) /\ ~IsDir(tree, y) /\ t = With(tree, a, File(Torn))
      BY <2>2, <2>4, <2>6 DEF CanTruncate, Truncated
    <2>9. At(tree, a) = a
      BY <1>2, <2>6, PlaceOfPlace
    <2>10. Grounded(tree, a)
      BY <1>2, <2>6, <2>8, <2>9, HeldIsGrounded
    <2>11. ~(a \in DOMAIN tree /\ tree[a].kind = "dir")
      BY <2>6, <2>8 DEF IsDir, Exists
    <2>12. PICK node : node = File(Torn)
      OBVIOUS
    <2>13. node.kind = "file" /\ IsNode(node) /\ t = With(tree, a, node)
      BY <2>8, <2>12 DEF File, IsNode
    <2>14. /\ Stands(t) /\ SourceWhole(t) /\ SavedOff(t, FinalAt)
           /\ a \in DOMAIN t /\ t[a] = node
           /\ \A p \in SourceFiles :
                Copied(tree, p) /\ Place(FinalAt, p, SrcAt) # a => Copied(t, p)
      BY <1>2, <2>6, <2>10, <2>11, <2>13, CopyGrows DEF CopyTree
    <2>15. ASSUME NEW p \in SourceFiles, Place(FinalAt, p, SrcAt) = a  PROVE p = z
      <3>1. p \in Path /\ AtOrBelow(p, SrcAt)
        BY <1>2, SourceFileIs DEF SourceFiles
      <3>2. QED
        BY <2>4, <2>6, <2>15, <3>1, PlacesApart, MvHere
    <2>16. \A p \in SourceFiles : Pending(mpc, frames, copying, p) => Pending(m, s, c, p)
      BY <1>1, <2>1, <2>2 DEF Pending
    <2>17. \A p \in SourceFiles : p = z => Pending(m, s, c, p)
      BY <2>2, <2>4 DEF Pending
    <2>18. \A p \in SourceFiles : Copied(t, p) \/ Pending(m, s, c, p)
      BY <1>2, <2>14, <2>15, <2>16, <2>17
    <2>19. Opened(t, m, c)
      BY <2>4, <2>13, <2>14 DEF Opened
    <2>20. CopyCalls(m, s, c)
      BY <1>1, <1>2, <2>2, <2>3, <2>4, <2>7 DEF CopyCalls
    <2>21. CopyState(t, m, s, c)
      BY <2>14, <2>18, <2>19, <2>20 DEF CopyState, CopyTree
    <2>22. QED
      BY <2>2, <2>21, MvCopied
  <1>5. QED
    BY <1>3, <1>4

LEMMA MvCopyDataStep ==
    ASSUME InMove, CopyData,
           NEW t, t = tree', NEW m, m = mpc', NEW s, s = frames', NEW c, c = copying'
    PROVE  MoveState(t, m, s, c)
  <1>1. mpc = "copydata" /\ s = frames
    BY DEF CopyData
  <1>2. /\ PlainMove /\ src \in Path /\ final \in Path
        /\ CopyTree(tree) /\ Stands(tree) /\ Pathwise(tree) /\ Rooted(tree)
        /\ frames \in Seq(CopyCall) /\ SameWays(prior, tree)
        /\ frames = <<>> => prior[SrcAt].kind = "file" /\ copying[1] = src
        /\ PairOf(copying) /\ SrcOf(copying[1]) \in DOMAIN prior
        /\ Opened(tree, mpc, copying)
        /\ \A p \in SourceFiles : Copied(tree, p) \/ Pending(mpc, frames, copying, p)
    BY <1>1, MvInCopy DEF CopyState, CopyCalls
  <1>3. CASE m = "died"
    <2>1. t = tree
      BY <1>3 DEF CopyData
    <2>2. QED
      BY <1>3, <2>1, MvLeaves
  <1>4. CASE m # "died"
    <2>1. PICK x, y, z, a : /\ x = copying[1] /\ y = copying[2] /\ z = SrcOf(x)
                            /\ a = Place(FinalAt, z, SrcAt)
      OBVIOUS
    <2>2. /\ t = With(tree, Follow(tree, y), File(Reads(tree, x)))
          /\ m = IF frames = <<>> THEN "unlink" ELSE "copydir"
      BY <1>4, <2>1 DEF CopyData, Die
    <2>3. /\ x \in Path /\ AtOrBelow(x, src) /\ y = Place(final, x, src)
          /\ z \in DOMAIN prior /\ prior[z].kind = "file"
      BY <1>2, <2>1 DEF PairOf
    <2>4. /\ Follow(tree, y) = a /\ a \in Path /\ AtOrBelow(a, FinalAt)
          /\ z \in Path /\ AtOrBelow(z, SrcAt)
      BY <1>2, <2>1, <2>3, MvPaths
    <2>5. Reads(tree, x) = prior[z].content
      BY <1>2, <2>1, <2>3, MvSource
    <2>6. PICK node : node = File(prior[z].content)
      OBVIOUS
    <2>7. node.kind = "file" /\ IsNode(node) /\ t = With(tree, a, node)
      BY <2>2, <2>4, <2>5, <2>6 DEF File, IsNode
    <2>8. a \in DOMAIN tree /\ tree[a].kind = "file"
      BY <1>1, <1>2, <2>1 DEF Opened
    <2>9. Grounded(tree, a)
      BY <1>2, <2>8, DirsAbove DEF Grounded, Pathwise
    <2>10. /\ Stands(t) /\ SourceWhole(t) /\ SavedOff(t, FinalAt)
           /\ a \in DOMAIN t /\ t[a] = node
           /\ \A p \in SourceFiles :
                Copied(tree, p) /\ Place(FinalAt, p, SrcAt) # a => Copied(t, p)
      BY <1>2, <2>4, <2>7, <2>8, <2>9, CopyGrows DEF CopyTree
    <2>11. ASSUME NEW p \in SourceFiles, Place(FinalAt, p, SrcAt) = a  PROVE p = z
      <3>1. p \in Path /\ AtOrBelow(p, SrcAt)
        BY <1>2, SourceFileIs DEF SourceFiles
      <3>2. QED
        BY <2>1, <2>4, <2>11, <3>1, PlacesApart, MvHere
    <2>12. ASSUME NEW p, p = z  PROVE Copied(t, p)
      BY <2>1, <2>6, <2>10, <2>12 DEF Copied
    <2>13. \A p \in SourceFiles : Copied(tree, p) => Copied(t, p)
      BY <2>10, <2>11, <2>12
    <2>14. CASE frames = <<>>
      <3>1. m = "unlink" /\ prior[SrcAt].kind = "file" /\ z = SrcAt
        BY <1>2, <2>1, <2>2, <2>14, MvHere
      <3>2. ASSUME NEW p \in SourceFiles  PROVE Copied(t, p)
        <4>1. AtOrBelow(p, SrcAt)
          BY DEF SourceFiles
        <4>2. p = SrcAt
          BY <2>4, <3>1, <4>1, SourceLeaf
        <4>3. QED
          BY <2>12, <3>1, <4>2
      <3>3. RemoveTree(t)
        BY <1>2, <2>10, <3>2, CopyOver DEF RemoveTree
      <3>4. RemoveState(t, m, s)
        BY <3>1, <3>3 DEF RemoveState
      <3>5. QED
        BY <3>1, <3>4, MvRemoved
    <2>15. CASE frames # <<>>
      <3>1. m = "copydir"
        BY <2>2, <2>15
      <3>2. \A p \in SourceFiles : Copied(tree, p) \/ Waits(frames, p) \/ p = z
        BY <1>2, <2>1, <2>15 DEF Pending
      <3>3. \A p \in SourceFiles : Copied(t, p) \/ Pending(m, s, c, p)
        BY <1>1, <2>12, <2>13, <3>2 DEF Pending
      <3>4. CopyState(t, m, s, c)
        BY <1>1, <1>2, <2>10, <2>15, <3>1, <3>3 DEF CopyState, CopyTree, CopyCalls, Opened
      <3>5. QED
        BY <3>1, <3>4, MvCopied
    <2>16. QED
      BY <2>14, <2>15
  <1>5. QED
    BY <1>3, <1>4
(* The stack of remove_dir, whose outermost call is that of the source.    *)
Removes(s) == s \in Seq(RemoveCall) /\ s # <<>> /\ s[Len(s)].path = src

LEMMA RemoveHead ==
    ASSUME NEW s, Removes(s)
    PROVE  /\ Head(s) = s[1] /\ s[1] \in RemoveCall
           /\ ~(Len(s) > 1) => s[1].path = src
           /\ Len(s) > 1 => Removes(Tail(s))
  <1>1. PICK u : u = Tail(s)
    OBVIOUS
  <1>2. /\ s \in Seq(RemoveCall) /\ s # <<>> /\ s[Len(s)].path = src
    BY DEF Removes
  <1>3. /\ Head(s) = s[1] /\ u \in Seq(RemoveCall) /\ Len(u) = Len(s) - 1 /\ Len(s) \in Nat
        /\ \A i \in 1..Len(u) : u[i] = s[i + 1]
    BY <1>1, <1>2, HeadTailProperties, LenProperties
  <1>4. Len(s) >= 1
    BY <1>2, <1>3, EmptySeq
  <1>5. s[1] \in RemoveCall
    BY <1>2, <1>3, <1>4, ElementOfSeq
  <1>6. ~(Len(s) > 1) => s[1].path = src
    BY <1>2, <1>3, <1>4
  <1>7. ASSUME Len(s) > 1  PROVE Removes(u)
    <2>1. Len(u) \in 1..Len(u) /\ Len(u) + 1 = Len(s)
      BY <1>3, <1>7
    <2>2. u[Len(u)] = s[Len(s)]
      BY <1>3, <2>1
    <2>3. u # <<>>
      BY <1>3, <2>1, EmptySeq
    <2>4. QED
      BY <1>2, <1>3, <2>2, <2>3 DEF Removes
  <1>8. QED
    BY <1>1, <1>3, <1>5, <1>6, <1>7

LEMMA RemoveHeadReplaced ==
    ASSUME NEW s, Removes(s), NEW g \in RemoveCall, g.path = s[1].path,
           NEW v, v = <<g>> \o Tail(s)
    PROVE  Removes(v)
  <1>1. s \in Seq(RemoveCall) /\ s # <<>> /\ s[Len(s)].path = src
    BY DEF Removes
  <1>2. /\ v \in Seq(RemoveCall) /\ Len(v) = Len(s) /\ v[1] = g
        /\ \A i \in 2..Len(s) : v[i] = s[i]
    BY <1>1, HeadReplaced
  <1>3. Len(s) \in Nat /\ Len(s) >= 1
    BY <1>1, LenProperties, EmptySeq
  <1>4. v # <<>>
    BY <1>2, <1>3, EmptySeq
  <1>5. v[Len(v)].path = src
    <2>1. CASE Len(s) = 1
      BY <1>1, <1>2, <2>1
    <2>2. CASE Len(s) # 1
      <3>1. Len(s) \in 2..Len(s)
        BY <1>3, <2>2
      <3>2. QED
        BY <1>1, <1>2, <3>1
    <2>3. QED
      BY <2>1, <2>2
  <1>6. QED
    BY <1>2, <1>4, <1>5 DEF Removes

LEMMA RemoveInFront ==
    ASSUME NEW s, Removes(s), NEW g \in RemoveCall, NEW v, v = <<g>> \o s
    PROVE  Removes(v)
  <1>1. s \in Seq(RemoveCall) /\ s # <<>> /\ s[Len(s)].path = src
    BY DEF Removes
  <1>2. /\ v \in Seq(RemoveCall) /\ Len(v) = Len(s) + 1
        /\ \A i \in 1..Len(s) : v[i + 1] = s[i]
    BY <1>1, InFront
  <1>3. Len(s) \in 1..Len(s) /\ Len(s) + 1 # 0
    BY <1>1, LenProperties, EmptySeq
  <1>4. v[Len(v)] = s[Len(s)]
    BY <1>2, <1>3
  <1>5. v # <<>>
    BY <1>2, <1>3, EmptySeq
  <1>6. QED
    BY <1>1, <1>2, <1>4, <1>5 DEF Removes

(* What the states of the removal of the source have in common.            *)
LEMMA MvInRemoval ==
    ASSUME InMove, mpc \in {"unlink", "rmdir"}
    PROVE  /\ PlainMove /\ src \in Path /\ final \in Path /\ RemoveTree(tree)
           /\ Stands(tree) /\ SourceLeft(tree) /\ SavedOff(tree, SrcAt)
           /\ Pathwise(tree) /\ Rooted(tree) /\ LinksLeadOff(tree)
           /\ mpc = "rmdir" => Removes(frames)
           /\ mpc = "unlink" => prior[SrcAt].kind = "file"
  <1>1. RemoveState(tree, mpc, frames)
    BY DEF InMove, MoveState
  <1>2. Stands(tree) /\ SameWays(prior, tree) /\ Pathwise(tree) /\ Rooted(tree)
    BY <1>1 DEF RemoveState, RemoveTree, Stands
  <1>3. LinksLeadOff(tree)
    BY <1>2, MvHere, SameLead
  <1>4. QED
    BY <1>1, <1>2, <1>3, MvHere DEF RemoveState, RemoveTree, Removes

(* A leaf of what is left of the source is taken.                          *)
LEMMA MvLeafTaken ==
    ASSUME InMove, mpc \in {"unlink", "rmdir"}, NEW x \in Path, AtOrBelow(x, src),
           \A p \in DOMAIN tree : ~IsStrictPrefix(SrcOf(x), p),
           NEW t, t = Without(tree, At(tree, x))
    PROVE  RemoveTree(t) /\ SrcOf(x) \notin DOMAIN t
  <1>1. /\ PlainMove /\ src \in Path /\ final \in Path /\ RemoveTree(tree)
        /\ Stands(tree) /\ SourceLeft(tree) /\ SavedOff(tree, SrcAt)
    BY MvInRemoval
  <1>2. PICK a : a = SrcOf(x)
    OBVIOUS
  <1>3. a \in Path /\ AtOrBelow(a, SrcAt) /\ At(tree, x) = a
    BY <1>1, <1>2, MvPaths
  <1>4. /\ Stands(t) /\ SourceLeft(t) /\ SavedOff(t, SrcAt) /\ a \notin DOMAIN t
        /\ \A p \in SourceFiles : Copied(tree, p) => Copied(t, p)
    BY <1>1, <1>2, <1>3, SourceShrinks
  <1>5. QED
    BY <1>1, <1>2, <1>4 DEF RemoveTree

(* The whole source is gone: the move is made.                             *)
LEMMA MvIsMade ==
    ASSUME NEW t, RemoveTree(t), SrcAt \notin DOMAIN t, NEW m, m = "moved", NEW s, NEW c
    PROVE  MoveState(t, m, s, c)
  <1>1. Kept(t) /\ Leaves(t) /\ Sound(t)
    BY StandsMeans DEF RemoveTree
  <1>2. Arrived(t)
    BY CopyArrives DEF RemoveTree
  <1>3. QED
    BY <1>1, <1>2 DEF MoveState

LEMMA MvUnlinkStep ==
    ASSUME InMove, UnlinkSource,
           NEW t, t = tree', NEW m, m = mpc', NEW s, s = frames', NEW c, c = copying'
    PROVE  MoveState(t, m, s, c)
  <1>1. mpc = "unlink"
    BY DEF UnlinkSource
  <1>2. /\ PlainMove /\ src \in Path /\ SourceLeft(tree) /\ Pathwise(tree) /\ Rooted(tree)
        /\ prior[SrcAt].kind = "file" /\ AtOrBelow(src, src) /\ SrcOf(src) = SrcAt
        /\ SrcAt \in Path /\ AtOrBelow(SrcAt, SrcAt)
    BY <1>1, MvInRemoval, MvHere
  <1>3. CASE m = "died"
    <2>1. t = tree
      BY <1>3 DEF UnlinkSource
    <2>2. QED
      BY <1>3, <2>1, MvLeaves
  <1>4. CASE m # "died"
    <2>1. t = Without(tree, At(tree, src)) /\ m = "moved"
      BY <1>4 DEF UnlinkSource, Die
    <2>2. SrcAt \in DOMAIN tree => tree[SrcAt].kind # "dir"
      BY <1>2 DEF SourceLeft
    <2>3. \A p \in DOMAIN tree : ~IsStrictPrefix(SrcOf(src), p)
      BY <1>2, <2>2, LeafIs
    <2>4. RemoveTree(t) /\ SrcOf(src) \notin DOMAIN t
      BY <1>1, <1>2, <2>1, <2>3, MvLeafTaken
    <2>5. QED
      BY <1>2, <2>1, <2>4, MvIsMade
  <1>5. QED
    BY <1>3, <1>4

LEMMA MvRemoveEnterStep ==
    ASSUME InMove, RemoveDirEnter,
           NEW t, t = tree', NEW m, m = mpc', NEW s, s = frames', NEW c, c = copying'
    PROVE  MoveState(t, m, s, c)
  <1>1. mpc = "rmdir" /\ t = tree
    BY DEF RemoveDirEnter
  <1>2. RemoveTree(tree) /\ Pathwise(tree) /\ Removes(frames)
    BY <1>1, MvInRemoval
  <1>3. CASE m = "died"
    BY <1>1, <1>3, MvLeaves
  <1>4. CASE m # "died"
    <2>1. PICK f : f = frames[1]
      OBVIOUS
    <2>2. Head(frames) = f /\ f \in RemoveCall
      BY <1>2, <2>1, RemoveHead
    <2>3. PICK l, g : l = Listed(tree, f.path) /\ g = [f EXCEPT !.in = TRUE, !.left = l]
      OBVIOUS
    <2>4. m = "rmdir" /\ s = <<g>> \o Tail(frames)
      BY <1>1, <1>4, <2>2, <2>3 DEF RemoveDirEnter, Die
    <2>5. l \subseteq Name
      BY <1>2, <2>3, NamesListed DEF Pathwise
    <2>6. g \in RemoveCall /\ g.path = f.path
      BY <2>2, <2>3, <2>5 DEF RemoveCall
    <2>7. Removes(s)
      BY <1>2, <2>1, <2>4, <2>6, RemoveHeadReplaced
    <2>8. RemoveState(t, m, s)
      BY <1>1, <1>2, <2>4, <2>7 DEF RemoveState, Removes
    <2>9. QED
      BY <2>4, <2>8, MvRemoved
  <1>5. QED
    BY <1>3, <1>4

LEMMA MvRemoveEntryStep ==
    ASSUME InMove, RemoveEntry,
           NEW t, t = tree', NEW m, m = mpc', NEW s, s = frames', NEW c, c = copying'
    PROVE  MoveState(t, m, s, c)
  <1>1. mpc = "rmdir"
    BY DEF RemoveEntry
  <1>2. /\ RemoveTree(tree) /\ Stands(tree) /\ Pathwise(tree) /\ Rooted(tree) /\ Removes(frames)
        /\ src \in Path
    BY <1>1, MvInRemoval
  <1>3. PICK f : f = frames[1]
    OBVIOUS
  <1>4. Head(frames) = f /\ f \in RemoveCall
    BY <1>2, <1>3, RemoveHead
  <1>5. PICK name \in f.left :
           LET child == Append(f.path, name)
               after == <<[f EXCEPT !.left = @ \ {name}]>> \o Tail(frames)
           IN  IF IsDir(tree, child)
               THEN /\ s = <<[path |-> child, left |-> {}, in |-> FALSE]>> \o after
                    /\ t = tree /\ m = mpc
               ELSE \/ t = Without(tree, At(tree, child)) /\ s = after /\ m = mpc
                    \/ m = "died" /\ t = tree
    BY <1>4 DEF RemoveEntry, Die
  <1>6. PICK x : x = Append(f.path, name)
    OBVIOUS
  <1>7. f.path \in Path /\ AtOrBelow(f.path, src) /\ name \in Name
    BY <1>4, <1>5 DEF RemoveCall
  <1>8. x \in Path /\ AtOrBelow(x, src)
    BY <1>2, <1>6, <1>7, MvPaths
  <1>9. PICK g, after : /\ g = [f EXCEPT !.left = @ \ {name}]
                        /\ after = <<g>> \o Tail(frames)
    OBVIOUS
  <1>10. g \in RemoveCall /\ g.path = f.path
    BY <1>4, <1>9 DEF RemoveCall
  <1>11. Removes(after)
    BY <1>2, <1>3, <1>9, <1>10, RemoveHeadReplaced
  <1>12. CASE IsDir(tree, x)
    <2>1. PICK h : h = [path |-> x, left |-> {}, in |-> FALSE]
      OBVIOUS
    <2>2. s = <<h>> \o after /\ t = tree /\ m = "rmdir"
      BY <1>1, <1>5, <1>6, <1>9, <1>12, <2>1
    <2>3. h \in RemoveCall
      BY <1>8, <2>1 DEF RemoveCall
    <2>4. Removes(s)
      BY <1>11, <2>2, <2>3, RemoveInFront
    <2>5. RemoveState(t, m, s)
      BY <1>2, <2>2, <2>4 DEF RemoveState, Removes
    <2>6. QED
      BY <2>2, <2>5, MvRemoved
  <1>13. CASE ~IsDir(tree, x) /\ m = "died"
    <2>1. t = tree
      BY <1>1, <1>5, <1>6, <1>13
    <2>2. QED
      BY <1>13, <2>1, MvLeaves
  <1>14. CASE ~IsDir(tree, x) /\ m # "died"
    <2>1. t = Without(tree, At(tree, x)) /\ s = after /\ m = "rmdir"
      BY <1>1, <1>5, <1>6, <1>9, <1>14
    <2>2. PICK z : z = SrcOf(x)
      OBVIOUS
    <2>3. z \in Path /\ Follow(tree, x) = z
      BY <1>2, <1>8, <2>2, MvPaths
    <2>4. z \in DOMAIN tree => tree[z].kind # "dir"
      BY <1>14, <2>3 DEF IsDir, Exists
    <2>5. \A p \in DOMAIN tree : ~IsStrictPrefix(SrcOf(x), p)
      BY <1>2, <2>2, <2>3, <2>4, LeafIs
    <2>6. RemoveTree(t)
      BY <1>1, <1>8, <2>1, <2>5, MvLeafTaken
    <2>7. RemoveState(t, m, s)
      BY <1>11, <2>1, <2>6 DEF RemoveState, Removes
    <2>8. QED
      BY <2>1, <2>7, MvRemoved
  <1>15. QED
    BY <1>12, <1>13, <1>14

LEMMA MvRemoveLeaveStep ==
    ASSUME InMove, RemoveDirLeave,
           NEW t, t = tree', NEW m, m = mpc', NEW s, s = frames', NEW c, c = copying'
    PROVE  MoveState(t, m, s, c)
  <1>1. mpc = "rmdir"
    BY DEF RemoveDirLeave
  <1>2. /\ RemoveTree(tree) /\ Stands(tree) /\ Pathwise(tree) /\ Rooted(tree) /\ Removes(frames)
        /\ src \in Path /\ SrcOf(src) = SrcAt
    BY <1>1, MvInRemoval, MvHere
  <1>3. PICK x : x = frames[1].path
    OBVIOUS
  <1>4. /\ Head(frames).path = x /\ x \in Path /\ AtOrBelow(x, src)
        /\ ~(Len(frames) > 1) => x = src
        /\ Len(frames) > 1 => Removes(Tail(frames))
    BY <1>2, <1>3, RemoveHead DEF RemoveCall
  <1>5. CASE m = "died"
    <2>1. t = tree
      BY <1>5 DEF RemoveDirLeave
    <2>2. QED
      BY <1>5, <2>1, MvLeaves
  <1>6. CASE m # "died"
    <2>1. /\ CanRmdir(tree, x) /\ t = Without(tree, At(tree, x)) /\ s = Tail(frames)
          /\ m = IF Len(frames) > 1 THEN "rmdir" ELSE "moved"
      BY <1>4, <1>6 DEF RemoveDirLeave, Die
    <2>2. PICK z : z = SrcOf(x)
      OBVIOUS
    <2>3. z \in Path /\ At(tree, x) = z
      BY <1>2, <1>4, <2>2, MvPaths
    <2>4. z \in DOMAIN tree /\ tree[z].kind = "dir" /\ Listed(tree, z) = {}
      BY <2>1, <2>3 DEF CanRmdir
    <2>5. \A p \in DOMAIN tree : ~IsStrictPrefix(SrcOf(x), p)
      BY <1>2, <2>2, <2>4, NothingListed
    <2>6. RemoveTree(t) /\ SrcOf(x) \notin DOMAIN t
      BY <1>1, <1>4, <2>1, <2>5, MvLeafTaken
    <2>7. CASE Len(frames) > 1
      <3>1. m = "rmdir" /\ Removes(s)
        BY <1>4, <2>1, <2>7
      <3>2. RemoveState(t, m, s)
        BY <2>6, <3>1 DEF RemoveState, Removes
      <3>3. QED
        BY <3>1, <3>2, MvRemoved
    <2>8. CASE ~(Len(frames) > 1)
      <3>1. m = "moved" /\ SrcAt \notin DOMAIN t
        BY <1>2, <1>4, <2>1, <2>6, <2>8
      <3>2. QED
        BY <2>6, <3>1, MvIsMade
    <2>9. QED
      BY <2>7, <2>8
  <1>7. QED
    BY <1>5, <1>6
(* The next source: the move of it begins on the tree as it is.            *)
LEMMA MvOperandsStep ==
    ASSUME MvInv, Operands
    PROVE  MvInv'
  <1>1. /\ mpc = "start" /\ cmd.operands \in Seq(Path)
        /\ UNCHANGED <<tree, cmd, src, final, frames, copying, prior>>
    BY MvCommandsAssumption DEF Operands, MvInv, MvArgs
  <1>2. PICK ops : ops = cmd.operands
    OBVIOUS
  <1>3. /\ mpc' \in {"died", "next"} /\ sources' \in Seq(Path)
        /\ mpc' = "next" => dest' \in Path
    <2>1. CASE mpc' = "died" /\ UNCHANGED <<sources, dest>>
      BY <2>1 DEF MvInv, MvArgs
    <2>2. CASE ~(mpc' = "died" /\ UNCHANGED <<sources, dest>>)
      <3>1. PICK to, from : /\ to = (IF cmd.target THEN Head(ops) ELSE Last(ops))
                            /\ from = (IF cmd.target THEN Tail(ops) ELSE Front(ops))
        OBVIOUS
      <3>2. /\ ~(Len(ops) < 2) /\ ~(cmd.exchange /\ Len(from) # 1)
            /\ mpc' = "next"
            /\ sources' = (IF cmd.exchange THEN <<to>> ELSE from)
            /\ dest' = (IF cmd.exchange THEN from[1] ELSE to)
        BY <1>2, <2>2, <3>1 DEF Operands, Die
      <3>3. ops \in Seq(Path) /\ Len(ops) \in Nat /\ Len(ops) >= 2 /\ ops # <<>>
        BY <1>1, <1>2, <3>2, LenProperties, EmptySeq
      <3>4. Head(ops) \in Path /\ Tail(ops) \in Seq(Path)
        BY <3>3, HeadTailProperties
      <3>5. Last(ops) \in Path
        BY <3>3, ElementOfSeq DEF Last
      <3>6. Front(ops) \in Seq(Path)
        <4>1. 1 <= 1 /\ Len(ops) - 1 <= Len(ops) /\ Len(ops) - 1 \in Nat
          BY <3>3
        <4>2. SubSeq(ops, 1, Len(ops) - 1) \in Seq(Path)
          BY <3>3, <4>1, SubSeqProperties
        <4>3. QED
          BY <4>2 DEF Front
      <3>7. to \in Path /\ from \in Seq(Path)
        BY <3>1, <3>4, <3>5, <3>6
      <3>8. Len(from) = 1 => from[1] \in Path
        BY <3>7, ElementOfSeq
      <3>9. <<to>> \in Seq(Path)
        BY <3>7
      <3>10. QED
        BY <3>2, <3>7, <3>8, <3>9
    <2>3. QED
      BY <2>1, <2>2
  <1>4. src = <<>> \/ src # <<>>
    OBVIOUS
  <1>5. MvArgs'
    BY <1>1, <1>3 DEF MvInv, MvArgs, Exists
  <1>6. ASSUME src # <<>>, PlainMove  PROVE MoveState(tree, mpc, frames, copying)'
    <2>1. InMove
      BY <1>6 DEF MvInv, InMove
    <2>2. PICK t, m, s, c : t = tree' /\ m = mpc' /\ s = frames' /\ c = copying'
      OBVIOUS
    <2>3. MoveState(t, m, s, c)
      BY <1>1, <1>3, <2>1, <2>2, MvLeaves
    <2>4. MoveState(t, m, s, c)' = MoveState(t, m, s, c)
      BY <1>1, MvSame
    <2>5. MoveState(t, m, s, c)'
      BY <2>3, <2>4
    <2>6. QED
      BY <2>2, <2>5
  <1>7. PlainMove' = PlainMove
    BY <1>1, MvSame
  <1>8. QED
    BY <1>1, <1>5, <1>6, <1>7 DEF MvInv

(* Before anything is moved all is as it was.                              *)
LEMMA MvAtFirst ==
    ASSUME IsTree(prior), NEW t, t = prior, NEW s, NEW c
    PROVE  MoveState(t, "decide", s, c)
  <1>1. Pathwise(t) /\ Rooted(t)
    BY TreeIs
  <1>2. SameWays(prior, t) /\ Nodes(t)
    BY DEF SameWays, Nodes, IsTree
  <1>3. Kept(t)
    BY DEF Kept, Spared, Contents
  <1>4. Leaves(t)
    BY DEF Leaves
  <1>5. QED
    BY <1>1, <1>2, <1>3, <1>4 DEF MoveState, Sound

LEMMA MvSoundAtFirst == IsTree(prior) => Kept(prior) /\ Leaves(prior) /\ Sound(prior)
  <1>1. ASSUME IsTree(prior)  PROVE Kept(prior) /\ Leaves(prior) /\ Sound(prior)
    <2>1. PICK t : t = prior
      OBVIOUS
    <2>2. MoveState(t, "decide", t, t)
      BY <1>1, <2>1, MvAtFirst
    <2>3. QED
      BY <2>1, <2>2 DEF MoveState
  <1>2. QED
    BY <1>1

LEMMA MvNextSourceStep ==
    ASSUME MvInv, NextSource
    PROVE  MvInv'
  <1>1. /\ mpc = "next" /\ sources # <<>> /\ sources \in Seq(Path) /\ dest \in Path
        /\ UNCHANGED <<tree, cmd, dest, frames, copying>>
    BY DEF NextSource, MvInv, MvArgs
  <1>2. Head(sources) \in Path /\ Tail(sources) \in Seq(Path)
    BY <1>1, HeadTailProperties
  <1>3. CASE ~Exists(tree, Head(sources))
    <2>1. mpc' = "died" /\ UNCHANGED <<sources, src, final, prior>>
      BY <1>3 DEF NextSource, Die
    <2>2. MvKeep
      BY <1>1, <2>1 DEF MvKeep
    <2>3. MvArgs'
      BY <1>1, <2>1 DEF MvInv, MvArgs, Exists
    <2>4. ASSUME src # <<>>, PlainMove  PROVE MoveState(tree, mpc, frames, copying)'
      <3>1. PICK t, m, s, c : t = tree' /\ m = mpc' /\ s = frames' /\ c = copying'
        OBVIOUS
      <3>2. MoveState(t, m, s, c)
        BY <1>1, <2>1, <2>4, <3>1, MvLeaves DEF MvInv, InMove
      <3>3. MoveState(t, m, s, c)' = MoveState(t, m, s, c)
        BY <1>1, <2>1, MvSame
      <3>4. MoveState(t, m, s, c)'
        BY <3>2, <3>3
      <3>5. QED
        BY <3>1, <3>4
    <2>5. PlainMove' = PlainMove
      BY <1>1, <2>1, MvSame
    <2>6. QED
      BY <2>1, <2>3, <2>4, <2>5 DEF MvInv
  <1>4. CASE Exists(tree, Head(sources))
    <2>1. PICK x : x = Head(sources)
      OBVIOUS
    <2>2. /\ mpc' = "decide" /\ sources' = Tail(sources) /\ src' = x /\ prior' = tree
          /\ final' = (IF ~cmd.noTarget /\ IsDir(tree, dest) THEN Append(dest, Last(x))
                       ELSE dest)
      BY <1>4, <2>1 DEF NextSource
    <2>3. x \in Path /\ x # <<>>
      BY <1>2, <2>1, PathIs
    <2>4. Last(x) \in Name
      <3>1. x \in Seq(Name) /\ Len(x) >= 1 /\ Len(x) \in Nat
        BY <2>3, PathIs, LenProperties
      <3>2. QED
        BY <3>1, ElementOfSeq DEF Last
    <2>5. Append(dest, Last(x)) \in Path
      <3>1. PICK n \in Name : n = Last(x)
        BY <2>4
      <3>2. dest \in Seq(Name)
        BY <1>1, PathIs
      <3>3. QED
        BY <3>1, <3>2, Appended
    <2>6. final' \in Path
      BY <1>1, <2>2, <2>5
    <2>7. Exists(prior', src')
      BY <1>4, <2>1, <2>2
    <2>8. MvArgs'
      BY <1>1, <1>2, <2>2, <2>3, <2>6, <2>7 DEF MvInv, MvArgs
    <2>9. PlainMove' => MoveState(tree, mpc, frames, copying)'
      <3>1. ASSUME IsTree(prior)'  PROVE MoveState(tree, mpc, frames, copying)'
        <4>1. (IsTree(prior) => Kept(prior) /\ Leaves(prior) /\ Sound(prior))'
          BY MvSoundAtFirst, PTL
        <4>2. tree' = prior'
          BY <1>1, <2>2
        <4>3. Kept(tree)' /\ Leaves(tree)' /\ Sound(tree)'
          BY <3>1, <4>1, <4>2 DEF Kept, Leaves, Sound, Nodes
        <4>4. QED
          BY <2>2, <4>2, <4>3 DEF MoveState
      <3>2. QED
        BY <3>1 DEF PlainMove
    <2>10. QED
      BY <2>8, <2>9 DEF MvInv
  <1>5. QED
    BY <1>3, <1>4
(* A run of mv, from its first state through each of its steps.            *)
LEMMA MvBegins ==
    ASSUME NEW cc \in MvCommands, MvInit(cc)
    PROVE  MvInv
  <1>1. cmd = cc /\ mpc = "start" /\ sources = <<>> /\ src = <<>>
    BY DEF MvInit
  <1>2. sources \in Seq(Path)
    BY <1>1, EmptySeq
  <1>3. QED
    BY <1>1, <1>2 DEF MvInv, MvArgs

LEMMA MvKeepsStep ==
    ASSUME MvInv, MvNext, ~Operands, ~NextSource
    PROVE  MvInv' /\ MvKeep
  <1>1. MvKeep
    BY DEF MvNext, MvExit, Decide, PromptOverride, CreateBackup, TryRename, Moved, CopyDirEnter,
       CopyEntry, CopyDirLeave, CopyOpen, CopyData, UnlinkSource, RemoveDirEnter, RemoveEntry,
       RemoveDirLeave
  <1>2. /\ mpc \notin {"start", "died", "exit0"} /\ mpc' # "start"
        /\ mpc = "next" => mpc' = "exit0"
    BY DEF MvNext, MvExit, Decide, PromptOverride, CreateBackup, TryRename, Moved, CopyDirEnter,
       CopyEntry, CopyDirLeave, CopyOpen, CopyData, UnlinkSource, RemoveDirEnter, RemoveEntry,
       RemoveDirLeave, Die
  <1>3. PICK t, m, s, c : t = tree' /\ m = mpc' /\ s = frames' /\ c = copying'
    OBVIOUS
  <1>4. ASSUME InMove  PROVE MoveState(t, m, s, c)
    <2>1. CASE MvExit \/ Moved
      <3>1. t = tree /\ m \in {"next", "exit0"}
        BY <1>3, <2>1 DEF MvExit, Moved
      <3>2. QED
        BY <1>4, <3>1, MvLeaves
    <2>2. CASE Decide \/ PromptOverride
      <3>1. t = tree
        BY <1>3, <2>2 DEF Decide, PromptOverride
      <3>2. QED
        BY <1>3, <1>4, <2>2, <3>1, MvDecideStep
    <2>3. CASE CreateBackup
      BY <1>3, <1>4, <2>3, MvBackupStep
    <2>4. CASE TryRename
      BY <1>3, <1>4, <2>4, MvRenameStep
    <2>5. CASE CopyDirEnter
      BY <1>3, <1>4, <2>5, MvCopyDirEnterStep
    <2>6. CASE CopyEntry
      BY <1>3, <1>4, <2>6, MvCopyEntryStep
    <2>7. CASE CopyDirLeave
      BY <1>3, <1>4, <2>7, MvCopyDirLeaveStep
    <2>8. CASE CopyOpen
      BY <1>3, <1>4, <2>8, MvCopyOpenStep
    <2>9. CASE CopyData
      BY <1>3, <1>4, <2>9, MvCopyDataStep
    <2>10. CASE UnlinkSource
      BY <1>3, <1>4, <2>10, MvUnlinkStep
    <2>11. CASE RemoveDirEnter
      BY <1>3, <1>4, <2>11, MvRemoveEnterStep
    <2>12. CASE RemoveEntry
      BY <1>3, <1>4, <2>12, MvRemoveEntryStep
    <2>13. CASE RemoveDirLeave
      BY <1>3, <1>4, <2>13, MvRemoveLeaveStep
    <2>14. QED
      BY <2>1, <2>2, <2>3, <2>4, <2>5, <2>6, <2>7, <2>8, <2>9, <2>10, <2>11, <2>12, <2>13
      DEF MvNext
  <1>5. MvInv'
    BY <1>1, <1>2, <1>3, <1>4, MvGoesOn
  <1>6. QED
    BY <1>1, <1>5

LEMMA MvSteps ==
    ASSUME MvInv, MvNext \/ (UNCHANGED mvVars /\ UNCHANGED tree)
    PROVE  MvInv'
  <1>1. CASE MvNext
    BY <1>1, MvOperandsStep, MvNextSourceStep, MvKeepsStep
  <1>2. CASE UNCHANGED mvVars /\ UNCHANGED tree
    <2>1. UNCHANGED <<cmd, mpc, sources, dest, src, final, frames, copying, prior, tree>>
      BY <1>2 DEF mvVars
    <2>2. MvArgs'
      BY <2>1 DEF MvInv, MvArgs, Exists
    <2>3. PlainMove' = PlainMove
      BY <2>1, MvSame
    <2>4. ASSUME src # <<>>, PlainMove  PROVE MoveState(tree, mpc, frames, copying)'
      <3>1. PICK t, m, s, c : t = tree /\ m = mpc /\ s = frames /\ c = copying
        OBVIOUS
      <3>2. MoveState(t, m, s, c)
        BY <2>4, <3>1 DEF MvInv
      <3>3. MoveState(t, m, s, c)'
        BY <2>1, <3>2, MvSame
      <3>4. t = tree' /\ m = mpc' /\ s = frames' /\ c = copying'
        BY <2>1, <3>1
      <3>5. QED
        BY <3>3, <3>4
    <2>5. QED
      BY <2>1, <2>2, <2>3, <2>4 DEF MvInv
  <1>3. QED
    BY <1>1, <1>2

(* What the invariant says of the files.                                   *)
LEMMA MvMeans ==
    ASSUME MvInv, src # <<>> => PlainMove
    PROVE  NothingLost /\ MovedWhole /\ (src # <<>> => Leaves(tree))
  <1>1. CASE src = <<>>
    BY <1>1 DEF MvInv, MvArgs, NothingLost, MovedWhole
  <1>2. CASE src # <<>>
    <2>1. /\ MoveState(tree, mpc, frames, copying) /\ src \in Path /\ final \in Path
          /\ PlainMove
      BY <1>2 DEF MvInv, MvArgs
    <2>2. Kept(tree) /\ Leaves(tree)
      BY <2>1 DEF MoveState
    <2>3. NothingLost
      BY <2>2 DEF Kept, Spared, NothingLost
    <2>4. MovedWhole
      <3>1. CASE mpc = "moved"
        <4>1. Arrived(tree)
          BY <2>1, <3>1 DEF MoveState
        <4>2. QED
          BY <2>1, <4>1, ArrivedMeans
      <3>2. CASE mpc # "moved"
        BY <3>2 DEF MovedWhole
      <3>3. QED
        BY <3>1, <3>2
    <2>5. QED
      BY <2>2, <2>3, <2>4
  <1>3. QED
    BY <1>1, <1>2

(* Where there is no link there never is one, and every move is plain.     *)
Linkless(t) == IsTree(t) /\ \A p \in DOMAIN t : t[p].kind # "link"
MvLinkless == Linkless(tree) /\ (src # <<>> => Linkless(prior))

LEMMA LinklessIsPlain == Linkless(prior) => PlainMove
  BY DEF Linkless, PlainMove, LinksIn

LEMMA LinklessStays ==
    ASSUME Linkless(prior), NEW t, Sound(t)
    PROVE  Linkless(t)
  <1>1. \A p \in DOMAIN t : t[p].kind # "link"
    BY DEF Sound, SameWays, Linkless
  <1>2. LinksLeadOff(t)
    BY <1>1 DEF LinksLeadOff
  <1>3. QED
    BY <1>1, <1>2 DEF Sound, Linkless, IsTree, Pathwise, Nodes

LEMMA MvLinklessAfter ==
    MvInv /\ src # <<>> /\ Linkless(prior) => Linkless(tree)
  <1>1. ASSUME MvInv, src # <<>>, Linkless(prior)  PROVE Linkless(tree)
    <2>1. Sound(tree)
      BY <1>1, LinklessIsPlain DEF MvInv, MoveState
    <2>2. PICK t : t = tree
      OBVIOUS
    <2>3. Sound(t)
      BY <2>1, <2>2 DEF Sound, Nodes
    <2>4. Linkless(t)
      BY <1>1, <2>3, LinklessStays
    <2>5. QED
      BY <2>2, <2>4
  <1>2. QED
    BY <1>1

LEMMA MvLinklessStep ==
    ASSUME MvInv, MvLinkless, MvNext \/ (UNCHANGED mvVars /\ UNCHANGED tree)
    PROVE  MvLinkless'
  <1>1. MvInv'
    BY MvSteps
  <1>2. (MvInv /\ src # <<>> /\ Linkless(prior) => Linkless(tree))'
    BY MvLinklessAfter, PTL
  <1>3. CASE UNCHANGED <<tree, src, prior>>
    BY <1>3 DEF MvLinkless, Linkless
  <1>4. CASE Operands \/ NextSource
    <2>1. UNCHANGED tree /\ (UNCHANGED <<src, prior>> \/ prior' = tree)
      BY <1>4 DEF Operands, NextSource
    <2>2. QED
      BY <2>1 DEF MvLinkless, Linkless
  <1>5. CASE MvNext /\ ~Operands /\ ~NextSource
    <2>1. MvKeep
      BY <1>5, MvKeepsStep
    <2>2. UNCHANGED <<src, prior>>
      BY <2>1 DEF MvKeep
    <2>3. CASE src = <<>>
      <3>1. MvExit
        BY <1>5, <2>3 DEF MvInv, MvArgs, MvNext, Decide, PromptOverride, CreateBackup, TryRename,
           Moved, CopyDirEnter, CopyEntry, CopyDirLeave, CopyOpen, CopyData, UnlinkSource,
           RemoveDirEnter, RemoveEntry, RemoveDirLeave
      <3>2. UNCHANGED tree
        BY <3>1 DEF MvExit
      <3>3. QED
        BY <2>2, <3>2 DEF MvLinkless, Linkless
    <2>4. CASE src # <<>>
      <3>1. Linkless(prior)'
        BY <2>2, <2>4 DEF MvLinkless, Linkless
      <3>2. Linkless(tree)'
        BY <1>1, <1>2, <2>2, <2>4, <3>1
      <3>3. QED
        BY <3>1, <3>2 DEF MvLinkless
    <2>5. QED
      BY <2>3, <2>4
  <1>6. QED
    BY <1>3, <1>4, <1>5 DEF mvVars

-----------------------------------------------------------------------------
(* The tools together: the one that runs has its invariant, and what is    *)
(* mv's stays as it began while another runs.                              *)

ToolsInv ==
    /\ tool \in {"mv", "rm", "maker"}
    /\ tool = "mv" => MvInv
    /\ tool = "rm" => RmInv
    /\ tool = "maker" => MkInv
    /\ tool # "mv" => src = <<>> /\ mpc = "start"

LEMMA ToolsBegin == Init => ToolsInv
  <1>1. CASE tool = "mv" /\ \E cc \in MvCommands : MvInit(cc)
    BY <1>1, MvBegins DEF ToolsInv
  <1>2. ASSUME Init, tool = "rm", MvIdle, \E cc \in RmCommands : RmInit(cc.options, cc.operands)
        PROVE  ToolsInv
    <2>1. src = <<>> /\ mpc = "start" /\ tree \in Trees
      BY <1>2 DEF MvIdle, MvInit, Init
    <2>2. RmInv
      BY <1>2, <2>1, RmBegins
    <2>3. QED
      BY <1>2, <2>1, <2>2 DEF ToolsInv
  <1>3. ASSUME Init, tool = "maker", MvIdle, \E cc \in MakerCommands : MakerInit(cc)
        PROVE  ToolsInv
    <2>1. src = <<>> /\ mpc = "start" /\ tree \in Trees
      BY <1>3 DEF MvIdle, MvInit, Init
    <2>2. MkInv
      BY <1>3, <2>1, MkBegins
    <2>3. QED
      BY <1>3, <2>1, <2>2 DEF ToolsInv
  <1>4. QED
    BY <1>1, <1>2, <1>3 DEF Init

LEMMA ToolsStep == ToolsInv /\ [Next]_vars => ToolsInv'
  <1> SUFFICES ASSUME ToolsInv, [Next]_vars  PROVE ToolsInv'
    OBVIOUS
  <1>1. CASE tool = "mv" /\ MvNext /\ UNCHANGED tool
    BY <1>1, MvSteps DEF ToolsInv
  <1>2. CASE tool = "rm" /\ RmNext /\ UNCHANGED <<mvVars, tool>>
    BY <1>2, RmSteps DEF ToolsInv, mvVars
  <1>3. CASE tool = "maker" /\ MakerNext /\ UNCHANGED <<mvVars, tool>>
    BY <1>3, MkSteps DEF ToolsInv, mvVars
  <1>4. CASE UNCHANGED vars
    <2>1. /\ UNCHANGED mvVars /\ UNCHANGED rmVars /\ UNCHANGED makerVars
          /\ UNCHANGED tree /\ UNCHANGED tool /\ UNCHANGED src /\ UNCHANGED mpc
      BY <1>4 DEF vars, mvVars
    <2>2. tool = "mv" => MvInv'
      BY <2>1, MvSteps DEF ToolsInv
    <2>3. tool = "rm" => RmInv'
      BY <2>1, RmSteps DEF ToolsInv
    <2>4. tool = "maker" => MkInv'
      BY <2>1, MkSteps DEF ToolsInv
    <2>5. QED
      BY <2>1, <2>2, <2>3, <2>4 DEF ToolsInv
  <1>5. QED
    BY <1>1, <1>2, <1>3, <1>4 DEF Next

LEMMA ToolsAlways == Spec => []ToolsInv
  BY ToolsBegin, ToolsStep, PTL DEF Spec

LEMMA ToolsMean ==
    ToolsInv => /\ StatusIsTrue
                /\ (src # <<>> => PlainMove) => NothingLost /\ MovedWhole /\ OnlyNamed
  <1> SUFFICES ASSUME ToolsInv
               PROVE  /\ StatusIsTrue
                      /\ (src # <<>> => PlainMove) => NothingLost /\ MovedWhole /\ OnlyNamed
    OBVIOUS
  <1>1. tool = "rm" => RmLeaves /\ RmTells
    BY RmMeans DEF ToolsInv
  <1>2. tool = "maker" => MkLeaves /\ (kpc = "exit" /\ retVal = 0 => MakerDid)
    BY MkLeft, MkMeans DEF ToolsInv
  <1>3. StatusIsTrue
    BY <1>1, <1>2 DEF StatusIsTrue, RmTells
  <1>4. ASSUME src # <<>> => PlainMove
        PROVE  NothingLost /\ MovedWhole /\ (src # <<>> => Leaves(tree))
    <2>1. CASE tool = "mv"
      BY <1>4, <2>1, MvMeans DEF ToolsInv
    <2>2. CASE tool # "mv"
      BY <2>2 DEF ToolsInv, NothingLost, MovedWhole
    <2>3. QED
      BY <2>1, <2>2
  <1>5. ASSUME src # <<>> => Leaves(tree)  PROVE OnlyNamed
    BY <1>1, <1>2, <1>5 DEF OnlyNamed, Leaves, RmLeaves, MkLeaves
  <1>6. QED
    BY <1>3, <1>4, <1>5

(* rm without -f returns 0 only when what was named is gone or refused,    *)
(* mkdir, truncate, mkfifo, link and unlink only when every operand was    *)
(* seen to.                                                                *)
THEOREM RmAndMakersTellTheTruth == Spec => []StatusIsTrue
  BY ToolsAlways, ToolsMean, PTL

(* At every step of a plain move, of one cut short too, each content there *)
(* was that mv was not told to replace is whole in some file.              *)
THEOREM PlainMovesLoseNothing == Spec => []((src # <<>> => PlainMove) => NothingLost)
  BY ToolsAlways, ToolsMean, PTL

(* When move_single returns from a plain move, every file of the source    *)
(* reads the same below the destination, and the source has gone.          *)
THEOREM PlainMovesMoveAll == Spec => []((src # <<>> => PlainMove) => MovedWhole)
  BY ToolsAlways, ToolsMean, PTL

(* A plain move changes nothing but source, destination and backup; rm     *)
(* nothing but what is at or below an operand and was not refused; the     *)
(* other commands nothing that was there but what truncate and unlink are  *)
(* told of.                                                                *)
THEOREM OnlyTheNamedChange == Spec => []((src # <<>> => PlainMove) => OnlyNamed)
  BY ToolsAlways, ToolsMean, PTL

(* Where there is no link none is ever made, so every move is plain.       *)
LinklessInv == ToolsInv /\ (tool = "mv" => MvLinkless)

(* On trees without links all three hold of every run, of a move of many   *)
(* sources too.                                                            *)
THEOREM WithoutLinksAllHold ==
    ASSUME \A t \in Trees : Linkless(t)
    PROVE  Spec => [](NothingLost /\ MovedWhole /\ OnlyNamed)
  <1>1. Init => LinklessInv
    <2>1. ASSUME Init, tool = "mv"  PROVE MvLinkless
      BY <2>1 DEF Init, MvInit, MvLinkless
    <2>2. QED
      BY <2>1, ToolsBegin DEF LinklessInv
  <1>2. LinklessInv /\ [Next]_vars => LinklessInv'
    <2>1. ASSUME LinklessInv, [Next]_vars  PROVE LinklessInv'
      <3>1. ToolsInv'
        BY <2>1, ToolsStep DEF LinklessInv
      <3>2. UNCHANGED tool
        BY <2>1 DEF Next, vars
      <3>3. ASSUME tool = "mv"  PROVE MvLinkless'
        <4>1. MvNext \/ (UNCHANGED mvVars /\ UNCHANGED tree)
          BY <2>1, <3>3 DEF Next, vars
        <4>2. MvInv /\ MvLinkless
          BY <2>1, <3>3 DEF LinklessInv, ToolsInv
        <4>3. QED
          BY <4>1, <4>2, MvLinklessStep
      <3>4. QED
        BY <3>1, <3>2, <3>3 DEF LinklessInv
    <2>2. QED
      BY <2>1
  <1>3. LinklessInv => NothingLost /\ MovedWhole /\ OnlyNamed
    <2>1. ASSUME LinklessInv  PROVE src # <<>> => PlainMove
      BY <2>1, LinklessIsPlain DEF LinklessInv, ToolsInv, MvLinkless
    <2>2. QED
      BY <2>1, ToolsMean DEF LinklessInv
  <1>4. QED
    BY <1>1, <1>2, <1>3, PTL DEF Spec

=============================================================================
