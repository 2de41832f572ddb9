------------------------------- MODULE KExpr -------------------------------
(***************************************************************************)
(* The dependency expressions of the configurator (kconfig/expr.c): how    *)
(* they are built, compared, simplified and evaluated.                     *)
(*                                                                         *)
(* An expression is a value; the code rewrites trees in place through      *)
(* pointers to pointers, which a rewriting operator here models by a tree  *)
(* and the paths of two of its places.  The argument ty gives the type of  *)
(* every symbol: "bool", "tri", "int", "text" or "unknown".                *)
(***************************************************************************)
EXTENDS Naturals, Sequences

Lesser(a, b) == IF a < b THEN a ELSE b
Greater(a, b) == IF a > b THEN a ELSE b

(* The three values, no, mod and yes, and the symbols that name them. *)
Levels == 0 .. 2
LevelName == <<"n", "m", "y">>
Constants == {"y", "m", "n"}
LevelOf(c) == CASE c = "n" -> 0 [] c = "m" -> 1 [] c = "y" -> 2

Nil == [op |-> "nil"]
Sym(s) == [op |-> "sym", s |-> s]
Not(e) == [op |-> "not", l |-> e]
Two(op, e1, e2) == [op |-> op, l |-> e1, r |-> e2]
Eq(s1, s2) == [op |-> "eq", s |-> s1, t |-> s2]
Ne(s1, s2) == [op |-> "ne", s |-> s1, t |-> s2]

(* expr_alloc_and and expr_alloc_or: an absent side is left out. *)
Join(op, e1, e2) ==
  IF e1 = Nil THEN e2 ELSE IF e2 = Nil THEN e1 ELSE Two(op, e1, e2)
AllocAnd(e1, e2) == Join("and", e1, e2)
AllocOr(e1, e2) == Join("or", e1, e2)

TypeIn(ty, s) == IF s \in DOMAIN ty THEN ty[s] ELSE "unknown"
IsComparison(e) == e.op \in {"eq", "ne"}
IsJunction(e) == e.op \in {"and", "or"}
IsSym(e, s) == e.op = "sym" /\ e.s = s
IsYes(e) == e = Nil \/ IsSym(e, "y")
IsNo(e) == IsSym(e, "n")

(* What leaves a junction unchanged. *)
Neutral(op) == IF op = "and" THEN Sym("y") ELSE Sym("n")

(***************************************************************************)
(* The value of an expression: level[s] is what a symbol is worth in a     *)
(* test, text[s] the string it is compared by.                             *)
(***************************************************************************)
RECURSIVE Value(_, _, _)
Value(e, level, text) ==
  CASE e.op = "nil" -> 2
    [] e.op = "sym" -> level[e.s]
    [] e.op = "and" -> Lesser(Value(e.l, level, text), Value(e.r, level, text))
    [] e.op = "or"  -> Greater(Value(e.l, level, text), Value(e.r, level, text))
    [] e.op = "not" -> 2 - Value(e.l, level, text)
    [] e.op = "eq"  -> IF text[e.s] = text[e.t] THEN 2 ELSE 0
    [] e.op = "ne"  -> IF text[e.s] = text[e.t] THEN 0 ELSE 2

(* The symbols an expression reads, from left to right. *)
RECURSIVE Reads(_)
Reads(e) ==
  CASE e.op = "nil" -> <<>>
    [] e.op = "sym" -> <<e.s>>
    [] e.op = "not" -> Reads(e.l)
    [] IsComparison(e) -> <<e.s, e.t>>
    [] OTHER -> Reads(e.l) \o Reads(e.r)

(* Places of a tree: a path is a sequence of "l" and "r". *)
RECURSIVE At(_, _)
At(e, p) == IF p = <<>> THEN e ELSE At(e[Head(p)], Tail(p))
RECURSIVE Put(_, _, _)
Put(e, p, x) == IF p = <<>> THEN x ELSE [e EXCEPT ![Head(p)] = Put(@, Tail(p), x)]

Left == <<"l">>
Right == <<"r">>

(* A side that is 'y' or 'n' decides a junction or drops out of it. *)
RECURSIVE EliminateYn(_)
EliminateYn(e) ==
  IF ~IsJunction(e) THEN e
  ELSE LET l == EliminateYn(e.l)
           r == EliminateYn(e.r)
           neutral == Neutral(e.op)
           decides == IF e.op = "and" THEN Sym("n") ELSE Sym("y")
       IN  CASE l = decides \/ r = decides -> decides
             [] l = neutral -> r
             [] r = neutral -> l
             [] OTHER -> Two(e.op, l, r)

(***************************************************************************)
(* expr_join_or and expr_join_and: one operand for two, or Nil.            *)
(***************************************************************************)
Joinable(e) == IsComparison(e) \/ e.op \in {"sym", "not"}

(* The one symbol two operands are about, "" when there is none. *)
AboutOne(ty, e1, e2) ==
  LET first == IF e1.op = "not" THEN e1.l ELSE e1
      second == IF e2.op = "not" THEN e2.l ELSE e2
  IN  IF /\ Joinable(e1) /\ Joinable(e2)
         /\ IsComparison(first) \/ first.op = "sym"
         /\ e2.op = "not" => second.op = "sym"
         /\ first.s = second.s
         /\ TypeIn(ty, first.s) \in {"bool", "tri"}
      THEN first.s
      ELSE ""

(* What two operands about s are together; Either tells that they are, in one
   order or the other, op1 with t1 and op2 with t2. *)
Either(e1, e2, op1, t1, op2, t2) ==
  LET Has(e, op, t) == e.op = op /\ (op = "sym" \/ e.t = t)
  IN  \/ Has(e1, op1, t1) /\ Has(e2, op2, t2)
      \/ Has(e2, op1, t1) /\ Has(e1, op2, t2)

JoinOr(ty, s, e1, e2) ==
  LET Both(t1, t2) == ty[s] = "tri" /\ Either(e1, e2, "eq", t1, "eq", t2)
      Denied(d, e) == d.op = "not" /\ d.l.op = "sym" /\ e.op = "sym"
  IN  CASE s = "" -> Nil
        [] Both("y", "m") -> Ne(s, "n")
        [] Both("y", "n") -> Ne(s, "m")
        [] Both("m", "n") -> Ne(s, "y")
        [] ty[s] = "bool" /\ (Denied(e1, e2) \/ Denied(e2, e1)) -> Sym("y")
        [] OTHER -> Nil

JoinAnd(ty, s, e1, e2) ==
  LET With(op, t) == Either(e1, e2, "sym", "", op, t)
      Neither(t1, t2) == ty[s] = "tri" /\ Either(e1, e2, "ne", t1, "ne", t2)
      is == IF e1.op = "eq" THEN e1 ELSE e2
      isnt == IF e1.op = "eq" THEN e2 ELSE e1
  IN  CASE s = "" -> Nil
        [] With("eq", "y") -> Eq(s, "y")
        [] With("ne", "n") -> Sym(s)
        [] With("ne", "m") -> Eq(s, "y")
        [] /\ ty[s] = "tri" /\ is.op = "eq" /\ isnt.op = "ne"
           /\ {is.t, isnt.t} \subseteq Constants ->
             IF is.t # isnt.t THEN Eq(s, is.t) ELSE Sym("n")
        [] Neither("y", "n") -> Eq(s, "m")
        [] Neither("y", "m") -> Eq(s, "n")
        [] Neither("m", "n") -> Eq(s, "y")
        [] OTHER -> Nil

(* Negation moves inwards; a test of a boolean becomes the boolean itself. *)
RECURSIVE Transform(_, _)
Transform(ty, e) ==
  LET flipped == IF e.op = "eq" THEN "ne" ELSE "eq"
      l == Transform(ty, e.l)
      TransformNot(x) ==
        CASE x.op = "not" -> Transform(ty, x.l)
          [] x.op = "eq" -> Ne(x.s, x.t)
          [] x.op = "ne" -> Eq(x.s, x.t)
          [] x.op = "or" -> Transform(ty, Two("and", Not(x.l), Not(x.r)))
          [] x.op = "and" -> Transform(ty, Two("or", Not(x.l), Not(x.r)))
          [] IsSym(x, "y") -> Sym("n")
          [] IsSym(x, "m") -> Sym("m")
          [] IsSym(x, "n") -> Sym("y")
          [] OTHER -> Not(x)
      TransformTest(yes, no) ==
        CASE TypeIn(ty, e.s) # "bool" -> e
          [] e.t = yes -> Sym(e.s)
          [] e.t = no -> Not(Sym(e.s))
          [] e.t = "m" -> IF e.op = "eq" THEN Sym("n") ELSE Sym("y")
          [] OTHER -> e
  IN  CASE IsJunction(e) -> Two(e.op, l, Transform(ty, e.r))
        [] e.op = "eq" -> TransformTest("y", "n")
        [] e.op = "ne" -> TransformTest("n", "y")
        [] e.op = "not" -> TransformNot(l)
        [] OTHER -> e

(***************************************************************************)
(* The traversals of two trees, or of one tree twice, that meet every      *)
(* operand of the one with every operand of the other.  w.e is the tree    *)
(* that holds both places, w.hit tells that something was rewritten        *)
(* (trans_count), and what is done with two operands depends on task:      *)
(*   "eq"      expr_eliminate_eq: equal operands drop out of both trees    *)
(*   "extract" expr_extract_eq: the same, and the caller looks at hit      *)
(*   "dups1"   two operands that can be joined become one                  *)
(*   "dups2"   an operand whose negation the other tree holds decides      *)
(* In "dups2" the code goes on after the second descent instead of         *)
(* returning.                                                              *)
(***************************************************************************)
RECURSIVE Meet(_, _, _, _, _, _)
RECURSIVE Pair(_, _, _, _, _, _)
RECURSIVE ExprEq(_, _)

Meet(task, ty, op, w, p, q) ==
  IF At(w.e, p).op = op
  THEN Meet(task, ty, op, Meet(task, ty, op, w, p \o Left, q), p \o Right, q)
  ELSE IF At(w.e, q).op = op /\ task # "dups2"
  THEN Meet(task, ty, op, Meet(task, ty, op, w, p, q \o Left), p, q \o Right)
  ELSE Pair(task, ty, op,
            IF At(w.e, q).op # op THEN w
            ELSE Meet(task, ty, op, Meet(task, ty, op, w, p, q \o Left), p, q \o Right), p, q)

(* Two trees side by side, for the traversals that take two. *)
Beside(e1, e2) == [e |-> Two("pair", e1, e2), hit |-> FALSE]

YnBoth(e) == Two("pair", EliminateYn(e.l), EliminateYn(e.r))

(* expr_eliminate_eq: what the two trees share at their top is dropped. *)
DropFirst(w) ==
  IF IsJunction(w.e.l) THEN Meet("eq", <<>>, w.e.l.op, w, Left, Right) ELSE w
DropSecond(w) ==
  IF w.e.l.op # w.e.r.op /\ IsJunction(w.e.r) THEN Meet("eq", <<>>, w.e.r.op, w, Left, Right) ELSE w
EliminateEq(e1, e2) ==
  IF e1 = Nil \/ e2 = Nil THEN Beside(e1, e2).e
  ELSE YnBoth(DropSecond(DropFirst(Beside(e1, e2))).e)

(* What is left of two trees is the same symbol. *)
OneSymbol(rest) == rest.l.op = "sym" /\ rest.r.op = "sym" /\ rest.l.s = rest.r.s

ExprEq(e1, e2) ==
  /\ e1.op = e2.op
  /\ CASE IsComparison(e1) -> e1.s = e2.s /\ e1.t = e2.t
       [] e1.op = "sym" -> e1.s = e2.s
       [] e1.op = "not" -> ExprEq(e1.l, e2.l)
       [] IsJunction(e1) -> OneSymbol(EliminateEq(e1, e2))

(* expr_extract_eq_and and _or: the two trees without what they share. *)
Cleaned(x) == IF x.hit THEN YnBoth(x.e) ELSE x.e
ExtractEq(op, e1, e2) == Cleaned(Meet("extract", <<>>, op, Beside(e1, e2), Left, Right))

JoinTwo(ty, op, e1, e2) ==
  IF ExprEq(e1, e2) THEN e1
  ELSE IF op = "or" THEN JoinOr(ty, AboutOne(ty, e1, e2), e1, e2)
                    ELSE JoinAnd(ty, AboutOne(ty, e1, e2), e1, e2)

(* What each task does when two operands meet. *)
DropEqual(op, w, p, q) ==
  IF ExprEq(At(w.e, p), At(w.e, q))
  THEN [e |-> Put(Put(w.e, p, Neutral(op)), q, Neutral(op)), hit |-> TRUE]
  ELSE w

KeepsConstants(op, w, p, q) ==
  At(w.e, p) = At(w.e, q) /\ At(w.e, p) \in {Sym("y"), Sym("n")}

(* Duplicates inside the operand at p go first. *)
DupsInside(task, ty, w, p) ==
  IF IsJunction(At(w.e, p)) THEN Meet(task, ty, At(w.e, p).op, w, p, p) ELSE w

TakeJoined(op, x, p, q, joined) ==
  IF joined = Nil THEN x
  ELSE [e |-> Put(Put(x.e, p, Neutral(op)), q, joined), hit |-> TRUE]
JoinAt(ty, op, x, p, q) == TakeJoined(op, x, p, q, JoinTwo(ty, op, At(x.e, p), At(x.e, q)))
Dups1(ty, op, w, p, q) == JoinAt(ty, op, DupsInside("dups1", ty, w, p), p, q)

(* The operand at p, an inner junction, decides when nothing of it is left. *)
Dual(op) == IF op = "or" THEN "and" ELSE "or"
Decide(x, p, inner, rest) ==
  IF rest = Neutral(Dual(inner)) THEN [e |-> Put(x.e, p, Neutral(inner)), hit |-> TRUE] ELSE x

\* Mutant of DecideAt: an operand that the other tree repeats decides, instead
\* of one whose negation it holds.
DecideAt_NoNot(ty, inner, x, p, q) ==
  Decide(x, p, inner, ExtractEq(Dual(inner), Transform(ty, At(x.e, p)), At(x.e, q)).l)

DecideAt(ty, inner, x, p, q) ==
  Decide(x, p, inner, ExtractEq(Dual(inner), Transform(ty, Not(At(x.e, p))), At(x.e, q)).l)
Dups2(ty, op, w, p, q) ==
  IF ~IsJunction(At(w.e, p)) THEN w
  ELSE DecideAt(ty, At(w.e, p).op, DupsInside("dups2", ty, w, p), p, q)

Pair(task, ty, op, w, p, q) ==
  CASE task = "eq" /\ KeepsConstants(op, w, p, q) -> w
    [] task \in {"eq", "extract"} /\ (task = "eq" => ~KeepsConstants(op, w, p, q)) ->
         DropEqual(op, w, p, q)
    [] task \in {"dups1", "dups2"} /\ p = q -> w
    [] task = "dups1" /\ p # q -> Dups1(ty, op, w, p, q)
    [] task = "dups2" /\ p # q -> Dups2(ty, op, w, p, q)

(* Duplicates go until a pass rewrites nothing. *)
RECURSIVE EliminateDups(_, _)
DupsPass(task, ty, w) == Meet(task, ty, w.e.op, w, <<>>, <<>>)
Again(ty, w) == IF w.hit THEN EliminateDups(ty, EliminateYn(w.e)) ELSE w.e
EliminateDups(ty, e) ==
  IF ~IsJunction(e) THEN e
  ELSE Again(ty, DupsPass("dups2", ty, DupsPass("dups1", ty, [e |-> e, hit |-> FALSE])))

(* FOO != n becomes FOO, for a reader that only asks whether it is n. *)
RECURSIVE TransBool(_, _)
TransBool(ty, e) ==
  CASE IsJunction(e) -> Two(e.op, TransBool(ty, e.l), TransBool(ty, e.r))
    [] e.op = "not" -> Not(TransBool(ty, e.l))
    [] e.op = "ne" /\ TypeIn(ty, e.s) = "tri" /\ e.t = "n" -> Sym(e.s)
    [] OTHER -> e

(* expr_trans_compare: an expression that is y when e compares to s as told,
   for s = y and s = n, the two its callers use. *)
RECURSIVE TransCompare(_, _, _)
TransCompare(e, cmp, s) ==
  LET Told(x) == IF cmp = "ne" THEN Not(x) ELSE x
      dual == IF e.op = "and" THEN "or" ELSE "and"
      other == IF cmp = "eq" THEN "ne" ELSE "eq"
  IN  CASE e.op = "nil" -> Told(Sym(s))
        [] IsJunction(e) -> Told(Two(IF s = "y" THEN e.op ELSE dual,
                                     TransCompare(e.l, "eq", s), TransCompare(e.r, "eq", s)))
        [] e.op = "not" -> TransCompare(e.l, other, s)
        [] IsComparison(e) -> IF (cmp = "eq") = (s = "y") THEN e ELSE Not(e)
        [] e.op = "sym" -> [op |-> cmp, s |-> e.s, t |-> s]

(* expr_contains_symbol and expr_depends_symbol *)
RECURSIVE Mentions(_, _)
Mentions(e, s) ==
  CASE e.op = "nil" -> FALSE
    [] IsJunction(e) -> Mentions(e.l, s) \/ Mentions(e.r, s)
    [] e.op = "not" -> Mentions(e.l, s)
    [] e.op = "sym" -> e.s = s
    [] OTHER -> s \in {e.s, e.t}

RECURSIVE Needs(_, _)
Needs(e, s) ==
  CASE e.op = "and" -> Needs(e.l, s) \/ Needs(e.r, s)
    [] e.op = "sym" -> e.s = s
    [] e.op = "eq" -> e.s = s /\ e.t \in {"y", "m"}
    [] e.op = "ne" -> e.s = s /\ e.t = "n"
    [] OTHER -> FALSE
=============================================================================
