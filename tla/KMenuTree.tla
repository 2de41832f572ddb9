----------------------------- MODULE KMenuTree -----------------------------
(***************************************************************************)
(* The menu tree of the configurator (kconfig/menu.c): the calls by which  *)
(* the parser of Kconfig files builds it (kconfig/zconf.tab.c_shipped) and *)
(* menu_finalize, which gives every entry its full dependency and moves    *)
(* entries below the entry they depend on.                                 *)
(*                                                                         *)
(* The tree is a record t.  An entry is its number in the order of the     *)
(* files, 0 the root menu; t.sym, t.prompt (the number of a property, 0    *)
(* for none), t.dep, t.parent and t.kids (the list) are its fields.        *)
(* t.props holds the properties in the order they were given: the list of  *)
(* a symbol is those of its own.  t.rev is the reverse dependency of a     *)
(* symbol, t.type its type, t.optional the symbols with SYMBOL_OPTIONAL    *)
(* and t.members the symbols of a choice.  t.entry and t.menu are          *)
(* current_entry and current_menu of the parser.                           *)
(***************************************************************************)
EXTENDS KExpr, SequencesExt

CONSTANTS Symbols,       \* the names a Kconfig file gives its symbols
          Modules        \* the anonymous symbol that follows MODULES

NoSym == ""

IsChoice(t, s) == s \in DOMAIN t.members
IsMember(t, s) == \E c \in DOMAIN t.members : s \in Range(t.members[c])
ChoiceOf(t, s) == CHOOSE c \in DOMAIN t.members : s \in Range(t.members[c])

(* The properties of one kind of a symbol, in order. *)
PropsOf(t, s, kind) == SelectSeq(t.props, LAMBDA p : p.sym = s /\ p.kind = kind)
Prompts(t, s) == SelectSeq(t.props, LAMBDA p : p.sym = s /\ p.prompt)

(***************************************************************************)
(* menu_check_dep: 'm' means m only while there are modules.               *)
(***************************************************************************)
RECURSIVE CheckDep(_)
CheckDep(e) ==
  CASE e.op = "not" -> Not(CheckDep(e.l))
    [] IsJunction(e) -> Two(e.op, CheckDep(e.l), CheckDep(e.r))
    [] IsSym(e, "m") -> AllocAnd(e, Sym(Modules))
    [] OTHER -> e

(***************************************************************************)
(* What the parser calls.                                                  *)
(***************************************************************************)
AddProp(t, kind, isPrompt, expr, dep) ==
  LET at == t.entry
      p == [kind |-> kind, sym |-> t.sym[at], entry |-> at, prompt |-> isPrompt,
            expr |-> expr, vis |-> CheckDep(dep)]
  IN  [t EXCEPT !.props = Append(@, p),
                !.prompt[at] = IF isPrompt THEN Len(t.props) + 1 ELSE @]

AddPrompt(t, kind, dep) == AddProp(t, kind, TRUE, Nil, dep)
AddDefault(t, expr, dep) == AddProp(t, "default", FALSE, expr, dep)
AddSelect(t, s, dep) == AddProp(t, "select", FALSE, Sym(s), dep)
AddRange(t, lo, hi, dep) == AddProp(t, "range", FALSE, [op |-> "range", s |-> lo, t |-> hi], dep)

AddDep(t, dep) == [t EXCEPT !.dep[t.entry] = AllocAnd(@, CheckDep(dep))]

SetTypeOf(t, s, type) == IF t.type[s] = "unknown" THEN [t EXCEPT !.type[s] = type] ELSE t
SetType(t, type) == SetTypeOf(t, t.sym[t.entry], type)

AddEntry(t, s) ==
  LET new == Len(t.dep) + 1
  IN  [t EXCEPT !.sym = Append(@, s), !.dep = Append(@, Nil),
                !.prompt = [m \in 0 .. new |-> IF m = new THEN 0 ELSE @[m]],
                !.parent = Append(@, t.menu),
                !.kids = [m \in 0 .. new |-> CASE m = new -> <<>>
                                               [] m = t.menu -> Append(@[m], new)
                                               [] OTHER -> @[m]],
                !.entry = new]

AddMenu(t) == [t EXCEPT !.menu = t.entry]
EndMenu(t) == [t EXCEPT !.menu = t.parent[@]]

(* A choice is an anonymous symbol; it lists its members once finalized. *)
AddChoice(t, c) ==
  LET x == AddEntry([t EXCEPT !.members = [d \in DOMAIN @ \cup {c} |->
                                              IF d = c THEN <<>> ELSE @[d]]], c)
  IN  AddProp(x, "choice", FALSE, Nil, Nil)

AddConfig(t, s) == AddEntry([t EXCEPT !.optional = @ \cup {s}], s)
AddIf(t, dep) == AddMenu(AddDep(AddEntry(t, NoSym), dep))
AddTitle(t, kind) == AddPrompt(AddEntry(t, NoSym), kind, Nil)

(* menu_init and what conf_parse does before the first file; t.parent and
   t.sym of the root are never asked for except where RootSym says. *)
EmptyTree ==
  [sym |-> <<>>, prompt |-> [m \in {0} |-> 1], dep |-> <<>>, parent |-> <<>>,
   kids |-> [m \in {0} |-> <<>>],
   props |-> << [kind |-> "menu", sym |-> NoSym, entry |-> 0, prompt |-> TRUE,
                 expr |-> Nil, vis |-> Nil] >>,
   rev |-> [s \in Symbols |-> Nil], type |-> [s \in Symbols |-> "unknown"],
   optional |-> {}, members |-> [c \in {} |-> <<>>], entry |-> 0, menu |-> 0]

(* Before the tree is finalized modules get the default MODULES, unless a
   file said what they follow. *)
WithModules(t) ==
  IF \E i \in DOMAIN t.props : t.props[i].sym = Modules THEN t
  ELSE [t EXCEPT !.props = Append(@, [kind |-> "default", sym |-> Modules, entry |-> 0,
                                       prompt |-> FALSE, expr |-> Sym("MODULES"), vis |-> Nil])]

SymOf(t, m) == IF m = 0 THEN NoSym ELSE t.sym[m]
PromptVis(t, m) == IF t.prompt[m] = 0 THEN Nil ELSE t.props[t.prompt[m]].vis

(***************************************************************************)
(* menu_finalize, in the order of the code.                                *)
(***************************************************************************)

(* What the entries of a menu depend on through it. *)
ParentDep(t, m) ==
  CASE IsChoice(t, SymOf(t, m)) -> Sym(SymOf(t, m))
    [] t.prompt[m] # 0 -> PromptVis(t, m)
    [] OTHER -> t.dep[m]

(* The first member that has a symbol and its choice give each other a type. *)
ChoiceType(t, m) ==
  LET c == SymOf(t, m)
      named == SelectSeq(t.kids[m], LAMBDA k : t.sym[k] # NoSym)
      x == SetTypeOf(t, c, t.type[t.sym[named[1]]])
  IN  IF IsChoice(t, c) /\ named # <<>> THEN SetTypeOf(x, t.sym[named[1]], x.type[c]) ELSE t

(* The visibility of a property becomes vis; a select is noted at the
   symbol it selects. *)
SeenIf(t, i, vis) ==
  LET p == t.props[i]
  IN  [t EXCEPT !.props[i].vis = vis,
                !.rev = IF p.kind # "select" THEN @
                        ELSE [@ EXCEPT ![p.expr.s] = AllocOr(@, AllocAnd(Sym(p.sym), vis))]]
BoolFor(t, k, e) == IF t.sym[k] # NoSym /\ t.type[t.sym[k]] # "tri" THEN TransBool(t.type, e) ELSE e

(* What e and the dependency of the entries around are together. *)
With(t, dep, e) == EliminateDups(t.type, AllocAnd(dep, Transform(t.type, e)))

(* The properties of one entry get its dependency. *)
OwnProp(t, k, i) ==
  /\ t.props[i].entry = k
  /\ IF t.sym[k] = NoSym THEN i = t.prompt[k] ELSE t.props[i].sym = t.sym[k]
RECURSIVE Guard(_, _, _)
Guard(t, k, i) ==
  IF i > Len(t.props) THEN t
  ELSE Guard(IF OwnProp(t, k, i) THEN SeenIf(t, i, BoolFor(t, k, With(t, t.dep[k], t.props[i].vis)))
             ELSE t, k, i + 1)

RECURSIVE Inherit(_, _, _)
Inherit(t, m, i) ==
  LET k == t.kids[m][i]
  IN  IF i > Len(t.kids[m]) THEN t
      ELSE Inherit(Guard([t EXCEPT !.dep[k] = With(t, ParentDep(t, m), t.dep[k])], k, 1), m, i + 1)

(* An expression that is y exactly where e is not n. *)
NotN(t, e) == EliminateDups(t.type, Transform(t.type, TransCompare(e, "ne", "n")))

DepOf(t, k) == IF t.prompt[k] # 0 THEN PromptVis(t, k) ELSE t.dep[k]

\* Mutant of GoesBelow: whatever reads the symbol goes below it.
GoesBelow_Mentions(t, m, k) == Mentions(DepOf(t, k), t.sym[m])

(* An entry that follows m in its list goes below it: it needs the symbol
   of m, or needs it somehow and is only visible where m is. *)
GoesBelow(t, m, k) ==
  /\ Mentions(DepOf(t, k), t.sym[m])
  /\ \/ Needs(DepOf(t, k), t.sym[m])
     \/ IsYes(EliminateEq(NotN(t, DepOf(t, k)), NotN(t, PromptVis(t, m))).r)

RECURSIVE Finalize(_, _)
RECURSIVE Adopt(_, _, _, _)
RECURSIVE FinalizeKids(_, _, _)

(* The list of the menu owner, that follows position at, below m as long as
   GoesBelow holds; each is finalized before it moves. *)
Adopt(t, m, owner, last) ==
  LET list == t.kids[owner]
      at == CHOOSE i \in DOMAIN list : list[i] = m
      next == IF last + 1 \in DOMAIN list THEN list[last + 1] ELSE 0
  IN  IF next # 0 /\ GoesBelow(t, m, next)
      THEN Adopt([Finalize(t, next) EXCEPT !.parent[next] = m], m, owner, last + 1)
      ELSE [t EXCEPT !.kids[m] = SubSeq(list, at + 1, last),
                     !.kids[owner] = SubSeq(list, 1, at) \o SubSeq(list, last + 1, Len(list))]

FinalizeKids(t, m, i) ==
  IF i > Len(t.kids[m]) THEN t ELSE FinalizeKids(Finalize(t, t.kids[m][i]), m, i + 1)

\* Mutant of Settle: the entries handed up go to the end of the list.
RECURSIVE Settle_AtEnd(_, _, _)
Settle_AtEnd(t, m, i) ==
  IF i > Len(t.kids[m]) THEN t
  ELSE LET k == t.kids[m][i]
           c == SymOf(t, m)
           s == t.sym[k]
           listed == [SetTypeOf(t, s, t.type[c]) EXCEPT !.members[c] = Append(@, s)]
           x == IF IsChoice(t, c) /\ s # NoSym THEN listed ELSE t
           flat == [x EXCEPT !.parent = [e \in DOMAIN @ |-> IF e \in Range(t.kids[k]) THEN m ELSE @[e]],
                             !.kids[m] = @ \o t.kids[k],
                             !.kids[k] = <<>>]
       IN  Settle_AtEnd(IF t.kids[k] # <<>> /\ t.prompt[k] = 0 THEN flat ELSE x, m, i + 1)

(* The members of a choice are listed, and an entry without a prompt hands
   its own entries to m. *)
RECURSIVE Settle(_, _, _)
Settle(t, m, i) ==
  IF i > Len(t.kids[m]) THEN t
  ELSE LET k == t.kids[m][i]
           c == SymOf(t, m)
           s == t.sym[k]
           listed == [SetTypeOf(t, s, t.type[c]) EXCEPT !.members[c] = Append(@, s)]
           x == IF IsChoice(t, c) /\ s # NoSym THEN listed ELSE t
           flat == [x EXCEPT !.parent = [e \in DOMAIN @ |-> IF e \in Range(t.kids[k]) THEN m ELSE @[e]],
                             !.kids[m] = SubSeq(@, 1, i) \o t.kids[k] \o SubSeq(@, i + 1, Len(@)),
                             !.kids[k] = <<>>]
       IN  Settle(IF t.kids[k] # <<>> /\ t.prompt[k] = 0 THEN flat ELSE x, m, i + 1)

(* A choice that is not optional is at least m where it is visible. *)
Obliged(t, m) ==
  LET s == SymOf(t, m)
  IN  IF s # NoSym /\ s \notin t.optional /\ t.prompt[m] # 0
      THEN [t EXCEPT !.rev[s] = AllocOr(@, AllocAnd(PromptVis(t, m), Sym("m")))]
      ELSE t

Position(t, m) == CHOOSE i \in DOMAIN t.kids[t.parent[m]] : t.kids[t.parent[m]][i] = m

SubtreeFinal(t, m) ==
  CASE t.kids[m] # <<>> -> FinalizeKids(Inherit(ChoiceType(t, m), m, 1), m, 1)
    [] t.kids[m] = <<>> /\ SymOf(t, m) # NoSym -> Adopt(t, m, t.parent[m], Position(t, m))
    [] OTHER -> t
Finalize(t, m) == Obliged(Settle(SubtreeFinal(t, m), m, 1), m)

(***************************************************************************)
(* sym_check_deps, over the symbols in the order given: w.checked and      *)
(* w.open are the two marks, w.found the symbol that closes a circle while *)
(* the walk returns along it ("" otherwise), w.told the circles reported.  *)
(***************************************************************************)
RECURSIVE CheckDeps(_, _, _)
RECURSIVE CheckReads(_, _, _)

(* sym_check_expr_deps of each expression in turn *)
CheckReads(t, reads, w) ==
  IF reads = <<>> \/ w.found # "" THEN w
  ELSE CheckReads(t, Tail(reads), CheckDeps(t, Head(reads), w))

\* Mutant of ReadsOf: what selects a symbol is not followed.
ReadsOf_NoSelects(t, s) ==
  LET own == SelectSeq(t.props, LAMBDA p : p.sym = s /\ p.kind \notin {"choice", "select"})
      OfProp(p) == Reads(p.vis) \o (IF p.kind = "default" /\ ~IsChoice(t, s)
                                    THEN Reads(p.expr) ELSE <<>>)
  IN  FlattenSeq([i \in DOMAIN own |-> OfProp(own[i])])

(* What the value of a symbol is computed from, in the order of the walk. *)
ReadsOf(t, s) ==
  LET own == SelectSeq(t.props, LAMBDA p : p.sym = s /\ p.kind \notin {"choice", "select"})
      OfProp(p) == Reads(p.vis) \o (IF p.kind = "default" /\ ~IsChoice(t, s)
                                    THEN Reads(p.expr) ELSE <<>>)
  IN  Reads(t.rev[s]) \o FlattenSeq([i \in DOMAIN own |-> OfProp(own[i])])

CheckDeps(t, s, w) ==
  LET marked == [w EXCEPT !.checked = @ \cup {s}, !.open = @ \cup {s}]
      x == CheckReads(t, ReadsOf(t, s), marked)
  IN  IF s \notin DOMAIN t.rev THEN w
      ELSE IF s \in w.open THEN [w EXCEPT !.found = s, !.told = @ \cup {s}]
      ELSE IF s \in w.checked THEN w
      ELSE [x EXCEPT !.open = @ \ {s}, !.found = IF @ = s THEN "" ELSE @]

RECURSIVE CheckAll(_, _, _)
CheckAll(t, order, w) ==
  IF order = <<>> THEN w.told
  ELSE CheckAll(t, Tail(order), CheckDeps(t, Head(order), [w EXCEPT !.found = ""]))

Circles(t, order) ==
  CheckAll(t, order, [checked |-> {}, open |-> {}, found |-> "", told |-> {}])

(***************************************************************************)
(* next_menu of confdata.c: the entries in the order of the tree.          *)
(***************************************************************************)
RECURSIVE Preorder(_, _)
Preorder(t, m) ==
  <<m>> \o FlattenSeq([i \in DOMAIN t.kids[m] |-> Preorder(t, t.kids[m][i])])
=============================================================================
