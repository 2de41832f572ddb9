------------------------------- MODULE KMenus -------------------------------
(***************************************************************************)
(* Reading Kconfig files (conf_parse in kconfig/zconf.tab.c_shipped): the  *)
(* blocks of a file, one action each, build the menu tree, and the end of  *)
(* the last file finalizes it and looks for circles.                       *)
(***************************************************************************)
EXTENDS KMenuTree

CONSTANTS TypeOf,        \* the type a config block gives each symbol
          Choice         \* the anonymous symbol of the one choice block

VARIABLES plan,          \* what is written in the file: for each entry the
                         \* blocks it may be, the symbols it may be about and
                         \* the conditions it may have; its length bounds the
                         \* number of entries
          order,         \* the order in which the hash table lists the symbols
          tree,          \* the menu tree
          parsed,        \* the tree as it was when the last file ended
          phase,         \* "parse", then "done", then "used"
          circles        \* the recursive dependencies reported

parseVars == <<plan, order, tree, parsed, phase, circles>>

Named == Symbols \ {Modules, Choice}
Start == [EmptyTree EXCEPT !.type[Modules] = "bool"]

ParseInit ==
  /\ parsed = Start
  /\ phase = "parse"
  /\ circles = {}

Parsing == phase = "parse" /\ UNCHANGED <<plan, order, parsed, phase, circles>>
Turn == Len(tree.dep) + 1
Room(block) == Turn \in DOMAIN plan /\ block \in plan[Turn].blocks
InChoice == IsChoice(tree, SymOf(tree, tree.menu))
Unused(s) == s \notin Range(tree.sym)

(* config, with its type and what it depends on *)
Started(s, dep) == AddDep(SetType(AddConfig(tree, s), TypeOf[s]), dep)

(* A config block: its condition is one of the whole entry or of its prompt. *)
Config(s, dep) ==
  Unused(s) /\ Parsing /\ Room("config") /\ tree' = AddPrompt(Started(s, dep), "prompt", Nil)
ConfigIf(s, if) ==
  Unused(s) /\ Parsing /\ Room("prompt if") /\ tree' = AddPrompt(Started(s, Nil), "prompt", if)

(* A config block without a prompt has a default. *)
ConfigSilent(s, default, dep) ==
  /\ Unused(s) /\ Parsing /\ Room("silent") /\ ~InChoice
  /\ tree' = AddDefault(Started(s, Nil), Sym(default), dep)

ConfigSelect(s, target, if) ==
  /\ Unused(s) /\ Parsing /\ Room("select") /\ ~InChoice
  /\ tree' = AddSelect(AddPrompt(Started(s, Nil), "prompt", Nil), target, if)

Comment(dep) == Parsing /\ Room("comment") /\ tree' = AddDep(AddTitle(tree, "comment"), dep)

OpenIf(dep) == Parsing /\ Room("if") /\ tree' = AddIf(tree, dep)
OpenMenu(dep) ==
  Parsing /\ Room("menu") /\ ~InChoice /\ tree' = AddMenu(AddDep(AddTitle(tree, "menu"), dep))
OpenChoice(dep) ==
  /\ Unused(Choice) /\ Parsing /\ Room("choice")
  /\ tree' = AddMenu(AddPrompt(AddDep(AddChoice(tree, Choice), dep), "prompt", Nil))

(* endif, endmenu, endchoice *)
Close == Parsing /\ tree.menu # 0 /\ tree' = EndMenu(tree)

(* The end of the last file: modules follow MODULES unless a file said
   otherwise, the tree is finalized and every symbol is checked. *)
EndOfFiles ==
  /\ phase = "parse" /\ tree.menu = 0 /\ tree.dep # <<>>
  /\ phase' = "done"
  /\ parsed' = WithModules(tree)
  /\ \E final \in {Finalize(WithModules(tree), 0)} :
       tree' = final /\ circles' = Circles(final, order)
  /\ UNCHANGED <<plan, order>>

Conditions == IF Turn \in DOMAIN plan THEN plan[Turn].conditions ELSE {}
Subjects == IF Turn \in DOMAIN plan THEN plan[Turn].symbols ELSE {}

Parse ==
  \/ \E s \in Subjects, e \in Conditions :
        \/ Config(s, e) \/ ConfigIf(s, e)
        \/ \E d \in DOMAIN TypeOf \ {s} : ConfigSilent(s, d, e) \/ ConfigSelect(s, d, e)
  \/ \E e \in Conditions : Comment(e) \/ OpenIf(e) \/ OpenMenu(e) \/ OpenChoice(e)
  \/ Close
  \/ EndOfFiles

(***************************************************************************)
(* The meaning of the files as kconfig-language.txt gives it, from the     *)
(* tree as it was parsed.  w says what every symbol is worth.              *)
(***************************************************************************)
Defined(s) == tree.type[s] # "unknown"
Given == UNION {Range(Reads(p.expr)) : p \in {q \in Range(parsed.props) : q.kind = "default"}}
Names == Symbols \cup Constants \cup Given
Worth(levels) ==
  LET On(w) == [s \in Symbols |-> IF Defined(s) THEN w[s] ELSE 0]
  IN  {On(w) : w \in {v \in [{s \in Symbols : Defined(s)} -> levels] :
                         \A s \in DOMAIN v : tree.type[s] = "bool" => v[s] # 1}}
Level(w) == [s \in Names |-> CASE s \in Constants -> LevelOf(s)
                                  [] s \in Symbols -> w[s]
                                  [] OTHER -> 0]
Text(w) == [s \in Names |-> IF s \in Constants \/ (s \in Symbols /\ Defined(s))
                                  THEN LevelName[Level(w)[s] + 1] ELSE s]
ValueIn(e, w) == Value(e, Level(w), Text(w))

(* How visible entry m is, and how visible it lets its own entries be. *)
RECURSIVE Allowed(_, _)
Through(m, w) ==
  CASE m = 0 -> 2
    [] IsChoice(parsed, parsed.sym[m]) -> w[parsed.sym[m]]
    [] parsed.prompt[m] # 0 -> Lesser(Allowed(m, w), ValueIn(PromptVis(parsed, m), w))
    [] OTHER -> Allowed(m, w)
Allowed(m, w) == Lesser(ValueIn(parsed.dep[m], w), Through(parsed.parent[m], w))

VisibleIn(p, w) == IF p.entry = 0 THEN 2 ELSE Lesser(Allowed(p.entry, w), ValueIn(p.vis, w))

(* What holds a symbol up: the symbols that select it. *)
HeldUp(s, w) ==
  LET selects == {i \in DOMAIN parsed.props :
                     parsed.props[i].kind = "select" /\ parsed.props[i].expr.s = s}
      Of(i) == Lesser(w[parsed.props[i].sym], VisibleIn(parsed.props[i], w))
  IN  {0} \cup {Of(i) : i \in selects}

(* Finalizing keeps what the files say: for symbols that are worth n or y, a
   prompt, a default or a select counts as much after the dependencies of
   the entry and of all entries around it have been joined and simplified
   as it does by the file.  (Not for m, which the simplifying rules do not
   keep.) *)
MeansWhatIsWritten(w) ==
  /\ \A i \in DOMAIN parsed.props :
        ValueIn(tree.props[i].vis, w) = VisibleIn(parsed.props[i], w)
  /\ \A s \in Named : tree.rev[s] # Nil =>
        ValueIn(tree.rev[s], w) = CHOOSE x \in HeldUp(s, w) : \A y \in HeldUp(s, w) : y <= x

VisibleAsWritten == phase = "done" => \A w \in Worth({0, 2}) : MeansWhatIsWritten(w)

(* menu_finalize moves entries below others and hands those of an entry
   without a prompt up; no entry is lost, doubled or moved past another. *)
OrderKept ==
  /\ Preorder(tree, 0) = Preorder(parsed, 0)
  /\ \A m \in DOMAIN tree.dep : m \in Range(tree.kids[tree.parent[m]])

(* menu_is_visible, for symbols worth w. *)
RECURSIVE Shown(_, _)
Shown(m, w) ==
  /\ tree.prompt[m] # 0
  /\ \/ ValueIn(PromptVis(tree, m), w) # 0
     \/ /\ SymOf(tree, m) # NoSym
        /\ w[SymOf(tree, m)] # 0
        /\ \E k \in Range(tree.kids[m]) : Shown(k, w)

(* What a symbol can be worth at most: what its prompts, its defaults and
   the symbols that select it allow. *)
Most(s, w) ==
  LET Limit(p) == Lesser(ValueIn(p.vis, w), IF p.kind = "default" THEN ValueIn(p.expr, w) ELSE 2)
  IN  {ValueIn(tree.rev[s], w) : r \in {tree.rev[s]} \ {Nil}}
        \cup {Limit(p) : p \in {q \in Range(tree.props) : q.sym = s /\ q.kind # "select"}}
Attainable(w) == \A s \in Symbols : w[s] = 0 \/ \E x \in Most(s, w) : w[s] <= x

(* menu_finalize keeps the order of the entries, and one the user may change
   is reached from the top: what it was moved below is shown whenever it is.
   (The files read no symbol that they do not define: menu_finalize takes
   x != n for x whatever x is.) *)
Complete ==
  LET read == UNION ({Range(Reads(parsed.dep[m])) : m \in DOMAIN parsed.dep}
                     \cup {Range(Reads(parsed.props[i].vis)) : i \in DOMAIN parsed.props})
  IN  \A s \in read \ Constants : Defined(s)
NothingHidden ==
  phase = "done" =>
    /\ OrderKept
    /\ Complete => \A w \in Worth(Levels) : Attainable(w) =>
         \A m \in DOMAIN tree.dep : Shown(m, w) => Shown(tree.parent[m], w)

(* A warning is given exactly when a symbol's value is computed from itself. *)
ReadBy(s) ==
  LET own == {p \in Range(tree.props) : p.sym = s /\ p.kind \notin {"choice", "select"}}
      defaults == {p \in own : p.kind = "default" /\ ~IsChoice(tree, s)}
      exprs == {tree.rev[s]} \cup {p.vis : p \in own} \cup {p.expr : p \in defaults}
  IN  Symbols \cap UNION {Range(Reads(e)) : e \in exprs}
RECURSIVE Closure(_)
Closure(S) == LET more == S \cup UNION {ReadBy(s) : s \in S}
              IN  IF more = S THEN S ELSE Closure(more)
CirclesTold ==
  phase = "done" =>
    (circles = {} <=> \A s \in Symbols : s \notin Closure(ReadBy(s)))
=============================================================================
