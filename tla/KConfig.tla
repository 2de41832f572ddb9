------------------------------ MODULE KConfig ------------------------------
(***************************************************************************)
(* Sessions of the configurators over one set of Kconfig files: mconf      *)
(* (kconfig/mconf.c), where the user walks through menus, and conf         *)
(* (kconfig/conf.c), which asks question after question; reading and       *)
(* writing of their files (kconfig/confdata.c).  A session may be killed   *)
(* between any two steps, the files stay.                                  *)
(*                                                                         *)
(* Every tool first parses the Kconfig files, to the same tree: KMenus     *)
(* does it once, before the first session.                                 *)
(*                                                                         *)
(* A file is a sequence of lines [s, v]: v is the value, "unset" for the   *)
(* line "# CONFIG_s is not set".                                           *)
(***************************************************************************)
EXTENDS KSymbols, KMenus

CONSTANTS Scenarios,     \* what is run: the tree parsed so far and the plan
                         \* of what follows it, the order of the hash table,
                         \* the files there are, how the tools are started
                         \* one after the other, and the bound on the keys
                         \* that set a value
          Answers,       \* what a user types for an int or a string
          Cuts(_)        \* bound: how many of its n lines a file may hold
                         \* when its writing failed

VARIABLES session,       \* how this tool was started: [how, overwrite, input]
          later,         \* how the next ones will be: a sequence of sets
          stage,         \* where the tool is
          mem,           \* its memory
          work,          \* the menus that are open, or the tasks of conf
          pass,          \* of conf: input_mode, rootEntry, conf_cnt # 0
          target,        \* the file that is being written
          disk,          \* the files
          ours,          \* the files that a conf_write has written
          touched,       \* the symbols whose marker file was touched since
                         \* auto.conf was put in place
          past,          \* what the files are measured by, see NothingPast
          left           \* of the keys

vars == <<parseVars, session, later, stage, mem, work, pass, target, disk, ours, touched, past, left>>
files == <<target, disk, ours, touched, past>>
fixed == <<parseVars, session, later>>

Absent == <<[s |-> "", v |-> "absent"]>>
Old(f) == IF f = ".config" THEN ".config.old" ELSE "alt.old"
Newest == IF disk[".config"] # Absent THEN disk[".config"] ELSE disk[".config.old"]

(* last: the last complete configuration that was put in place; slips: what
   has gone wrong with .config since, at most 2; auto: the lines that this
   conf_write_autoconf writes; cut: it has failed to write some. *)
NothingPast == [last |-> Newest, slips |-> 0, auto |-> <<>>, cut |-> FALSE]
Slipped(p) == IF target = ".config" THEN [p EXCEPT !.slips = Lesser(2, @ + 1)] ELSE p

(***************************************************************************)
(* conf_read_simple: the lines of a file become what the user has set.     *)
(***************************************************************************)
Reset(S) ==
  LET choices == DOMAIN tree.members
  IN  [S EXCEPT !.set = [s \in Symbols |-> s \in choices],
                !.valid = [s \in Symbols |-> FALSE],
                !.utri = [s \in Symbols |-> 0],
                !.utext = [s \in Symbols |-> Null],
                !.upick = [s \in Symbols |-> NoSym],
                !.dropped = FALSE]

Assign(S, line) ==
  LET s == line.s
      On(level) == [S EXCEPT !.set[s] = TRUE, !.utri[s] = level]
  IN  CASE tree.type[s] \in OnOff ->
             CASE line.v = "unset" \/ line.v = "n" -> On(0)
               [] line.v = "m" /\ tree.type[s] = "tri" -> On(1)
               [] line.v = "y" -> On(2)
               [] OTHER -> S
        [] tree.type[s] \in Texts /\ line.v # "unset" /\ StringValid(tree, s, line.v) ->
             [S EXCEPT !.set[s] = TRUE, !.utext[s] = line.v]
        [] OTHER -> S

\* Mutant of NoteMember: the choice does not note the member.
NoteMember_NoPick(S, s) ==
  LET c == ChoiceOf(tree, s)
      twice == S.utri[c] = 2 \/ (S.utri[c] = 1 /\ S.utri[s] = 2)
  IN  IF ~IsMember(tree, s) \/ S.utri[s] = 0 THEN S
      ELSE [S EXCEPT !.set[c] = S.set[c] /\ ~twice,
                     !.upick[c] = S.upick[c],
                     !.utri[c] = Greater(S.utri[c], S.utri[s])]

(* A member of a choice decides about the choice. *)
NoteMember(S, s) ==
  LET c == ChoiceOf(tree, s)
      twice == S.utri[c] = 2 \/ (S.utri[c] = 1 /\ S.utri[s] = 2)
  IN  IF ~IsMember(tree, s) \/ S.utri[s] = 0 THEN S
      ELSE [S EXCEPT !.set[c] = S.set[c] /\ ~twice,
                     !.upick[c] = IF S.utri[s] = 2 /\ ~twice THEN s ELSE S.upick[c],
                     !.utri[c] = Greater(S.utri[c], S.utri[s])]

ReadLine(S, line) ==
  IF line.s \notin Named THEN S
  ELSE NoteMember(IF S.set[line.s] THEN S ELSE Assign(S, line), line.s)

(* A line that gives rise to a warning leaves the configuration unsaved. *)
Warns(S, line) ==
  LET x == ReadLine(S, line)
      refused == ~x.set[line.s] /\ (tree.type[line.s] \in OnOff \/ line.v # "unset")
  IN  \/ line.s \notin Named
      \/ S.set[line.s]
      \/ refused /\ tree.type[line.s] # "unknown"
      \/ IsMember(tree, line.s) /\ S.set[ChoiceOf(tree, line.s)] # x.set[ChoiceOf(tree, line.s)]

ReadOne(x, line) == [mem |-> ReadLine(x.mem, line), unsaved |-> x.unsaved \/ Warns(x.mem, line)]
ModulesFirst(x) == [x EXCEPT !.mem = Calc(tree, x.mem, Modules)]
ReadSimple(S, lines) == ModulesFirst(FoldLeft(ReadOne, [mem |-> Reset(S), unsaved |-> FALSE], lines))

(* conf_read: what cannot be as the file says is not what the user set. *)
Agrees(S, s) ==
  IF S.set[s] /\ S.write[s]
  THEN IF tree.type[s] \in OnOff THEN S.utri[s] = S.tri[s] ELSE S.utext[s] = S.text[s]
  ELSE ~S.set[s] /\ ~S.write[s]

Keeps(c, s) == IF c.ok THEN c.mem ELSE [c.mem EXCEPT !.set[s] = FALSE, !.valid[s] = FALSE]
SettledOwn(S, s) ==
  LET hidden == [S EXCEPT !.set[s] = S.set[s] /\ S.vis[s] # 0]
  IN  CASE ~S.set[s] \/ IsMember(tree, s) -> S
        [] S.set[s] /\ ~IsMember(tree, s) /\ tree.type[s] \in Texts ->
             Keeps(StringCheck(tree, hidden, s, S.utext[s]), s)
        [] OTHER -> hidden

(* x is what S became; a choice whose visible members are not all set is not
   set either. *)
SettledChoice(S, x, s) ==
  LET all == IsChoice(tree, s) => \A k \in Range(tree.members[s]) : S.vis[k] # 0 => x.set[k]
      kept == x.set[s] /\ all
  IN  [x EXCEPT !.set[s] = kept, !.dropped = S.dropped \/ (S.vis[s] # 0 /\ kept # S.set[s])]

SettledSymbol(S, s, unsaved) ==
  [mem |-> SettledChoice(S, SettledOwn(S, s), s),
   unsaved |-> unsaved \/ ~(IsChoice(tree, s) \/ s = Modules \/ Agrees(S, s))]
ReadSymbol(x, s) == SettledSymbol(Calc(tree, x.mem, s), s, x.unsaved)
Counted(all) == [all.mem EXCEPT !.changed = @ \/ all.unsaved]
ConfRead(S, lines) ==
  IF lines = Absent THEN [S EXCEPT !.changed = FALSE]
  ELSE Counted(FoldLeft(ReadSymbol, ReadSimple([S EXCEPT !.changed = FALSE], lines), order))

(* conf_read(NULL) counts a missing file as a change. *)
ReadConfig(S) ==
  LET Missing(x) == [x EXCEPT !.changed = @ \/ disk[".config"] = Absent]
  IN  Missing(ConfRead(S, disk[".config"]))

(***************************************************************************)
(* conf_write: the lines, in the order of the menus, of every symbol once. *)
(***************************************************************************)
Line(S, s) ==
  LET level == S.tri[s]
  IN  CASE tree.type[s] \in OnOff -> [s |-> s, v |-> IF level = 0 THEN "unset" ELSE LevelName[level + 1]]
        [] tree.type[s] = "int" /\ S.text[s] = "" -> [s |-> s, v |-> "0"]
        [] OTHER -> [s |-> s, v |-> S.text[s]]

Lines(x, S, s) ==
  IF s \in x.done \/ tree.type[s] = "unknown" THEN x.lines ELSE Append(x.lines, Line(S, s))
WithLine(x, S, s) == [mem |-> S, done |-> x.done \cup {s}, lines |-> Lines(x, S, s)]
WriteEntry(x, m) ==
  CASE SymOf(tree, m) = NoSym -> [x EXCEPT !.mem = MenuVisible(tree, x.mem, m).mem]
    [] IsChoice(tree, SymOf(tree, m)) -> x
    [] OTHER -> WithLine(x, Calc(tree, x.mem, SymOf(tree, m)), SymOf(tree, m))
Written(S) ==
  FoldLeft(WriteEntry,
           [mem |-> IF S.changed THEN S ELSE ClearAll(tree, S), lines |-> <<>>, done |-> {}],
           Tail(Preorder(tree, 0)))

(***************************************************************************)
(* mconf.  Whatever a key changed, the list of the open menu is made anew  *)
(* before the next key is read: stage "show", then "menu".                 *)
(***************************************************************************)
Init ==
  /\ ParseInit
  /\ \E x \in Scenarios :
        /\ tree = x.tree /\ plan = x.plan /\ order = x.order
        /\ disk = x.disk /\ left = x.keys /\ later = x.sessions
  /\ session = [how |-> "parse", overwrite |-> FALSE, input |-> "user"]
  /\ stage = "parse"
  /\ mem = Unset(tree)
  /\ work = <<>>
  /\ pass = [mode |-> session.how, root |-> 0, again |-> FALSE]
  /\ target = ".config"
  /\ ours = {}
  /\ touched = {}
  /\ past = NothingPast

(* The entries of m that are visible. *)
NoteShown(x, v, k) == [mem |-> v.mem, list |-> IF v.ok THEN Append(x.list, k) ELSE x.list]
ShownKid(x, k) == NoteShown(x, MenuVisible(tree, x.mem, k), k)
ShownKids(S, m) == FoldLeft(ShownKid, [mem |-> S, list |-> <<>>], tree.kids[m])

RECURSIVE Build(_, _, _)
RECURSIVE BuildEach(_, _, _)
Listed(x, y) == [mem |-> y.mem, items |-> x.items \cup y.items]
BuildEach(x, list, open) ==
  IF list = <<>> THEN x
  ELSE BuildEach(Listed(x, Build(x.mem, Head(list), open)), Tail(list), open)

(* build_conf: what the list of the menu open shows of entry m and below.
   Tag "m" opens a menu, "t" is a switch, "s" a text, ":" only shown. *)
One(S, m, tag) == [mem |-> S, items |-> {[at |-> m, tag |-> tag]}]
BuildTitle(S, m, open) ==
  LET kind == tree.props[tree.prompt[m]].kind
  IN  CASE m = open -> BuildEach([mem |-> S, items |-> {}], tree.kids[m], open)
        [] m # open /\ kind = "menu" -> One(S, m, "m")
        [] OTHER -> BuildEach(One(S, m, ":"), tree.kids[m], open)

(* A choice shows, when it is on, only what is below the member taken. *)
Taken(x, s) == SelectSeq(x.list, LAMBDA k : SymOf(tree, k) = x.mem.pick[s])
BuildChoice(x, m, open) ==
  LET s == SymOf(tree, m)
      tag == IF Changable(x.mem, s) \/ Taken(x, s) # <<>> THEN "t" ELSE ":"
      below == IF x.mem.tri[s] # 2 THEN tree.kids[m]
               ELSE SelectSeq(Taken(x, s), LAMBDA k : tree.kids[k] # <<>>)
  IN  BuildEach(One(x.mem, m, tag), below, open)

BuildSymbol(S, m, open) ==
  LET s == SymOf(tree, m)
      tag == CASE m = open \/ (IsMember(tree, s) /\ S.tri[s] = 2) -> ":"
               [] tree.type[s] \notin OnOff -> "s"
               [] OTHER -> "t"
      closed == m # open /\ tag # "s" /\ tree.props[tree.prompt[m]].kind = "menu"
  IN  BuildEach(One(S, m, tag), IF closed THEN <<>> ELSE tree.kids[m], open)

BuildVisible(v, m, open) ==
  CASE ~v.ok -> [mem |-> v.mem, items |-> {}]
    [] v.ok /\ SymOf(tree, m) = NoSym -> BuildTitle(v.mem, m, open)
    [] v.ok /\ IsChoice(tree, SymOf(tree, m)) -> BuildChoice(ShownKids(v.mem, m), m, open)
    [] OTHER -> BuildSymbol(v.mem, m, open)
Build(S, m, open) == BuildVisible(MenuVisible(tree, S, m), m, open)

Items(S, open) == Build(S, open, open)
Open == Last(work)
InMenu == stage = "menu"
Stay == UNCHANGED <<fixed, left, files, pass>>
Spend == left > 0 /\ left' = left - 1 /\ UNCHANGED <<fixed, files, pass>>

(* conf(menu) goes on with S: at the head of its loop the list is made. *)
Back(S) == mem' = S /\ stage' = "show" /\ UNCHANGED work
Enter(S, m) == mem' = S /\ stage' = "show" /\ work' = Append(work, m)
Show ==
  stage = "show" /\ stage' = "menu" /\ mem' = Items(mem, Open).mem /\ UNCHANGED work /\ Stay

(* main of mconf, S being what conf_read has left *)
StartMenus(S) == session.how = "mconf" /\ Enter(S, 0) /\ Stay

(* Enter, on a menu and on a choice that is on: the radio list. *)
EnterMenu(i) ==
  /\ InMenu /\ Len(work) < Len(tree.dep)
  /\ \/ i.tag = "m"
     \/ /\ i.tag = "t" /\ tree.props[tree.prompt[i.at]].kind = "menu"
        /\ ~(IsChoice(tree, SymOf(tree, i.at)) /\ mem.tri[SymOf(tree, i.at)] = 2)
  /\ Enter(mem, i.at) /\ Stay

SetMember(S, c) == IF CanSetTri(tree, S, c, 2) THEN SetTri(tree, S, c, 2) ELSE S
PickOne(i, k) ==
  /\ InMenu /\ i.tag = "t" /\ IsChoice(tree, SymOf(tree, i.at)) /\ mem.tri[SymOf(tree, i.at)] = 2
  /\ SymOf(tree, k) # NoSym
  /\ \E shown \in {ShownKids(mem, i.at)} :
       k \in Range(shown.list) /\ Back(SetMember(shown.mem, SymOf(tree, k)))
  /\ Spend

(* y, m, n and space; y means m where y is not possible. *)
KeyLevels(s) ==
  {0, 1, Toggled(tree, mem, s), IF CanSetTri(tree, mem, s, 2) THEN 2 ELSE 1}
PressKey(i, level) ==
  /\ InMenu /\ i.tag = "t" /\ level \in KeyLevels(SymOf(tree, i.at))
  /\ CanSetTri(tree, mem, SymOf(tree, i.at), level)
  /\ Back(SetTri(tree, mem, SymOf(tree, i.at), level)) /\ Spend

TypeText(i, x) ==
  InMenu /\ i.tag = "s" /\ Back(SetString(tree, mem, SymOf(tree, i.at), x).mem) /\ Spend

LoadAlternate ==
  InMenu /\ work = <<0>> /\ Back(ConfRead(mem, disk["alt"])) /\ Stay

SaveAlternate ==
  /\ InMenu /\ work = <<0>>
  /\ left > 0 /\ left' = left - 1
  /\ stage' = "open" /\ target' = "alt"
  /\ UNCHANGED <<fixed, mem, work, pass, disk, ours, touched, past>>

(* Esc leaves the menu; after the first menu it asks whether to save. *)
Leave ==
  /\ InMenu /\ work' = Front(work) /\ UNCHANGED mem
  /\ stage' = IF Len(work) = 1 THEN "confirm" ELSE "show"
  /\ Stay

Confirm(answer) ==
  /\ stage = "confirm"
  /\ CASE answer = "yes" -> stage' = "open" /\ target' = ".config" /\ UNCHANGED <<mem, work>>
       [] answer = "no" -> stage' = "end" /\ UNCHANGED <<mem, work, target>>
       [] answer = "esc" -> Enter(mem, 0) /\ UNCHANGED target
  /\ UNCHANGED <<fixed, left, pass, disk, ours, touched, past>>

(***************************************************************************)
(* conf_write, one call that changes the disk at a time.                   *)
(***************************************************************************)
Output == IF session.overwrite THEN target ELSE ".tmpconfig"
Reading == UNCHANGED <<fixed, left, pass, touched>>

(* What follows a conf_write that failed or succeeded. *)
AfterWrite(ok) ==
  CASE session.how = "mconf" /\ target = "alt" -> "show"
    [] ok /\ pass.mode = "ask_silent" -> "autoconf"
    [] OTHER -> "end"

(* Writing in place, the file that is there is gone. *)
OpenOutput ==
  /\ stage = "open"
  /\ stage' = "write" /\ disk' = [disk EXCEPT ![Output] = <<>>]
  /\ ours' = ours \ {Output}
  /\ past' = IF Output = ".config" THEN [past EXCEPT !.slips = 2] ELSE past
  /\ Reading /\ UNCHANGED <<mem, work, target>>

CannotOpen ==
  /\ stage = "open" /\ stage' = AfterWrite(FALSE)
  /\ Reading /\ UNCHANGED <<mem, work, target, disk, ours, past>>

(* What becomes of a file when lines are written to it: nobody asks whether
   that has worked. *)
Short(lines) == {SubSeq(lines, 1, n) : n \in Cuts(Len(lines)) \cap 0 .. Len(lines) - 1}
Whole(lines) ==
  /\ disk' = [disk EXCEPT ![Output] = lines] /\ ours' = ours \cup {Output}
  /\ past' = IF Output = ".config" THEN [past EXCEPT !.last = lines, !.slips = 0] ELSE past
Torn(lines) ==
  /\ \E some \in Short(lines) : disk' = [disk EXCEPT ![Output] = some]
  /\ past' = Slipped(past) /\ UNCHANGED ours

WriteLines ==
  /\ stage = "write"
  /\ \E w \in {Written(mem)} :
       /\ Whole(w.lines) \/ Torn(w.lines)
       /\ mem' = [w.mem EXCEPT !.changed = @ /\ ~session.overwrite]
  /\ stage' = IF session.overwrite THEN AfterWrite(TRUE) ELSE "keep"
  /\ Reading /\ UNCHANGED <<work, target>>

(* rename(old, new), which changes nothing when there is no old *)
Moved(from, to) == IF disk[from] = Absent THEN disk ELSE [disk EXCEPT ![to] = disk[from], ![from] = Absent]
OursMoved(from, to) ==
  CASE disk[from] = Absent -> ours
    [] from \in ours -> (ours \ {from}) \cup {to}
    [] OTHER -> ours \ {from, to}

\* Mutant of KeepOld: the old file is not kept.
KeepOld_Removes ==
  /\ stage = "keep" /\ stage' = "rename"
  /\ disk' = [disk EXCEPT ![target] = Absent] /\ ours' = OursMoved(target, Old(target))
  /\ Reading /\ UNCHANGED <<mem, work, target, past>>

(* The first rename.  When it fails conf_write goes on all the same. *)
KeepOld ==
  /\ stage = "keep" /\ stage' = "rename"
  /\ \/ disk' = Moved(target, Old(target)) /\ ours' = OursMoved(target, Old(target)) /\ UNCHANGED past
     \/ disk[target] # Absent /\ past' = Slipped(past) /\ UNCHANGED <<disk, ours>>
  /\ Reading /\ UNCHANGED <<mem, work, target>>

PutNew ==
  /\ stage = "rename" /\ stage' = AfterWrite(TRUE)
  /\ disk' = Moved(Output, target) /\ ours' = OursMoved(Output, target)
  /\ past' = IF target = ".config" /\ Output \in ours
              THEN [past EXCEPT !.last = disk[Output], !.slips = 0] ELSE past
  /\ mem' = [mem EXCEPT !.changed = FALSE]
  /\ Reading /\ UNCHANGED <<work, target>>

(* The second rename fails. *)
CannotPut ==
  /\ stage = "rename" /\ stage' = AfterWrite(FALSE)
  /\ past' = Slipped(past)
  /\ Reading /\ UNCHANGED <<mem, work, target, disk, ours>>

(***************************************************************************)
(* conf.  A pass over the menus is a list of tasks: "conf" and "check" are *)
(* the functions conf and check_conf of an entry, "ask" and "pick" the     *)
(* question for the value of a symbol and for the member of a choice.      *)
(***************************************************************************)
Tasks(do, list) == [i \in DOMAIN list |-> [do |-> do, at |-> list[i], new |-> FALSE]]
Task(do, m, new) == <<[do |-> do, at |-> m, new |-> new]>>
Asking == {"ask_all", "ask_new", "ask_silent"}
Unattended == {"set_yes", "set_mod", "set_no", "set_default", "set_random"}

Conf == UNCHANGED <<fixed, left, files>>
Todo(tasks, S) == mem' = S /\ work' = tasks \o Tail(work) /\ UNCHANGED <<stage, pass>>
Top == Head(work)
Doing(do) == stage = "ask" /\ work # <<>> /\ Top.do = do

(* What is read first.  The modes that set everything read no file of their
   own here, and set_default starts from defconfig. *)
ReadFirst ==
  CASE session.how \in Asking \cup {"mconf"} -> ReadConfig(mem)
    [] session.how = "set_default" -> ConfRead(mem, disk["defconfig"])
    [] OTHER -> mem

(* main of conf: where each mode goes on. *)
StartConf(S) ==
  LET none == \/ session.how = "ask_silent" /\ disk[".config"] = Absent
              \/ session.how = "set_default" /\ disk["defconfig"] = Absent
      checks == session.how = "ask_silent"
  IN  /\ session.how # "mconf" /\ mem' = S
      /\ CASE none -> stage' = "end" /\ UNCHANGED work
           [] ~none /\ checks /\ ~S.changed -> stage' = "autoconf" /\ UNCHANGED work
           [] OTHER -> stage' = "ask" /\ work' = Task(IF checks THEN "check" ELSE "conf", 0, FALSE)
      /\ pass' = [pass EXCEPT !.again = ~checks]
      /\ UNCHANGED <<fixed, left, files>>

StartTool == stage = "start" /\ \E S \in {ReadFirst} : StartMenus(S) \/ StartConf(S)

(* conf(menu); what follows the value of a choice is in AfterValue. *)
AfterValue(S, m, new) ==
  LET s == SymOf(tree, m)
  IN  CASE ~IsChoice(tree, s) \/ S.tri[s] = 1 -> Tasks("conf", tree.kids[m])
        [] S.tri[s] = 2 -> Task("pick", m, new)
        [] S.tri[s] = 0 -> <<>>

DoConf ==
  LET m == Top.at
      s == SymOf(tree, m)
      checked == tree.props[tree.prompt[m]].kind = "menu" /\ pass.mode = "ask_silent" /\ pass.root # m
      Then(S) == CASE checked -> Task("check", m, FALSE)
                    [] ~checked /\ s = NoSym -> Tasks("conf", tree.kids[m])
                    [] ~checked /\ s # NoSym /\ IsChoice(tree, s) /\ ~Changable(S, s) ->
                         AfterValue(S, m, ~S.set[s])
                    [] OTHER -> Task("ask", m, ~S.set[s])
  IN  /\ Doing("conf") /\ Conf
      /\ \E v \in {MenuVisible(tree, mem, m)} : Todo(IF v.ok THEN Then(v.mem) ELSE <<>>, v.mem)

(* conf_askvalue: whether the value of s is asked for.  Where the input has
   ended, or is no terminal, ask_silent gives up and the others take what
   there is. *)
Asked(S, s) == Changable(S, s) /\ (pass.mode = "ask_all" \/ (pass.mode \in Asking /\ ~S.set[s]))
User == session.input = "user"
Refuses(asked) == asked /\ session.how = "ask_silent" /\ ~User

(* The levels the answer for a bool or tristate may be. *)
Levels3 == 0 .. 2
Replies(S, s) ==
  LET tri == TypeNow(tree, S, s) = "tri"
      wanted == CASE pass.mode = "set_yes" -> IF tri THEN <<2, 1, 0>> ELSE <<2, 0>>
                  [] pass.mode = "set_mod" -> IF tri THEN <<1, 0>> ELSE <<2, 0>>
                  [] pass.mode = "set_no" -> <<0>>
                  [] OTHER -> <<>>
      possible == SelectSeq(wanted, LAMBDA x : WithinRange(tree, S, s, x))
  IN  CASE Asked(S, s) /\ User -> Levels3
        [] ~Changable(S, s) \/ S.set[s] \/ pass.mode \in Asking \cup {"set_default"} -> {S.tri[s]}
        [] possible # <<>> -> {possible[1]}
        [] OTHER -> {x \in Levels3 : WithinRange(tree, S, s, x)}

(* conf_sym: an answer that cannot be is asked for again. *)
Known(S, s) == IF IsChoice(tree, s) THEN Calc(tree, S, s) ELSE S
AskLevel(x) ==
  LET s == SymOf(tree, Top.at)
  IN  /\ Doing("ask") /\ tree.type[s] \in OnOff /\ ~Refuses(Asked(mem, s))
      /\ x \in Replies(mem, s) /\ CanSetTri(tree, mem, s, x)
      /\ \E S \in {Known(SetTri(tree, mem, s, x), s)} : Todo(AfterValue(S, Top.at, Top.new), S)
      /\ Conf

(* conf_string *)
Typed(s) == {mem.text[s]} \cup (IF Asked(mem, s) /\ User THEN Answers ELSE {})
AskText(x) ==
  LET s == SymOf(tree, Top.at)
  IN  /\ Doing("ask") /\ tree.type[s] \in Texts /\ ~Refuses(Asked(mem, s))
      /\ x \in Typed(s)
      /\ \E c \in {SetString(tree, mem, s, x)} : c.ok /\ Todo(Tasks("conf", tree.kids[Top.at]), c.mem)
      /\ Conf

(* The value a text has is none that it may be given, and nobody is there to
   type another: conf_string asks again, and again. *)
Hopeless ==
  /\ Doing("ask")
  /\ LET s == SymOf(tree, Top.at)
     IN  /\ tree.type[s] \in Texts /\ ~Refuses(Asked(mem, s))
         /\ Typed(s) = {mem.text[s]} /\ ~SetString(tree, mem, s, mem.text[s]).ok
AskAgain == Hopeless /\ UNCHANGED vars

(* conf_choice, from the list on: of what lies below the member that is
   taken only the first entry is visited. *)
Members(x) == SelectSeq(x.list, LAMBDA k : SymOf(tree, k) # NoSym)
AsksMember == pass.mode = "ask_all" \/ (pass.mode \in Asking /\ Top.new)
AskMember(k) ==
  LET m == Top.at
      c == SymOf(tree, k)
      free == (AsksMember /\ User) \/ pass.mode = "set_random"
      Possible(members, S) ==
        /\ k \in Range(members)
        /\ Len(members) = 1 \/ (~Refuses(AsksMember) /\ (free \/ c = S.pick[SymOf(tree, m)]))
  IN  /\ Doing("pick") /\ Conf
      /\ \E shown \in {ShownKids(mem, m)} :
           /\ Possible(Members(shown), shown.mem)
           /\ Todo(Tasks("conf", SubSeq(tree.kids[k], 1, Lesser(1, Len(tree.kids[k])))), SetMember(shown.mem, c))

(* check_stdin *)
Abort ==
  /\ \/ Doing("ask") /\ Refuses(Asked(mem, SymOf(tree, Top.at)))
     \/ Doing("pick") /\ Refuses(AsksMember) /\ Len(Members(ShownKids(mem, Top.at))) # 1
  /\ stage' = "end" /\ Conf /\ UNCHANGED <<mem, work, pass>>

(* menu_get_parent_menu *)
RECURSIVE ParentMenu(_)
ParentMenu(m) == IF m = 0 \/ tree.props[tree.prompt[m]].kind = "menu" THEN m ELSE ParentMenu(tree.parent[m])

(* check_conf: a symbol that has no value yet is asked for with its menu. *)
Unanswered(S, s) == s # NoSym /\ ~S.set[s] /\ (Changable(S, s) \/ (IsChoice(tree, s) /\ S.tri[s] = 2))
DoCheck ==
  LET m == Top.at
      New(S) == Unanswered(S, SymOf(tree, m))
      below == Tasks("check", tree.kids[m]) \o Tail(work)
  IN  /\ Doing("check") /\ Conf /\ UNCHANGED stage
      /\ \E v \in {MenuVisible(tree, mem, m)} :
           /\ mem' = v.mem
           /\ work' = CASE ~v.ok -> Tail(work)
                        [] v.ok /\ New(v.mem) -> Task("conf", ParentMenu(m), FALSE) \o below
                        [] OTHER -> below
           /\ pass' = IF v.ok /\ New(v.mem) THEN [pass EXCEPT !.root = ParentMenu(m), !.again = TRUE] ELSE pass

\* Mutant of EndOfPass: the count of a pass is not reset.
EndOfPass_Again ==
  /\ stage = "ask" /\ work = <<>> /\ Conf /\ UNCHANGED mem
  /\ IF pass.again
     THEN /\ work' = Task("check", 0, FALSE)
          /\ pass' = [pass EXCEPT !.mode = IF @ = "ask_all" THEN "ask_silent" ELSE @]
          /\ UNCHANGED stage
     ELSE stage' = "open" /\ UNCHANGED <<work, pass>>

(* The end of a pass: what is still without a value is looked for until a
   pass has found nothing; then the configuration is written. *)
EndOfPass ==
  /\ stage = "ask" /\ work = <<>> /\ Conf /\ UNCHANGED mem
  /\ IF pass.again
     THEN /\ work' = Task("check", 0, FALSE)
          /\ pass' = [pass EXCEPT !.again = FALSE, !.mode = IF @ = "ask_all" THEN "ask_silent" ELSE @]
          /\ UNCHANGED stage
     ELSE stage' = "open" /\ UNCHANGED <<work, pass>>

(***************************************************************************)
(* conf_write_autoconf: the marker file of every symbol that is not as in  *)
(* the last auto.conf, then the header, then auto.conf.                    *)
(***************************************************************************)
HasNone(S, s) ==
  \/ s \notin Named \/ ~S.write[s] \/ tree.type[s] = "unknown"
  \/ tree.type[s] \in OnOff /\ S.tri[s] = 0
AutoLine(S, s) == IF tree.type[s] \in OnOff THEN Line(S, s) ELSE [s |-> s, v |-> S.text[s]]
WithAuto(lines, S, s) ==
  [mem |-> S, lines |-> IF HasNone(S, s) THEN lines ELSE Append(lines, AutoLine(S, s))]
AddAuto(x, s) == WithAuto(x.lines, Calc(tree, x.mem, s), s)
AutoLines(S) == FoldLeft(AddAuto, [mem |-> S, lines |-> <<>>], order)

ClearUnlessFirst(S) ==
  IF disk["auto.conf"] = Absent THEN S
  ELSE Calc(tree, [S EXCEPT !.valid = [s \in Symbols |-> FALSE]], Modules)
StartAutoconf ==
  /\ stage = "autoconf" /\ stage' = "mark"
  /\ mem' = ClearUnlessFirst(ClearAll(tree, mem))
  /\ work' = order
  /\ UNCHANGED <<fixed, left, pass, files>>

(* conf_split_config, one symbol: v is its value, "n" when it has none *)
ValueOf(lines, s) ==
  LET own == SelectSeq(lines, LAMBDA l : l.s = s) IN IF own = <<>> THEN "n" ELSE own[1].v

\* Mutant of Mark: a symbol that is no longer written has its marker left alone.
Mark_NewOnly ==
  LET s == Head(work)
      old == disk["auto.conf"]
      wasThere == \E i \in DOMAIN old : old[i].s = s
      Differs(y) ==
        CASE y.write[s] /\ wasThere -> TextOf(tree, y, s) # ValueOf(old, s)
          [] y.write[s] /\ ~wasThere -> tree.type[s] \notin OnOff \/ y.tri[s] # 0
          [] OTHER -> FALSE
  IN  /\ stage = "mark" /\ work # <<>>
      /\ \E y \in {Calc(tree, mem, s)} :
           mem' = y /\ touched' = touched \cup (IF s \in Named /\ Differs(y) THEN {s} ELSE {})
      /\ work' = Tail(work)
      /\ UNCHANGED <<fixed, left, stage, pass, target, disk, ours, past>>

Mark ==
  LET s == Head(work)
      old == disk["auto.conf"]
      wasThere == \E i \in DOMAIN old : old[i].s = s
      Differs(y) ==
        CASE y.write[s] /\ wasThere -> TextOf(tree, y, s) # ValueOf(old, s)
          [] y.write[s] /\ ~wasThere -> tree.type[s] \notin OnOff \/ y.tri[s] # 0
          [] OTHER -> wasThere
  IN  /\ stage = "mark" /\ work # <<>>
      /\ \E y \in {Calc(tree, mem, s)} :
           mem' = y /\ touched' = touched \cup (IF s \in Named /\ Differs(y) THEN {s} ELSE {})
      /\ work' = Tail(work)
      /\ UNCHANGED <<fixed, left, stage, pass, target, disk, ours, past>>

(* Both files are written at once, and each may be cut. *)
WriteAuto ==
  /\ stage = "mark" /\ work = <<>> /\ stage' = "header"
  /\ \E w \in {AutoLines(mem)} : \E some, header \in {w.lines} \cup Short(w.lines) :
       /\ mem' = w.mem
       /\ disk' = [disk EXCEPT ![".tmpconfig"] = some, ![".tmpconfig.h"] = header]
       /\ past' = [past EXCEPT !.auto = w.lines, !.cut = {some, header} # {w.lines}]
  /\ ours' = ours \ {".tmpconfig"}
  /\ UNCHANGED <<fixed, left, work, pass, target, touched>>

PutHeader ==
  /\ stage = "header" /\ stage' = "last"
  /\ disk' = Moved(".tmpconfig.h", "autoconf.h")
  /\ UNCHANGED <<fixed, left, mem, work, pass, target, ours, touched, past>>

PutAuto ==
  /\ stage = "last" /\ stage' = "end"
  /\ disk' = Moved(".tmpconfig", "auto.conf")
  /\ touched' = {}
  /\ UNCHANGED <<fixed, left, mem, work, pass, target, ours, past>>

(* A file that cannot be made or renamed ends the call with an error. *)
AutoconfFails ==
  stage \in {"mark", "header", "last"} /\ stage' = "end" /\ UNCHANGED <<fixed, left, mem, work, pass, files>>

(***************************************************************************)
(* A tool ends or is killed, and another one is started.  Before it writes *)
(* a kill leaves what quitting without saving leaves.                      *)
(***************************************************************************)
Follows(how) ==
  /\ session' = how /\ later' = Tail(later) /\ stage' = "start"
  /\ mem' = Unset(tree) /\ work' = <<>> /\ target' = ".config"
  /\ pass' = [mode |-> how.how, root |-> 0, again |-> FALSE]
  /\ phase' = "used"
  /\ UNCHANGED <<plan, order, tree, parsed, circles, left, disk, ours, touched>>

Following(p) ==
  /\ later # <<>> /\ \E how \in Head(later) : Follows(how)
  /\ past' = [p EXCEPT !.auto = <<>>, !.cut = FALSE]
Killed ==
  /\ stage \in {"write", "keep", "rename", "mark", "header", "last"}
  /\ Following(IF stage = "rename" THEN Slipped(past) ELSE past)
StartedFirst == phase = "done" /\ Following(past)
StartedAgain == stage = "end" /\ Following(past)
AllDone == (stage = "end" \/ phase = "done") /\ UNCHANGED vars

Mconf ==
  \/ Show \/ LoadAlternate \/ SaveAlternate \/ Leave
  \/ InMenu /\ \E i \in Items(mem, Open).items :
       \/ EnterMenu(i)
       \/ \E k \in Range(tree.kids[i.at]) : PickOne(i, k)
       \/ \E level \in Levels3 : PressKey(i, level)
       \/ \E x \in Answers : TypeText(i, x)
  \/ \E answer \in {"yes", "no", "esc"} : Confirm(answer)

Question ==
  \/ DoConf \/ DoCheck \/ EndOfPass \/ AskAgain \/ Abort
  \/ stage = "ask" /\ work # <<>> /\
       \/ \E x \in Levels3 : AskLevel(x)
       \/ \E x \in {mem.text[s] : s \in Symbols} \cup Answers : AskText(x)
       \/ \E k \in Range(tree.kids[Top.at]) : AskMember(k)

Write == OpenOutput \/ CannotOpen \/ WriteLines \/ KeepOld \/ PutNew \/ CannotPut
Autoconf == StartAutoconf \/ Mark \/ WriteAuto \/ PutHeader \/ PutAuto \/ AutoconfFails

ReadFiles == Parse /\ UNCHANGED <<session, later, stage, mem, work, pass, files, left>>
Starts == StartedFirst \/ StartedAgain \/ Killed

Next == ReadFiles \/ Starts \/ StartTool \/ Mconf \/ Question \/ Write \/ Autoconf \/ AllDone

(* conf goes on by itself, and who is asked answers in the end; a key of
   mconf or a kill is never owed.  This is WF_vars(Question): while conf
   asks only Question leads on, and but for a hopeless question it is never
   disabled then (the model would deadlock).  Spelled out because TLC
   evaluates ENABLED of the long computations of Question without caching
   what they share. *)
Asks == stage = "ask"
FairQuestion == []<>(~Asks \/ Hopeless) \/ []<><<Asks>>_vars
Spec == Init /\ [][Next]_vars /\ FairQuestion

(***************************************************************************)
(* Properties.                                                             *)
(***************************************************************************)

(* What a symbol is worth, computed with nothing cached. *)
Fresh(S) == CalcEach(tree, ClearAll(tree, S), order)
Shows(S, s) == IF IsChoice(tree, s) THEN <<LevelName[S.tri[s] + 1], S.pick[s]>> ELSE <<TextOf(tree, S, s), S.text[s]>>

(* Between two keys no cached value is out of date: whatever was set,
   loaded, or left as it was, a symbol that is marked valid has the value,
   and the visibility, that computing everything anew would give it.  (Not
   so right after a file was read whose number is out of its range, or that
   has no line for a visible member of a choice: conf_read then drops what
   was set after others have computed with it; nor when the user types the
   number that was dropped, which sym_set_string_value takes for no change.) *)
CachesAreFresh ==
  LET AsIn(F) == \A s \in Symbols : mem.valid[s] => Shows(mem, s) = Shows(F, s) /\ mem.vis[s] = F.vis[s]
  IN  stage \in {"menu", "ask", "confirm"} /\ ~mem.dropped => AsIn(Fresh(mem))

(* A choice that is y has exactly one member that is y and the user may
   see, and a choice that is not y has none. *)
OneMember ==
  LET ChosenOf(F, c) == {k \in Range(tree.members[c]) : F.vis[k] # 0 /\ F.tri[k] = 2}
      OneIn(F) == \A c \in DOMAIN tree.members : Cardinality(ChosenOf(F, c)) = IF F.tri[c] = 2 THEN 1 ELSE 0
  IN  stage \in {"menu", "ask", "confirm"} => OneIn(Fresh(mem))

(* A file that conf_write wrote is read back as what was saved, by another
   process and, as mconf.c:126-130 promises, into the settings of the moment:
   saving right after reading writes the same lines. *)
SavedIsRead ==
  \A f \in ours : \A S \in {Unset(tree), mem} : Written(ConfRead(S, disk[f])).lines = disk[f]

(* The last complete configuration is there, under its name or under
   .config.old, unless two things went wrong since it was put in place: a
   write that failed, a rename that failed, a tool killed between the two
   renames.  conf_write looks at neither what it wrote (confdata.c:444-556)
   nor the first rename (confdata.c:561): once it puts a torn .config in
   place but the whole one is .config.old; at the next failure both may be
   torn, and saving again moves the torn file over the whole one, which until
   the last rename only .tmpconfig makes up for.  With nothing wrong it is
   the newest file.  Where the user chose to write in place nothing is said
   until that file is whole again. *)
ConfigSurvives ==
  LET replaced == past.slips = 1 /\ stage = "rename" /\ target = ".config" /\ ".tmpconfig" \in ours
  IN  /\ past.last # Absent /\ past.slips < 2 => past.last \in {disk[".config"], disk[".config.old"]} \/ replaced
      /\ past.slips = 0 => Newest = past.last

(* auto.conf, which make compares everything with, is put in place last:
   then it says what this run found, the header says the same, and the marker
   file of every symbol whose value is another than in the old auto.conf has
   been touched, be it by an earlier run that failed or was killed.  Only the
   markers are sure when lines could not be written: nobody looks
   (confdata.c:704-788), and auto.conf marks the success of steps that have
   failed. *)
AutoconfIsLast ==
  [][disk'["auto.conf"] # disk["auto.conf"] =>
        /\ past.cut \/ (disk'["auto.conf"] = past.auto /\ disk'["autoconf.h"] = past.auto)
        /\ \A s \in Named : ValueOf(disk["auto.conf"], s) # ValueOf(past.auto, s) => s \in touched]_vars

(* Of what lies below a member of a choice conf_choice visits the first entry
   alone (conf.c:389); check_conf looks at them all. *)
Buried ==
  \E k \in DOMAIN tree.kids : SymOf(tree, k) # NoSym /\ IsMember(tree, SymOf(tree, k)) /\
    \E j \in 2 .. Len(tree.kids[k]) : \E m \in Range(Preorder(tree, tree.kids[k][j])) :
      Unanswered(mem, SymOf(tree, m))

(* A configurator that asks stops asking, but in two cases: a question that
   cannot be answered (conf.c:176-202), and an entry that has no value below
   a member of a choice and not first there, for which the loop at
   conf.c:612-615 looks in vain, pass after pass. *)
QuestionsEnd == Asks ~> (~Asks \/ Hopeless \/ Buried)
=============================================================================
