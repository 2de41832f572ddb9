------------------------------ MODULE MCKConfig ------------------------------
EXTENDS KConfig, TLC

MCSymbols == {"a", "b", "d", "e", "t", "c", "n", "lo", "g", "s", "mods", "MODULES"}
MCNumber == "0" :> 0 @@ "1" :> 1 @@ "3" :> 3 @@ "9" :> 9
MCTypeOf == "a" :> "bool" @@ "b" :> "bool" @@ "t" :> "tri"

(* Trees that were parsed before. *)
Item(t, s, type, dep) == AddPrompt(AddDep(SetType(AddConfig(t, s), type), dep), "prompt", Nil)

(* MODULES; a; b depends on a and selects d; d and e have no prompts. *)
Selects ==
  LET m == Item(Start, "MODULES", "bool", Nil)
      a == Item(m, "a", "tri", Nil)
      b == AddSelect(Item(a, "b", "tri", Sym("a")), "d", Nil)
      d == SetType(AddConfig(b, "d"), "tri")
  IN  AddDefault(SetType(AddConfig(d, "e"), "bool"), Sym("d"), Ne("d", "n"))

(* A choice of a and, when there are modules, b, with d below a, in a menu. *)
Chooses(type) ==
  LET m == Item(Start, "MODULES", "bool", Nil)
      u == AddMenu(AddPrompt(AddEntry(m, NoSym), "menu", Nil))
      c == AddMenu(AddPrompt(SetType(AddChoice(u, "c"), type), "prompt", Nil))
      a == Item(c, "a", type, Nil)
      b == EndMenu(Item(a, "b", type, Sym("MODULES")))
  IN  EndMenu(Item(b, "d", "bool", Sym("a")))

(* n is a number from lo to 9, lo another that follows it; s is what n says. *)
Numbers ==
  LET l == AddDefault(Item(Start, "lo", "int", Nil), Sym("1"), Nil)
      n == AddRange(AddDefault(Item(l, "n", "int", Nil), Sym("3"), Nil), "lo", "9", Nil)
      g == Item(n, "g", "bool", Ne("n", "lo"))
  IN  AddDefault(Item(g, "s", "text", Sym("g")), Sym("n"), Nil)

(* A choice of a and b; below a there are d and e. *)
Deep ==
  LET c == AddMenu(AddPrompt(SetType(AddChoice(Start, "c"), "bool"), "prompt", Nil))
      d == Item(Item(c, "a", "bool", Nil), "d", "bool", Sym("a"))
  IN  EndMenu(Item(Item(d, "e", "bool", Sym("a")), "b", "bool", Nil))

(* n has no default: its text is none that it may be given. *)
Empty == Item(Item(Start, "g", "bool", Nil), "n", "int", Nil)

NoFiles == [f \in {".config", ".config.old", "alt", "alt.old", ".tmpconfig", ".tmpconfig.h",
                    "autoconf.h", "auto.conf", "defconfig"} |-> Absent]
Holding(lines) == [NoFiles EXCEPT ![".config"] = lines]
On(s) == [s |-> s, v |-> "y"]
Four == <<On("a"), On("b"), On("d"), On("e")>>
(* As an earlier run of conf has left the files. *)
Made(lines) ==
  [f \in DOMAIN NoFiles |-> IF f \in {".config", "auto.conf", "autoconf.h"} THEN lines ELSE Absent]

Up == <<"MODULES", "n", "lo", "g", "s", "a", "b", "t", "c", "d", "e", "mods">>
Down == Reverse(Up)
Tools(hows) == {[how |-> h, overwrite |-> FALSE, input |-> "user"] : h \in hows}
Piped(hows) == {[how |-> h, overwrite |-> FALSE, input |-> "ended"] : h \in hows}
InPlace == {[how |-> "mconf", overwrite |-> TRUE, input |-> "user"]}
Menus == Tools({"mconf"})
Silent == Tools({"ask_silent"})
Run(raw, found, sorted, keys, sessions) ==
  [tree |-> raw, plan |-> <<>>, disk |-> found, keys |-> keys, sessions |-> sessions, order |-> sorted]
Sessions ==
  { Run(Selects, NoFiles, Up, 3, <<Menus>>),
    Run(Chooses("bool"), NoFiles, Down, 3, <<Menus>>),
    Run(Chooses("tri"), NoFiles, Up, 3, <<Menus>>),
    Run(Numbers, NoFiles, Down, 3, <<Menus>>),
    Run(Numbers, Holding(<<[s |-> "n", v |-> "0"]>>), Up, 2, <<InPlace>>),
    Run(Selects, Made(Four), Up, 1, <<Menus, Silent>>),
    Run(Selects, [Made(Four) EXCEPT ![".config"] = <<On("MODULES"), On("a")>>], Up, 0, <<Silent, Silent>>),
    Run(Chooses("tri"), Holding(<<On("MODULES"), On("a")>>), Up, 1, <<Menus, Silent>>),
    Run(Chooses("tri"), Holding(<<On("MODULES"), On("a")>>), Down, 1, <<Menus, Silent>>),
    Run(Chooses("bool"), NoFiles, Up, 1, <<Tools(Unattended), Menus \cup Silent>>),
    Run(Selects, [NoFiles EXCEPT !["defconfig"] = <<On("a")>>], Down, 0,
        <<Tools(Unattended \cup Asking), Silent>>),
    Run(Deep, Holding(<<On("b")>>), Up, 0, <<Tools(Asking \cup Unattended) \cup Piped(Asking)>>),
    Run(Empty, Holding(<<>>), Up, 0, <<Tools(Asking \cup Unattended) \cup Piped(Asking)>>) }

(* Files that are parsed, and no session after them. *)
Entry(blocks, symbols, conditions) == [blocks |-> blocks, symbols |-> symbols, conditions |-> conditions]
Read(entries) ==
  [tree |-> Start, plan |-> entries, disk |-> NoFiles, keys |-> 0, sessions |-> <<>>, order |-> Up]

Few == {Nil, Sym("a"), Not(Sym("a")), Ne("t", "n")}
Leaves == {Sym("a"), Sym("t"), Not(Sym("a")), Not(Sym("t")), Eq("t", "m"), Ne("t", "n")}
Wide == Leaves \cup {Two(op, e, f) : op \in {"and", "or"}, e \in Leaves, f \in Leaves}
Blocks == {"config", "prompt if", "silent", "select", "if", "menu", "choice", "comment"}

(* Three entries of every kind with few conditions; and an entry with a wide
   condition after, and around, one with a simple condition. *)
Parses ==
  { Read(<< Entry(Blocks, {"a", "t"}, {Nil}),
            Entry(Blocks, {"a", "t"}, {Nil, Sym("a"), Ne("t", "n")}),
            Entry(Blocks, {"b"}, Few) >>),
    Read(<< Entry({"config"}, {"t"}, {Nil}), Entry({"config", "menu"}, {"a"}, Leaves),
            Entry({"config", "prompt if"}, {"b"}, Wide) >>) }

MCScenarios == Sessions \cup Parses
MCCuts(n) == {n - 1}
MCAnswers == {"0", "9"}
=============================================================================
