---------------------------- MODULE MCFileTools ----------------------------
(* A file a or two, a directory d that is empty, holds files, a protected  *)
(* directory or a link to another directory, a second device mounted at m  *)
(* that may hold the same names, and backups that are already there.       *)
EXTENDS FileTools

P(names) == [i \in DOMAIN names |-> Plain(names[i])]

MCBase == {"a", "b", "d", "e", "l", "m", "n", "o", "x", "y", "z", "755"}
MCMount == Plain("m")

Protected(node) == [node EXCEPT !.ro = TRUE]
Link(to) == [kind |-> "link", to |-> to, ro |-> FALSE]

Content(p) == [i \in DOMAIN p |-> p[i].base]
Node(p) ==
    CASE p \in {P(<<"m">>), P(<<"d">>), P(<<"o">>), P(<<"m", "d">>)} -> Dir
      [] p = P(<<"d", "l">>) -> Link(P(<<"o">>))
      [] p = P(<<"d", "e">>) -> Protected(Dir)
      [] p = P(<<"d", "y">>) -> Protected(File(Content(p)))
      [] OTHER -> File(Content(p))
Tree(paths) == [p \in {P(x) : x \in paths} |-> Node(p)]
Backup(base, n) == (<<[base |-> base, marks |-> <<n>>]>> :> File(<<base, "backup">>))

MCTrees == {
    Tree({<<"m">>, <<"a">>, <<"d">>, <<"d", "x">>, <<"d", "y">>, <<"d", "e">>, <<"d", "e", "x">>}),
    Tree({<<"m">>, <<"a">>, <<"b">>, <<"d">>, <<"d", "x">>, <<"m", "a">>, <<"m", "d">>,
          <<"m", "d", "x">>}) @@ Backup("b", 1),
    Tree({<<"m">>, <<"a">>, <<"b">>, <<"d">>})
        @@ Backup("b", 1) @@ Backup("b", 2) @@ Backup("b", 3),
    Tree({<<"m">>, <<"a">>, <<"d">>, <<"d", "x">>, <<"d", "l">>, <<"o">>, <<"o", "z">>}),
    Tree({<<"m">>, <<"a">>, <<"d">>, <<"m", "d">>, <<"m", "d", "x">>}) @@ Backup("a", Simple)}

Command(letters, backup, update, bits, operands) ==
    [letters |-> letters, backup |-> backup, update |-> update,
     noCopy |-> "c" \in bits, noTarget |-> "T" \in bits, target |-> "t" \in bits,
     exchange |-> "x" \in bits, operands |-> operands]

MCOperands == {<<P(<<"a">>), P(<<"b">>)>>, <<P(<<"a">>), P(<<"m">>)>>, <<P(<<"d">>), P(<<"m">>)>>,
               <<P(<<"a">>), P(<<"d">>), P(<<"m">>)>>, <<P(<<"d", "x">>), P(<<"m", "d">>)>>,
               <<<<[base |-> "a", marks |-> <<Simple>>]>>, P(<<"a">>)>>, <<P(<<"d">>), P(<<"m", "x">>)>>,
               <<P(<<"a">>), <<[base |-> "b", marks |-> <<1>>]>>>>, <<P(<<"m">>), P(<<"a">>)>>, <<P(<<"d">>)>>}

MCMvCommands ==
    {Command(l, b, "all", {}, o) :
        l \in {<<>>, <<"n", "i">>}, b \in {"none", "simple", "numbered"}, o \in MCOperands}
    \cup {Command(<<"i", "f">>, "numbered", u, {}, o) :
        u \in {"older", "none", "none-fail"}, o \in MCOperands}
    \cup {Command(<<>>, "none", "all", bits, o) :
        bits \in {{"c"}, {"T"}, {"t"}, {"x"}}, o \in MCOperands}

MCRmCommands ==
    [options : SUBSET {"f", "i", "r"},
     operands : {<<P(<<"d">>)>>, <<P(<<"d", "x">>), P(<<"d">>)>>, <<P(<<"a">>), P(<<"m">>)>>,
                 <<P(<<"d", "l">>)>>, <<P(<<"o", "z">>), P(<<"d", "l", "z">>), P(<<"d">>)>>}]

Make(name, letters, size, operands) ==
    [name |-> name, letters |-> letters, size |-> size, operands |-> operands]
MCPairs == {<<P(x), P(y)>> : x \in {<<"a">>, <<"d", "x">>, <<"d", "l">>, <<"n">>, <<"d", "n">>},
                             y \in {<<"b">>, <<"d">>, <<"d", "l", "n">>, <<"n", "n">>, <<"m", "n">>}}
MCMakerCommands ==
    {Make("mkdir", l, 0, o) : l \in SUBSET {"p", "m"}, o \in MCPairs}
    \cup {Make("truncate", l, n, o) : l \in SUBSET {"c"}, n \in {0, 1, 3}, o \in MCPairs}
    \cup {Make(name, {}, 0, o) : name \in {"mkfifo", "link", "unlink"}, o \in MCPairs}

MCMvLines == {<<"y", "n">>, <<"n", "n">>}
MCRmLines == {<<"y">>, <<"n">>, <<"y", "n">>}
=============================================================================
