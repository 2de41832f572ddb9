----------------------------- MODULE MCStreams ------------------------------
(* Inputs of up to five bytes with blocks of one to three: reads and       *)
(* writes that are whole or short, blocks that are all zeros, a last one   *)
(* that is not full, and outputs that held something.                      *)
EXTENDS Streams

Conv(ibs, obs, count, skip, seek, set) ==
    [ibs |-> ibs, obs |-> obs, count |-> count, skip |-> skip, seek |-> seek,
     sync |-> "sync" \in set, noerror |-> "noerror" \in set, notrunc |-> "notrunc" \in set,
     sparse |-> "sparse" \in set, pipeIn |-> "in" \in set, pipeOut |-> "out" \in set]

MCDdRuns ==
    [source : {<<1, 0, 0, 0, 5>>, <<1, 2, 0, 0>>}, old : {<<>>, <<9, 9, 9, 9, 9, 9, 9>>},
     conv : {Conv(3, 2, count, skip, seek, set) :
                count \in {0, 2}, skip \in {0, 1}, seek \in {0, 1},
                set \in SUBSET {"sync", "notrunc", "in"}}
       \cup {Conv(2, 3, 0, 0, seek, {"sparse"} \cup set) :
                seek \in {0, 1}, set \in SUBSET {"noerror", "notrunc", "sync"}}
       \cup {Conv(1, 1, 5, 0, seek, {"out"} \cup set) : seek \in {0, 1}, set \in SUBSET {"sparse"}}]

MCTeeRuns ==
    [source : {<<1, 2, 3, 4>>, <<>>}, olds : {[f |-> <<7>>, g |-> <<>>]},
     appends : BOOLEAN, names : {<<"f">>, <<"f", "g">>}]

Regular(bytes) == [device |-> FALSE, bytes |-> bytes]
Device(bytes) == [device |-> TRUE, bytes |-> bytes]
MCCatRuns ==
    [flags : SUBSET {"e", "t"},
     operands : {<<Regular(<<65, 9, 10>>), Regular(<<10>>)>>,
                 <<Device(<<9, 65, 10, 9, 10>>), Regular(<<9>>)>>,
                 <<Device(<<65, 0, 66, 10>>)>>}]

MCBase64Runs ==
    [source : UNION {[1..n -> {0, 171, 255}] : n \in 0..3}
              \cup {<<1, 128, 254, 77>>, <<255, 255, 255, 0, 90>>, <<6, 5, 4, 3, 2, 1>>},
     wrap : {0, 1, 3, 4, 76}, garbage : BOOLEAN]

MCDosRuns ==
    LET inputs0 == UNION {[1..n -> {13, 10, 65}] : n \in 0..3} \cup {<<13, 10, 13, 10>>, <<13, 13, 65>>}
    IN {<<a, <<65>>>> : a \in inputs0} \cup {<<<<65, 13>>, a>> : a \in inputs0}

MCOutputs == {<<>>, <<1, 2>>, <<1, 2, 3, 4, 5, 6, 7>>}

Texts(set, lengths) == UNION {[1..n -> set] : n \in lengths}
MCLines ==
    Texts({"n", " ", ";", "|", DQ, SQ, "#", "\\"}, 0..3) \cup Texts({"n", " ", DQ, SQ}, 4..5)
    \cup Texts({"n", " ", "|", SQ}, 4..5)
    \cup Texts({"n", ";"}, {6})

(* Letters, Enter, Backspace, Up, Left, F5, a key of ESC [ 3 ~, Alt-b and  *)
(* ESC; and lines that fill the history and are recalled.                  *)
MCKeys == {<<97>>, <<10>>, <<127>>, <<27, 91, 65>>, <<27, 91, 68>>, <<27, 91, 49, 53, 126>>,
           <<27, 91, 51, 126>>, <<27, 98>>, <<27>>}
Recalling == {<<97>>, <<98>>, <<10>>, <<27, 91, 65>>, <<27, 91, 66>>}
MCTyped ==
    [keys : Texts(MCKeys, 0..2), slow : BOOLEAN]
    \cup [keys : {<<<<97>>, <<10>>>> \o l : l \in Texts(Recalling, 3..4)}, slow : {FALSE}]
    \cup [keys : {<<<<97>>, <<98>>, <<27, 91, 68>>>> \o l : l \in Texts(MCKeys, {1})}, slow : {FALSE}]

MCPrograms ==
    [todo : {p \o <<ExitCall(x)>> : p \in Texts({Call(1, 5), Call(1, 6), Call(2, 7), Signal}, 0..3),
                                    x \in {1, 2}},
     listed : {<<3, 1>>}]

(* Menus of two to seven items of which some come and go, with two that    *)
(* share a hot key, one whose key is "s" and some that none has; windows   *)
(* from one row to more than the items; a choice of six in three rows; and *)
(* texts that fill the box or not.                                         *)
Entry(data, letter) == [data |-> data, letter |-> letter]
LongMenu == <<Entry("a", "a"), Entry("b", "b"), Entry("c", "s"), Entry("d", "a"),
              Entry(None, "l"), Entry("f", "y"), Entry("g", "b")>>
MCMenuLists == {LongMenu, <<LongMenu[1], LongMenu[3], LongMenu[4], LongMenu[5], LongMenu[7]>>,
                SubSeq(LongMenu, 5, 6)}
MCCheckLists == {SubSeq(LongMenu, 1, 2), [i \in 1..6 |-> Entry(LongMenu[8 - i].data, LongMenu[i].letter)]}
MCTextRuns == [lines : 2..7, ended : {TRUE}] \cup [lines : {1, 4}, ended : {FALSE}]
MCFirstInputs == {<<>>, <<"p", "q">>, <<"p", "q", "r", "p", "q">>}

(* Blocks of four bytes with two for the length, so contents of 0 to 9     *)
(* bytes end at every place of a block and fill up to two; the low word of *)
(* MD5's bit count wraps every four bytes.                                 *)
XA == <<"x", "a">>
A == <<"a">>
AB == <<"a", " ", "b">>

Text(letter, n) == [k \in 1..n |-> <<letter, k>>]

MCFolders ==
    {XA :> Text("p", n) @@ A :> Text("q", m) : n \in {0, 2, 5, 8}, m \in {1, 9}}
    \cup {XA :> Text("p", 5) @@ A :> Text("p", 5),
          AB :> Text("p", 4) @@ A :> Text("q", 3)}

MCOperandLists == {<<XA>>, <<XA, A>>, <<AB, A>>}

MCOptions ==
    {[binary |-> form = "binary", tag |-> form = "tag", zero |-> zero,
      tagged |-> form = "tag", strict |-> strict, ignoreMissing |-> ~strict] :
        form \in {"text", "binary", "tag"}, zero \in BOOLEAN, strict \in BOOLEAN}
    \cup {[binary |-> binary, tag |-> FALSE, zero |-> FALSE, tagged |-> FALSE,
           strict |-> TRUE, ignoreMissing |-> TRUE] : binary \in BOOLEAN}
=============================================================================
