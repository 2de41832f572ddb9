---------------------------- MODULE CommandLine ----------------------------
(***************************************************************************)
(* A line of simpsh, from the keys to the words of its commands.           *)
(*                                                                         *)
(* First lib/getch.c and lib/readline.c: keys of a terminal, decoded from  *)
(* the bytes they send, and the line and the history they edit.  A key     *)
(* sends its bytes at once, or one by one over a slow line.                *)
(*                                                                         *)
(* Then how simpsh cuts a line: remove_comments, then parse_command (in    *)
(* lib/cmdParse.c) three times, at ";", at "|" and at blanks.  The first   *)
(* two leave the quotes where they are, for the passes behind them; a      *)
(* backslash is taken out by each of the three.                            *)
(***************************************************************************)
EXTENDS Integers, Sequences, SequencesExt

CONSTANTS
    InitialSize,    \* INITIAL_SIZE, 1024
    MaxHistory      \* MAX_HISTORY, 100

VARIABLES
    strokes,    \* the keys to come, each the bytes it sends
    slow,       \* do the bytes of a key come one by one?
    pending,    \* what has come and was not read
    gpc,        \* off | first | escape | key | exit | undefined
    escape,     \* what was read behind ESC
    key,        \* what getch() returns
    str, pos,   \* the line, and the place in it
    size,       \* of the buffer of the line
    history, historyIndex,
    hits,       \* history variables: the keys returned
    begun,      \* how many before this line
    lines,      \* the lines returned
    typed0      \* the keys there were to come

lineVars == <<strokes, slow, pending, gpc, escape, key, str, pos, size, history, historyIndex,
              hits, begun, lines, typed0>>

ESC == 27
Enter == 10
EOF == -1

LineInit(keys, s) ==
    /\ strokes = keys /\ typed0 = keys /\ slow = s
    /\ pending = <<>> /\ gpc = "off" /\ escape = <<>> /\ key = EOF
    /\ str = <<>> /\ pos = 0 /\ size = InitialSize
    /\ history = <<>> /\ historyIndex = -1 /\ hits = <<>>
    /\ begun = 0 /\ lines = <<>>

editVars == <<str, pos, size, history, historyIndex, begun, lines>>

(* The keyboard: when the next key comes before getch() waits for one, the *)
(* flush that begins it drops the key.                                     *)
KeyComes ==
    /\ strokes # <<>>
    /\ slow \/ (gpc \in {"off", "first"} /\ pending = <<>>)
    /\ \E n \in 1..Len(Head(strokes)) :
         LET bytes == Head(strokes)
         IN /\ n < Len(bytes) => slow
            /\ pending' = pending \o SubSeq(bytes, 1, n)
            /\ strokes' = IF n = Len(bytes) THEN Tail(strokes)
                          ELSE [strokes EXCEPT ![1] = SubSeq(bytes, n + 1, Len(bytes))]
    /\ UNCHANGED <<slow, gpc, escape, key, hits, typed0, editVars>>

-----------------------------------------------------------------------------
(* getch: the terminal is made raw and set back for each key, and either   *)
(* drops what has come and was not read (TCSAFLUSH).                       *)
RawMode ==
    /\ gpc = "off"
    /\ gpc' = "first" /\ pending' = <<>> /\ escape' = <<>>
    /\ UNCHANGED <<strokes, slow, key, hits, typed0, editVars>>

Returned(k) ==
    /\ key' = k /\ hits' = Append(hits, k) /\ gpc' = "key" /\ escape' = <<>>
    /\ pending' = <<>>

FirstByte ==
    /\ gpc = "first" /\ pending # <<>>
    /\ IF Head(pending) = ESC
         THEN gpc' = "escape" /\ pending' = Tail(pending) /\ UNCHANGED <<escape, key, hits>>
         ELSE Returned(Head(pending))
    /\ UNCHANGED <<strokes, slow, typed0, editVars>>

(* read() fails, or the terminal is gone.                                  *)
NoByte ==
    /\ gpc = "first" /\ pending = <<>> /\ strokes = <<>>
    /\ Returned(EOF)
    /\ UNCHANGED <<strokes, slow, typed0, editVars>>

Up == 560
Down == 561
LeftKey == 562
Right == 563
End == 564
Home == 565
F(n) == 530 + n
Alt(c) == c + 1000

Bracket == 91       \* "["
Arrows == <<Up, Down, Right, LeftKey, ESC, End, ESC, Home>>     \* "A" to "H"
Keypad(c) ==        \* "15~" to "24~"; what is behind the second digit is not read
    CASE c = <<49, 53>> -> F(5) [] c = <<49, 55>> -> F(6) [] c = <<49, 56>> -> F(7)
      [] c = <<49, 57>> -> F(8) [] c = <<50, 48>> -> F(9) [] c = <<50, 49>> -> F(10)
      [] c = <<50, 51>> -> F(11) [] c = <<50, 52>> -> F(12) [] OTHER -> ESC

Digits(e) == Len(e) >= 2 /\ e[1] = Bracket /\ e[2] \in {49, 50}

Decode(e) ==
    CASE e = <<>> -> ESC
      [] e # <<>> /\ e[1] \in 97..122 -> Alt(e[1])
      [] Len(e) = 2 /\ e[1] = Bracket /\ e[2] \in 65..72 -> Arrows[e[2] - 64]
      [] Len(e) = 2 /\ e[1] = 79 /\ e[2] \in 80..83 -> F(e[2] - 79)
      [] Len(e) = 3 -> Keypad(Tail(e))
      [] OTHER -> ESC

Wants(e) == Len(e) < 2 \/ (Len(e) = 2 /\ Digits(e))

EscapeByte ==
    /\ gpc = "escape" /\ pending # <<>>
    /\ LET e == Append(escape, Head(pending))
       IN IF Wants(e) THEN /\ escape' = e /\ pending' = Tail(pending)
                           /\ UNCHANGED <<gpc, key, hits>>
          ELSE Returned(Decode(e))
    /\ UNCHANGED <<strokes, slow, typed0, editVars>>

(* Nothing comes for 20 ms.                                                *)
EscapeTimeout ==
    /\ gpc = "escape" /\ pending = <<>>
    /\ Returned(Decode(escape))
    /\ UNCHANGED <<strokes, slow, typed0, editVars>>

-----------------------------------------------------------------------------
(* xreadline: what a key does to the line.                                 *)
Read(keys) == gpc = "key" /\ key \in keys
EditKeep == UNCHANGED <<strokes, slow, pending, escape, key, hits, begun, typed0, lines>>
NextKey == gpc' = "off" /\ EditKeep

(* A line of the history in the place of this one.                         *)
Recall(i) ==
    /\ historyIndex' = i /\ str' = history[i + 1] /\ pos' = Len(str')
    /\ size' = IF Len(str') >= size THEN Len(str') + 1 ELSE size
    /\ UNCHANGED history

HistoryUp ==
    /\ Read({Up})
    /\ IF historyIndex > 0 THEN Recall(historyIndex - 1)
       ELSE UNCHANGED <<str, pos, size, history, historyIndex>>
    /\ NextKey

HistoryDown ==
    /\ Read({Down})
    /\ IF historyIndex < Len(history) - 1 THEN Recall(historyIndex + 1)
       ELSE UNCHANGED <<str, pos, size, history, historyIndex>>
    /\ NextKey

MoveCursor ==
    /\ Read({LeftKey, Right, Home, End})
    /\ pos' = CASE key = LeftKey -> IF pos > 0 THEN pos - 1 ELSE pos
                [] key = Right -> IF pos < Len(str) THEN pos + 1 ELSE pos
                [] key = Home -> 0
                [] key = End -> Len(str)
    /\ UNCHANGED <<str, size, history, historyIndex>>
    /\ NextKey

Backspace ==
    /\ Read({8, 127})
    /\ IF pos > 0 THEN str' = RemoveAt(str, pos) /\ pos' = pos - 1 ELSE UNCHANGED <<str, pos>>
    /\ UNCHANGED <<size, history, historyIndex>>
    /\ NextKey

Printable == 32..126
Wide == {F(n) : n \in 1..12} \cup {Alt(c) : c \in 97..122}

(* isprint() of a number that is no character is undefined: a key of Wide  *)
(* may be taken for one.                                                   *)
InsertChar ==
    /\ Read(Printable \cup Wide) /\ Len(str) + 1 < size
    /\ str' = InsertAt(str, pos + 1, key % 256) /\ pos' = pos + 1
    /\ UNCHANGED <<size, history, historyIndex>>
    /\ NextKey

(* insert_char() keeps the address that xrealloc() gives it to itself: the *)
(* line goes on in the block it was in, or what follows is undefined.      *)
InsertGrows ==
    /\ Read(Printable \cup Wide) /\ Len(str) + 1 >= size
    /\ size' = 2 * size
    /\ \/ str' = InsertAt(str, pos + 1, key % 256) /\ pos' = pos + 1 /\ gpc' = "off"
       \/ gpc' = "undefined" /\ UNCHANGED <<str, pos>>
    /\ UNCHANGED <<history, historyIndex>> /\ EditKeep

OtherKey ==
    /\ gpc = "key"
    /\ key \notin Printable \cup {Up, Down, LeftKey, Right, Home, End, 8, 127, Enter, EOF}
    /\ UNCHANGED <<str, pos, size, history, historyIndex>>
    /\ NextKey

\* Mutant of Remembered: the oldest line is written over without a shift
Remembered_NoShift ==
    IF Len(history) >= MaxHistory THEN Append(Front(history), str) ELSE Append(history, str)

Remembered == Append(IF Len(history) >= MaxHistory THEN Tail(history) ELSE history, str)

(* The line is returned; the shell asks for another until there is no key. *)
LineEnds ==
    /\ Read({Enter, EOF})
    /\ IF str = <<>> THEN UNCHANGED <<history, historyIndex>>
       ELSE history' = Remembered /\ historyIndex' = Len(history')
    /\ lines' = Append(lines, str)
    /\ str' = <<>> /\ pos' = 0 /\ size' = InitialSize /\ begun' = Len(hits)
    /\ gpc' = IF key = EOF THEN "exit" ELSE "off"
    /\ UNCHANGED <<strokes, slow, pending, escape, key, hits, typed0>>

LineNext ==
    \/ KeyComes \/ RawMode \/ FirstByte \/ NoByte \/ EscapeByte \/ EscapeTimeout
    \/ HistoryUp \/ HistoryDown \/ MoveCursor \/ Backspace \/ InsertChar \/ InsertGrows
    \/ OtherKey \/ LineEnds

-----------------------------------------------------------------------------
(* The key that is meant by the bytes that a key sends.                    *)
Meant(bytes) == IF Head(bytes) = ESC THEN Decode(SubSeq(bytes, 2, Min({4, Len(bytes)})))
                ELSE Head(bytes)

(* A line as what is left and right of the cursor.                         *)
Edited(l, k) ==
    CASE k \in Printable -> [l EXCEPT !.left = Append(@, k)]
      [] k = LeftKey /\ l.left # <<>> ->
             [left |-> Front(l.left), right |-> <<Last(l.left)>> \o l.right]
      [] k = Right /\ l.right # <<>> ->
             [left |-> Append(l.left, Head(l.right)), right |-> Tail(l.right)]
      [] k = Home -> [left |-> <<>>, right |-> l.left \o l.right]
      [] k = End -> [left |-> l.left \o l.right, right |-> <<>>]
      [] k \in {8, 127} /\ l.left # <<>> -> [l EXCEPT !.left = Front(@)]
      [] OTHER -> l

Letters(l) == [left |-> SubSeq(l, 1, pos), right |-> SubSeq(l, pos + 1, Len(l))]

(* Does h have some of the keys ks, in their order?                        *)
IsSome(h, ks) ==
    LET next(n, k) == IF n < Len(h) /\ h[n + 1] = k THEN n + 1 ELSE n
    IN FoldLeft(next, 0, ks) = Len(h)

(* LineImage: keys that send their bytes at once may be lost when they     *)
(* come too early, but none is taken for another, and no byte of a longer  *)
(* one for text.  The line is what the keys since its begin make of an     *)
(* empty one; the history has the last lines that were not empty.          *)
LineImage ==
    /\ ~slow => IsSome(SelectSeq(hits, LAMBDA k : k # EOF), [i \in DOMAIN typed0 |-> Meant(typed0[i])])
    /\ LET since == SubSeq(hits, begun + 1, Len(hits))
       IN gpc \in {"off", "first", "escape"} /\ ToSet(since) \cap ({Up, Down} \cup Wide) = {} =>
            FoldLeft(Edited, [left |-> <<>>, right |-> <<>>], since) = Letters(str)
    /\ LET kept == SelectSeq(lines, LAMBDA l : l # <<>>)
       IN history = SubSeq(kept, Max({1, Len(kept) - MaxHistory + 1}), Len(kept))

-----------------------------------------------------------------------------
CONSTANT WordMax      \* 2047, the characters a token may have

VARIABLES
    line,       \* the line as it was read
    cut,        \* without its comment
    items,      \* the commands of the list that are still to be cut
    argvs,      \* the words of each command, one pipeline after the other
    wpc         \* comments | list | words | exit

wordVars == <<line, cut, items, argvs, wpc>>

DQ == "\""
SQ == "'"
Blanks == {" ", "\t"}

WordsInit(l) == line = l /\ cut = <<>> /\ items = <<>> /\ argvs = <<>> /\ wpc = "comments"

-----------------------------------------------------------------------------
(* remove_comments: a double quote counts inside single quotes only, which *)
(* a single one opens inside double quotes too, as long as none counts.    *)
CommentChar(r, c) ==
    IF r.ended \/ (c = "#" /\ ~r.single /\ ~r.double) THEN [r EXCEPT !.ended = TRUE]
    ELSE [text |-> Append(r.text, c), ended |-> FALSE,
          double |-> IF c = DQ /\ r.single THEN ~r.double ELSE r.double,
          single |-> IF c = SQ /\ ~r.double THEN ~r.single ELSE r.single]

Trimmed(s) ==
    LET solid == {k \in DOMAIN s : s[k] \notin Blanks \cup {"\n", "\r"}}      \* isspace()
    IN SubSeq(s, 1, IF solid = {} THEN 0 ELSE Max(solid))

Uncommented(l) ==
    Trimmed(FoldLeft(CommentChar,
                     [text |-> <<>>, ended |-> FALSE, double |-> FALSE, single |-> FALSE], l).text)

-----------------------------------------------------------------------------
(* parse_command: a character goes to the token while there is room in it. *)
Put(p, c) == IF Len(p.token) < WordMax THEN [p EXCEPT !.token = Append(@, c)] ELSE p

Unescaped(c) == CASE c = "n" -> "\n" [] c = "t" -> "\t" [] c = "r" -> "\r" [] OTHER -> c

EndToken(p) == [p EXCEPT !.tokens = Append(@, p.token), !.token = <<>>]

Quote(p, c, keep) == IF keep THEN Put(p, c) ELSE p

ParseChar(p, c, ends, keep) ==
    CASE p.esc -> [Put(p, Unescaped(c)) EXCEPT !.esc = FALSE]
      [] ~p.esc /\ c = "\\" /\ ~p.single -> [p EXCEPT !.esc = TRUE]
      [] ~p.esc /\ c = DQ /\ ~p.single -> [Quote(p, c, keep) EXCEPT !.double = ~@]
      [] ~p.esc /\ c = SQ /\ ~p.double -> [Quote(p, c, keep) EXCEPT !.single = ~@]
      [] ~p.esc /\ c \in ends /\ ~p.double /\ ~p.single ->
             IF p.token = <<>> THEN p ELSE EndToken(p)
      [] OTHER -> Put(p, c)

\* Mutant of ParseCommand: the token at the end of the input is forgotten
ParseCommand_LastToken(input, ends, keep) ==
    LET step(p, c) == ParseChar(p, c, ends, keep)
    IN FoldLeft(step, [tokens |-> <<>>, token |-> <<>>, double |-> FALSE, single |-> FALSE,
                       esc |-> FALSE], input).tokens

ParseCommand(input, ends, keep) ==
    LET step(p, c) == ParseChar(p, c, ends, keep)
        scanned == FoldLeft(step, [tokens |-> <<>>, token |-> <<>>, double |-> FALSE,
                                   single |-> FALSE, esc |-> FALSE], input)
        p == IF scanned.esc THEN Put(scanned, "\\") ELSE scanned
    IN IF p.token # <<>> \/ p.double \/ p.single THEN EndToken(p).tokens ELSE p.tokens

-----------------------------------------------------------------------------
RemoveComments ==
    /\ wpc = "comments"
    /\ cut' = Uncommented(line) /\ wpc' = "list"
    /\ UNCHANGED <<line, items, argvs>>

CutList ==
    /\ wpc = "list"
    /\ items' = ParseCommand(cut, {";", "\n"}, TRUE) /\ wpc' = "words"
    /\ UNCHANGED <<line, cut, argvs>>

(* One stage alone is cut from the item, not from what the pass at "|"     *)
(* made of it.                                                             *)
CutItem ==
    /\ wpc = "words" /\ items # <<>>
    /\ LET stages == ParseCommand(Head(items), {"|"}, TRUE)
           commands == IF Len(stages) > 1 THEN stages ELSE <<Head(items)>>
       IN argvs' = argvs \o [k \in DOMAIN commands |-> ParseCommand(commands[k], Blanks, FALSE)]
    /\ items' = Tail(items)
    /\ UNCHANGED <<line, cut, wpc>>

WordsEnd == wpc = "words" /\ items = <<>> /\ wpc' = "exit" /\ UNCHANGED <<line, cut, items, argvs>>

WordsNext == RemoveComments \/ CutList \/ CutItem \/ WordsEnd

-----------------------------------------------------------------------------
(* What the quotes of a line mean, read once: the quote that is open       *)
(* behind its k-th character.                                              *)
Open(l) ==
    LET open[k \in 0..Len(l)] ==
            IF k = 0 THEN "none"
            ELSE IF open[k - 1] = "none" THEN (IF l[k] \in {DQ, SQ} THEN l[k] ELSE "none")
            ELSE IF l[k] = open[k - 1] THEN "none" ELSE open[k - 1]
    IN open

Bare(l, k) == Open(l)[k - 1] = "none"
IsQuote(l, k) == l[k] \in {DQ, SQ} /\ (Bare(l, k) \/ Open(l)[k] = "none")

(* The intervals that the places in "at" leave of from..to.                *)
Pieces(from, to, at) ==
    LET bound == <<from - 1>> \o SetToSortSeq(at, <) \o <<to + 1>>
    IN [k \in 1..(Len(bound) - 1) |-> [from |-> bound[k] + 1, to |-> bound[k + 1] - 1]]

BareIn(l, from, to, chars) == {k \in from..to : Bare(l, k) /\ l[k] \in chars}

Commands(l) ==
    LET comment == BareIn(l, 1, Len(l), {"#"})
        to == IF comment = {} THEN Len(l) ELSE Min(comment) - 1
    IN Pieces(1, to, BareIn(l, 1, to, {";", "\n", "|"}))

WordsOf(l) ==
    LET text(p) == LET at == SetToSortSeq({k \in p.from..p.to : ~IsQuote(l, k)}, <)
                   IN [i \in DOMAIN at |-> l[at[i]]]
        words(c) == LET ps == Pieces(c.from, c.to, BareIn(l, c.from, c.to, Blanks))
                    IN SelectSeq([i \in DOMAIN ps |-> text(ps[i])], LAMBDA w : w # <<>>)
        all == [i \in DOMAIN Commands(l) |-> words(Commands(l)[i])]
    IN SelectSeq(all, LAMBDA ws : ws # <<>>)

(* A line every pass reads alike: no longer than a token, without a        *)
(* backslash, all its quotes closed, no "#" together with a double quote   *)
(* (remove_comments), no "|" that has a command on one side only.          *)
Plainly(l) ==
    /\ Len(l) <= WordMax /\ "\\" \notin Range(l) /\ Open(l)[Len(l)] = "none"
    /\ ~({"#", DQ} \subseteq Range(l))
    /\ "|" \in Range(l) =>
         \A i \in DOMAIN Commands(l) :
             \E k \in Commands(l)[i].from..Commands(l)[i].to : l[k] \notin Blanks

(* WordsImage: the passes give the words that the quotes of the line, read *)
(* once, delimit; a word of quotes alone is dropped, and so is a command   *)
(* without words.                                                          *)
WordsImage ==
    wpc = "exit" /\ Plainly(line) =>
        SelectSeq(argvs, LAMBDA w : w # <<>>) = WordsOf(line)
=============================================================================
