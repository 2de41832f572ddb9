------------------------------- MODULE Simped -------------------------------
(***************************************************************************)
(* The editor of devel/simped.c: its list of lines, its cursor, its window *)
(* on the text, and the file it was started on.  One action is one key     *)
(* that edMain() reads, with the scrolling it does after each; a command   *)
(* typed behind ':' is one action.  Allocations succeed; a byte is one of  *)
(* a few characters, NL or NUL.                                            *)
(***************************************************************************)
EXTENDS Integers, FiniteSets, SequencesExt

CONSTANTS Char,         \* printable characters
          Tab,          \* what KEY_TAB inserts: four spaces in the code
          NL, NUL,      \* the two bytes that are not printable
          Contents,     \* what the file may hold when the editor is started
          NewFile,      \* whether it may also be missing
          SaveFails,    \* whether writing it may fail
          SizeY,        \* rows of the terminal
          MaxNode,      \* bound: lines
          MaxChars      \* bound: characters typed into the text

ASSUME SizeAssumption == SizeY \in Nat /\ SizeY >= 2

Printable == Char \cup {Tab[1]}
ASSUME TabAssumption == Tab \in Seq(Printable)
ASSUME NodeAssumption == MaxNode \in Nat \ {0}

Node == 1..MaxNode
NULL == 0
Absent == <<"absent">>  \* what the disk holds of a removed file: no byte is this
Torn == <<"torn">>      \* and of a file that save_file() gave up on

VARIABLES text, next, prev,     \* the fields of the Line nodes
          used,                 \* the nodes allocated and not freed
          current_line,         \* ed->current_line; ed->lines is node 1
          x, y,                 \* the cursor, as the status bar counts it
          scroll_offset,
          line_count,
          mode,
          modified,
          fileStat,
          disk,                 \* the file's bytes, or Absent
          pc,                   \* "editing", "quit" or, by :q!, "forced"
          uncounted,            \* lines loadFile() left out of line_count
          saved                 \* what the file held at the start (Absent if
                                \* new) or after the last save; Torn if it failed

vars == <<text, next, prev, used, current_line, x, y, scroll_offset,
          line_count, mode, modified, fileStat, disk, pc, uncounted, saved>>
listVars == <<text, next, prev, used, line_count>>
fileVars == <<fileStat, disk, pc, uncounted, saved>>

lines == 1                      \* no operation frees or replaces the head

-----------------------------------------------------------------------------
\* The first n bytes of s, and the rest.
FirstOf(s, n) == SubSeq(s, 1, n)
RestOf(s, n) == SubSeq(s, n + 1, Len(s))

\* What strchr() and strlen() see of a buffer: the bytes before the first NUL.
CString(s) == FirstOf(s, Min({n \in 0..Len(s) : n = Len(s) \/ s[n + 1] = NUL}))

\* loadFile() cuts the content at each newline: the lines of its first n bytes.
LinesOf(s) ==
    LET upto[n \in 0..Len(s)] ==
            IF n = 0 THEN << <<>> >>
            ELSE LET ls == upto[n - 1] IN
                 IF s[n] = NL THEN Append(ls, <<>>)
                 ELSE [ls EXCEPT ![Len(ls)] = Append(@, s[n])]
    IN  upto[Len(s)]

\* save_file() writes a newline behind every line but the last.
Bytes(ls) ==
    LET upto[n \in 1..Len(ls)] ==
            IF n = 1 THEN ls[1] ELSE upto[n - 1] \o <<NL>> \o ls[n]
    IN  upto[Len(ls)]

ASSUME ContentsAssumption ==
    /\ Contents \subseteq Seq(Printable \cup {NL, NUL})
    /\ \A c \in Contents \cup {<<>>} : Len(LinesOf(CString(c))) <= MaxNode

\* The nodes from the head on, and the text they hold.
ChainOf(nx) ==
    LET node[i \in Nat] == IF i <= 1 THEN lines
                           ELSE LET k == node[i - 1]
                                IN  IF k = NULL THEN NULL ELSE nx[k]
    IN  node
Chain == ChainOf(next)
Buffer == [i \in 1..Cardinality(used) |-> IF Chain[i] = NULL THEN <<>>
                                          ELSE text[Chain[i]]]

Typed == FoldSeq(LAMBDA l, n : n + Len(l), 0, Buffer)

-----------------------------------------------------------------------------
\* initEditor() and loadFile().  Of a content that ends with a newline the
\* empty line behind it gets a node but is not counted.
InitEditor(content, stat) ==
    LET ls == LinesOf(CString(content))
        n  == Len(ls)
    IN  /\ text = [k \in Node |-> IF k <= n THEN ls[k] ELSE <<>>]
        /\ next = [k \in Node |-> IF k < n THEN k + 1 ELSE NULL]
        /\ prev = [k \in Node |-> IF k <= n THEN k - 1 ELSE NULL]
        /\ used = 1..n
        /\ uncounted = IF content # <<>> /\ ls[n] = <<>> THEN 1 ELSE 0
        /\ line_count = n - uncounted
        /\ disk = content
        /\ saved = IF stat = "FS_NEW" THEN Absent ELSE content
        /\ fileStat = stat

Init ==
    /\ \/ \E c \in Contents : InitEditor(c, "FS_EST")
       \/ NewFile /\ InitEditor(<<>>, "FS_NEW")
    /\ current_line = lines
    /\ x = 0 /\ y = 0
    /\ scroll_offset = 0
    /\ mode = "E_CMD"
    /\ modified = FALSE
    /\ pc = "editing"

\* Mutant of Scroll: the window is taken to be one row higher.
Scroll_OneMore ==
    scroll_offset' = CASE y' < scroll_offset -> y'
                       [] y' > scroll_offset + SizeY - 1 -> y' - SizeY + 2
                       [] OTHER -> scroll_offset

\* What edMain() does after every key.
Scroll ==
    scroll_offset' = CASE y' < scroll_offset -> y'
                       [] y' >= scroll_offset + SizeY - 1 -> y' - SizeY + 2
                       [] OTHER -> scroll_offset

Editing(m) == pc = "editing" /\ mode = m

SetMode(m) ==                   \* 'i' in command mode, KEY_ESC in edit mode
    /\ pc = "editing" /\ mode # m
    /\ mode' = m
    /\ UNCHANGED <<listVars, fileVars, current_line, x, y, modified>>
    /\ Scroll

-----------------------------------------------------------------------------
\* Cursor keys, the same in both modes.

MoveX(to) ==                    \* KEY_LEFT, KEY_RIGHT, KEY_HOME, KEY_END
    /\ pc = "editing"
    /\ x' = to
    /\ UNCHANGED <<listVars, fileVars, current_line, y, mode, modified>>
    /\ Scroll

\* KEY_UP and KEY_DOWN: the column shrinks to the length of the new line.
MoveTo(node, dy) ==
    /\ pc = "editing"
    /\ node # NULL
    /\ current_line' = node
    /\ y' = y + dy
    /\ x' = IF x > Len(text[node]) THEN Len(text[node]) ELSE x
    /\ UNCHANGED <<listVars, fileVars, mode, modified>>
    /\ Scroll

Length == Len(text[current_line])

MoveCursor ==
    \/ MoveX(IF x > 0 THEN x - 1 ELSE 0)
    \/ MoveX(IF x < Length THEN x + 1 ELSE Length)
    \/ MoveX(0)
    \/ MoveX(Length)
    \/ MoveTo(prev[current_line], -1)
    \/ MoveTo(next[current_line], 1)

-----------------------------------------------------------------------------
\* insert_char() and insert_string(), and the x of editMode() that follows.
InsertString(s) ==
    /\ Editing("E_EDI")
    /\ Typed + Len(s) <= MaxChars
    /\ text' = [text EXCEPT ![current_line] = FirstOf(@, x) \o s \o RestOf(@, x)]
    /\ x' = x + Len(s)
    /\ modified' = TRUE
    /\ UNCHANGED <<next, prev, used, line_count, fileVars, current_line, y, mode>>
    /\ Scroll

\* Mutant of DeleteChar: the buffer is changed and modified is not set.
DeleteChar_Unmodified ==
    /\ Editing("E_EDI")
    /\ x > 0
    /\ text' = [text EXCEPT ![current_line] = FirstOf(@, x - 1) \o RestOf(@, x)]
    /\ x' = x - 1
    /\ UNCHANGED <<next, prev, used, line_count, fileVars, current_line, y,
                   mode, modified>>
    /\ Scroll

DeleteChar ==                   \* KEY_BKSPE inside a line
    /\ Editing("E_EDI")
    /\ x > 0
    /\ text' = [text EXCEPT ![current_line] = FirstOf(@, x - 1) \o RestOf(@, x)]
    /\ x' = x - 1
    /\ modified' = TRUE
    /\ UNCHANGED <<next, prev, used, line_count, fileVars, current_line, y, mode>>
    /\ Scroll

\* Mutant of MergeLines: the new cursor column is read after the merge.
MergeLines_LateColumn ==
    LET cur  == current_line
        line == prev[cur]
    IN  /\ Editing("E_EDI")
        /\ x = 0 /\ line # NULL
        /\ text' = [text EXCEPT ![line] = @ \o text[cur], ![cur] = <<>>]
        /\ next' = [next EXCEPT ![line] = next[cur], ![cur] = NULL]
        /\ prev' = [k \in Node |-> IF k = cur THEN NULL
                                   ELSE IF k = next[cur] THEN line ELSE prev[k]]
        /\ used' = used \ {cur}
        /\ line_count' = line_count - 1
        /\ modified' = TRUE
        /\ current_line' = line
        /\ y' = y - 1
        /\ x' = Len(text'[line])
        /\ UNCHANGED <<fileVars, mode>>
        /\ Scroll

\* KEY_BKSPE at the start of a line: mergeLines() of the line above frees
\* this node, whose prev field editMode() then reads once more to set
\* current_line; free() of the build's C library leaves that field as it was,
\* so the line above is what it finds.  Fields of free nodes are cleared here.
MergeLines ==
    LET cur  == current_line
        line == prev[cur]
    IN  /\ Editing("E_EDI")
        /\ x = 0 /\ line # NULL
        /\ text' = [text EXCEPT ![line] = @ \o text[cur], ![cur] = <<>>]
        /\ next' = [next EXCEPT ![line] = next[cur], ![cur] = NULL]
        /\ prev' = [k \in Node |-> IF k = cur THEN NULL
                                   ELSE IF k = next[cur] THEN line ELSE prev[k]]
        /\ used' = used \ {cur}
        /\ line_count' = line_count - 1
        /\ modified' = TRUE
        /\ current_line' = line
        /\ y' = y - 1
        /\ x' = Len(text[line])
        /\ UNCHANGED <<fileVars, mode>>
        /\ Scroll

\* Mutant of SplitLine: "line->next->prev = new_line" is missing.
SplitLine_StalePrev ==
    \E new \in Node \ used :
        LET line == current_line IN
        /\ Editing("E_EDI")
        /\ text' = [text EXCEPT ![new]  = RestOf(text[line], x),
                                ![line] = FirstOf(@, x)]
        /\ next' = [next EXCEPT ![new] = next[line], ![line] = new]
        /\ prev' = [prev EXCEPT ![new] = line]
        /\ used' = used \cup {new}
        /\ line_count' = line_count + 1
        /\ modified' = TRUE
        /\ current_line' = new
        /\ y' = y + 1
        /\ x' = 0
        /\ UNCHANGED <<fileVars, mode>>
        /\ Scroll

\* KEY_ENTER: splitLine() links a new node behind the current one, which
\* the cursor then moves to.
SplitLine ==
    \E new \in Node \ used :
        LET line == current_line IN
        /\ Editing("E_EDI")
        /\ text' = [text EXCEPT ![new]  = RestOf(text[line], x),
                                ![line] = FirstOf(@, x)]
        /\ next' = [next EXCEPT ![new] = next[line], ![line] = new]
        /\ prev' = [k \in Node |-> IF k = new THEN line
                                   ELSE IF k = next[line] THEN new ELSE prev[k]]
        /\ used' = used \cup {new}
        /\ line_count' = line_count + 1
        /\ modified' = TRUE
        /\ current_line' = new
        /\ y' = y + 1
        /\ x' = 0
        /\ UNCHANGED <<fileVars, mode>>
        /\ Scroll

-----------------------------------------------------------------------------
\* The commands behind ':'.

Stay ==                         \* the key loop goes on
    /\ UNCHANGED pc
    /\ Scroll

Quit(how) ==                    \* edMain() returns, without scrolling
    /\ pc' = how
    /\ UNCHANGED scroll_offset

\* save_file() succeeds.
SaveFile ==
    /\ disk' = Bytes(Buffer)
    /\ saved' = Bytes(Buffer)
    /\ modified' = FALSE

\* save_file() returns 1: before ftruncate(), or after some of the writes.
SaveFileFails ==
    /\ SaveFails
    /\ \/ UNCHANGED disk
       \/ \E n \in 0..(Len(Bytes(Buffer)) - 1) : disk' = FirstOf(Bytes(Buffer), n)
    /\ saved' = Torn
    /\ UNCHANGED modified

CommandW ==
    /\ SaveFile \/ SaveFileFails
    /\ Stay

CommandWQ ==
    \/ SaveFile /\ Quit("quit")
    \/ SaveFileFails /\ Stay

\* Mutant of CommandQ: the test of modified is the wrong way round.
CommandQ_Inverted ==
    /\ UNCHANGED <<saved, modified>>
    /\ \/ ~modified /\ Stay /\ UNCHANGED disk
       \/ /\ modified /\ Quit("quit")
          /\ disk' = IF fileStat = "FS_NEW" THEN Absent ELSE disk

\* Refused while there is something to save; a new file is removed again.
CommandQ ==
    /\ UNCHANGED <<saved, modified>>
    /\ \/ modified /\ Stay /\ UNCHANGED disk
       \/ /\ ~modified /\ Quit("quit")
          /\ disk' = IF fileStat = "FS_NEW" THEN Absent ELSE disk

CommandForceQ ==                \* :q!
    /\ Quit("forced")
    /\ disk' = IF fileStat = "FS_NEW" THEN Absent ELSE disk
    /\ UNCHANGED <<saved, modified>>

Command ==
    /\ Editing("E_CMD")
    /\ UNCHANGED <<listVars, current_line, x, y, mode, fileStat, uncounted>>
    /\ CommandW \/ CommandWQ \/ CommandQ \/ CommandForceQ

Next ==
    \/ \E m \in {"E_CMD", "E_EDI"} : SetMode(m)
    \/ MoveCursor
    \/ \E c \in Char : InsertString(<<c>>)
    \/ InsertString(Tab)
    \/ DeleteChar \/ MergeLines \/ SplitLine
    \/ Command

Spec == Init /\ [][Next]_vars

-----------------------------------------------------------------------------
TypeOK ==
    /\ text \in [Node -> Seq(Printable)]
    /\ next \in [Node -> Node \cup {NULL}]
    /\ prev \in [Node -> Node \cup {NULL}]
    /\ used \subseteq Node
    /\ current_line \in Node
    /\ x \in Nat /\ y \in Nat /\ scroll_offset \in Nat
    /\ line_count \in Nat
    /\ mode \in {"E_CMD", "E_EDI"}
    /\ modified \in BOOLEAN
    /\ fileStat \in {"FS_NEW", "FS_EST"}
    /\ pc \in {"editing", "quit", "forced"}

\* Whatever the history of splits and merges, the list is one chain: it starts
\* at the head, reaches every allocated node once, ends, and prev undoes next;
\* line_count is its length, less the one line that loadFile() may not have
\* counted; and the current line is the one that the row in the status bar
\* counts, with the column inside it.
ListWellFormed ==
    /\ TypeOK
    /\ {Chain[i] : i \in 1..Cardinality(used)} = used
    /\ Chain[Cardinality(used) + 1] = NULL
    /\ prev[lines] = NULL
    /\ \A k \in used : next[k] # NULL => prev[next[k]] = k
    /\ line_count = Cardinality(used) - uncounted
    /\ Chain[y + 1] = current_line
    /\ x <= Len(text[current_line])

\* After every key the cursor's row is inside the window that displayText()
\* draws, so the cursor is placed.
CursorVisible ==
    /\ scroll_offset <= y
    /\ y < scroll_offset + SizeY - 1

\* Nothing behind a NUL of a line is loaded.
IsText(bytes) == \A i \in 1..Len(bytes) : bytes[i] # NUL

\* As long as no save has failed, a text file holds exactly what the screen
\* shows whenever modified is clear.
UnmodifiedIsOnDisk ==
    pc = "editing" /\ ~modified /\ saved # Torn /\ IsText(disk)
        => disk = Bytes(Buffer)

\* Whichever way an existing file is quit, it holds what it held after the last
\* successful save or, with none, at the start; and after :q and :wq that is
\* the text on the screen.  A failed save must have been repaired before.
QuitLosesNothing ==
    pc # "editing" /\ fileStat = "FS_EST" /\ saved # Torn =>
        /\ disk = saved
        /\ pc = "quit" /\ IsText(disk) => saved = Bytes(Buffer)

\* Stated by "int modified; // Does file changed": when it is clear, the file
\* holds exactly what the screen shows.
ModifiedTellsTruth == pc = "editing" /\ ~modified => disk = Bytes(Buffer)

\* Keys do to the text what TextBuffer says.
Text == INSTANCE TextBuffer
            WITH lines <- Buffer, row <- y + 1, col <- x,
                 Texts <- {LinesOf(CString(c)) : c \in Contents \cup {<<>>}}
ImplementsTextBuffer == Text!TSpec
=============================================================================
