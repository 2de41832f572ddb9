-------------------------------- MODULE Boxes --------------------------------
(***************************************************************************)
(* kconfig/lxdialog, the boxes that mconf puts on the screen.              *)
(*                                                                         *)
(* Lists: the menu (menubox.c), the list of a choice (checklist.c) and the *)
(* question at the end (yesno.c).  A list longer than its window is        *)
(* scrolled: the rows on the screen are moved and only the one that comes  *)
(* into sight and the two whose highlight changes are printed.  The        *)
(* callers in mconf.c show a list again, maybe with other items, until the *)
(* user leaves it.  An item is [data, letter]: what mconf attached to it   *)
(* and its hot key.  Items are counted from 0, as by item_set().           *)
(*                                                                         *)
(* Texts: the box that shows one (textbox.c) and the one that asks for a   *)
(* line (inputbox.c).  A text has lines 1..lineCount; when it ends with a  *)
(* newline the last of them is empty.  Its place "page" is the line that   *)
(* get_line() would return next, or Nul.  The line that is typed is kept   *)
(* byte by byte with what an earlier box left behind its end.              *)
(***************************************************************************)
EXTENDS Integers, Sequences, FiniteSetsExt

CONSTANTS
    MenuLists,      \* the lists a menu may have, as options come and go
    MenuRooms,      \* rows for items: menu_height; 0 when the terminal is too small
    CheckLists,     \* the lists of choices
    CheckRoom       \* list_height, 6

(* A list that is shown has an item: conf() returns from a menu without    *)
(* one, and a choice without a visible member is left out here.            *)
ASSUME ListsAssumption ==
    /\ \A l \in MenuLists \cup CheckLists : l # <<>> /\ l \in Seq({l[i] : i \in DOMAIN l})
    /\ MenuRooms \subseteq Nat /\ CheckRoom \in Nat \ {0}

VARIABLES
    box,            \* menu | check | yesno
    boxPc,          \* off | between (calls of the box) | keys | exit | crashed
    listed,         \* the items
    room,           \* the rows of the window
    choice,         \* the row of the highlight
    scroll,         \* the item in the first row
    firstItem,      \* first_item of dialog_menu()
    savedScroll,    \* s_scroll of its caller
    active,         \* what the caller wants highlighted; "none"
    button,         \* the button that Enter presses
    shownButton,    \* the one shown as active
    rows,           \* the rows on the screen
    place,          \* history variable: the item the keys lead to in a list without a window
    resized         \* was this box drawn again in another size?

listVars == <<box, boxPc, listed, room, choice, scroll, firstItem, savedScroll, active, button,
              shownButton, rows, place, resized>>

None == "none"
Blank == [item |-> -1, lit |-> FALSE]
Row(n, lit) == [item |-> n, lit |-> lit]

MaxChoice == Min({room, Len(listed)})
Item(n) == listed[n + 1]
IndexOf(data, otherwise) ==
    LET found == {i \in DOMAIN listed' : data # None /\ listed'[i].data = data}
    IN IF found = {} THEN otherwise ELSE Max(found) - 1

ListInit(kind) ==
    /\ box = kind /\ boxPc = (IF kind = "off" THEN "off" ELSE "between")
    /\ listed = <<>> /\ room = 0 /\ rows = <<>> /\ choice = 0 /\ scroll = 0 /\ firstItem = 0
    /\ savedScroll = 0 /\ active = None /\ button = 0 /\ shownButton = 0
    /\ place = 0 /\ resized = FALSE

-----------------------------------------------------------------------------
(* Drawing: max rows of a window of h, from the item first on.             *)
Drawn(h, max, first, c) == [r \in 0..h - 1 |-> IF r < max THEN Row(first + r, r = c) ELSE Blank]

\* Mutant of MenuPlace: a saved scroll is used whatever the list is now.
MenuPlace_Trusting(at, max, n) ==
    IF savedScroll <= at THEN savedScroll
    ELSE IF at < max THEN 0
    ELSE IF at >= n - max \div 2 THEN n - max
    ELSE at - max \div 2

KeepsScroll(at, max, n) ==
    savedScroll <= at /\ at < savedScroll + max /\ savedScroll + max <= n

(* The scroll for a highlight at an item: the saved one when that shows    *)
(* the item and fills the window.                                          *)
MenuPlace(at, max, n) ==
    IF KeepsScroll(at, max, n) THEN savedScroll
    ELSE IF at < max THEN 0
    ELSE IF at >= n - max \div 2 THEN n - max
    ELSE at - max \div 2

(* do_resize: first_item is set only with a scroll that is kept or moved;  *)
(* when the scroll falls back to 0 it stays what it was, and an item past  *)
(* the end of the list is a NULL that item_str() follows.                  *)
DrawMenu(h, c0, f0) ==
    LET n == Len(listed')
        max == Min({h, n})
        at == IndexOf(active, c0)
        s == MenuPlace(at, max, n)
    IN /\ scroll' = s /\ choice' = at - s /\ place' = at
       /\ firstItem' = IF KeepsScroll(at, max, n) \/ at >= max THEN s ELSE f0
       /\ rows' = Drawn(h, max, firstItem', choice')
       /\ boxPc' = IF firstItem' + max > n THEN "crashed" ELSE "keys"

TooSmall(h) == h = 0
GiveUpBox == boxPc' = "exit" /\ UNCHANGED <<choice, scroll, firstItem, rows, place>>

(* conf(): the list is built anew for each call.                           *)
OpenMenu ==
    /\ box = "menu" /\ boxPc = "between"
    /\ listed' \in MenuLists /\ room' \in MenuRooms
    /\ IF TooSmall(room') THEN GiveUpBox ELSE DrawMenu(room', 0, 0)
    /\ button' = 0 /\ shownButton' = 0 /\ resized' = FALSE
    /\ UNCHANGED <<box, savedScroll, active>>

(* A new size: the button is shown as the first and kept as it is.         *)
MenuResize ==
    /\ box = "menu" /\ boxPc = "keys"
    /\ room' \in MenuRooms
    /\ UNCHANGED listed
    /\ IF TooSmall(room') THEN GiveUpBox ELSE DrawMenu(room', choice, firstItem)
    /\ shownButton' = 0 /\ resized' = TRUE
    /\ UNCHANGED <<box, savedScroll, active, button>>

DrawCheck(c, s) ==
    /\ choice' = IF c >= CheckRoom THEN CheckRoom - 1 ELSE c
    /\ scroll' = IF c >= CheckRoom THEN c - CheckRoom + 1 ELSE s
    /\ rows' = Drawn(CheckRoom, Min({CheckRoom, Len(listed')}), scroll', choice')
    /\ boxPc' = "keys" /\ shownButton' = 0

(* conf_choice(): the highlight is on the member that had the last help,   *)
(* or on the one that is set, when it is listed.                           *)
OpenCheck ==
    /\ box = "check" /\ boxPc = "between"
    /\ listed' \in CheckLists /\ room' = CheckRoom
    /\ \E set \in {listed'[i].data : i \in DOMAIN listed'} \cup {None} :
         LET at == IndexOf(active, IndexOf(set, 0))
         IN DrawCheck(at, 0) /\ place' = at
    /\ button' = 0 /\ resized' = FALSE
    /\ UNCHANGED <<box, firstItem, savedScroll, active>>

CheckResize ==
    /\ box = "check" /\ boxPc = "keys"
    /\ UNCHANGED listed
    /\ DrawCheck(choice, scroll) /\ place' = scroll' + choice' /\ resized' = TRUE
    /\ UNCHANGED <<box, room, firstItem, savedScroll, active, button>>

OpenYesNo ==
    /\ box = "yesno" /\ boxPc = "between"
    /\ boxPc' = "keys" /\ button' = 0 /\ shownButton' = 0 /\ resized' = FALSE
    /\ UNCHANGED <<box, listed, room, choice, scroll, firstItem, savedScroll, active, rows, place>>

YesNoResize ==
    /\ box = "yesno" /\ boxPc = "keys"
    /\ shownButton' = 0 /\ resized' = TRUE
    /\ UNCHANGED <<box, boxPc, listed, room, choice, scroll, firstItem, savedScroll, active, button,
                   rows, place>>

-----------------------------------------------------------------------------
(* Keys.                                                                   *)
Pressing(kind) == box = kind /\ boxPc = "keys"
KeepBox == UNCHANGED <<box, boxPc, listed, room, firstItem, savedScroll, active, button,
                       shownButton, resized>>

\* Mutant of MoveTo: the row that comes into sight is not printed.
MoveTo_NotPrinted(n, c) ==
    LET unlit == [rows EXCEPT ![choice] = Row(scroll + choice, FALSE)]
        moved == [r \in DOMAIN rows |-> IF r + n \in DOMAIN rows THEN unlit[r + n] ELSE Blank]
    IN /\ rows' = [moved EXCEPT ![c] = Row(scroll + n + c, TRUE)]
       /\ scroll' = scroll + n /\ choice' = c

(* The window is moved by n items and the highlight to its row c: the old  *)
(* row is printed without highlight, the rows that come into sight are     *)
(* printed, then the new one.                                              *)
MoveTo(n, c) ==
    LET unlit == [rows EXCEPT ![choice] = Row(scroll + choice, FALSE)]
        moved == [r \in DOMAIN rows |-> IF r + n \in DOMAIN rows THEN unlit[r + n]
                                        ELSE Row(scroll + n + r, FALSE)]
    IN /\ rows' = [moved EXCEPT ![c] = Row(scroll + n + c, TRUE)]
       /\ scroll' = scroll + n /\ choice' = c

Leads(p) == place' = Max({0, Min({p, Len(listed) - 1})})

MenuUp ==
    /\ Pressing("menu") /\ KeepBox /\ Leads(place - 1)
    /\ IF choice < 2 /\ scroll > 0 THEN MoveTo(-1, choice) ELSE MoveTo(0, Max({choice - 1, 0}))

\* Mutant of MenuDown: the window stops one item too early.
MenuDown_LastHidden ==
    /\ Pressing("menu") /\ KeepBox /\ Leads(place + 1)
    /\ IF choice > MaxChoice - 3 /\ scroll + MaxChoice < Len(listed) - 1
         THEN MoveTo(1, choice)
         ELSE MoveTo(0, Min({choice + 1, MaxChoice - 1}))

MenuDown ==
    /\ Pressing("menu") /\ KeepBox /\ Leads(place + 1)
    /\ IF choice > MaxChoice - 3 /\ scroll + MaxChoice < Len(listed)
         THEN MoveTo(1, choice)
         ELSE MoveTo(0, Min({choice + 1, MaxChoice - 1}))

(* As many lines as the window has: first by scrolling, then by the        *)
(* highlight.                                                              *)
MenuPageUp ==
    /\ Pressing("menu") /\ KeepBox /\ Leads(place - MaxChoice)
    /\ LET n == Min({MaxChoice, scroll})
       IN MoveTo(-n, Max({choice - (MaxChoice - n), 0}))

MenuPageDown ==
    /\ Pressing("menu") /\ KeepBox /\ Leads(place + MaxChoice)
    /\ LET n == Min({MaxChoice, Len(listed) - scroll - MaxChoice})
       IN MoveTo(n, Min({choice + (MaxChoice - n), MaxChoice - 1}))

(* The rows whose item has this hot key; y, n, m and h are none in a menu. *)
RowsWith(k) == {r \in 0..MaxChoice - 1 : Item(scroll + r).letter = k}
Jumps(k) == RowsWith(k) # {} /\ ~(box = "menu" /\ k \in {"y", "n", "m", "h"})

MenuJump ==
    /\ Pressing("menu") /\ KeepBox
    /\ \E k \in {listed[i].letter : i \in DOMAIN listed} :
         /\ Jumps(k)
         /\ LET below == {r \in RowsWith(k) : r > choice}
            IN MoveTo(0, Min(IF below = {} THEN RowsWith(k) ELSE below))
    /\ place' = scroll' + choice'

CheckUp ==
    /\ Pressing("check") /\ KeepBox /\ Leads(place - 1)
    /\ IF choice > 0 THEN MoveTo(0, choice - 1)
       ELSE IF scroll > 0 THEN MoveTo(-1, 0)
       ELSE UNCHANGED <<rows, scroll, choice>>

CheckDown ==
    /\ Pressing("check") /\ KeepBox /\ Leads(place + 1)
    /\ IF choice < MaxChoice - 1 THEN MoveTo(0, choice + 1)
       ELSE IF scroll + choice < Len(listed) - 1 THEN MoveTo(1, choice)
       ELSE UNCHANGED <<rows, scroll, choice>>

CheckJump ==
    /\ Pressing("check") /\ KeepBox
    /\ \E k \in {listed[i].letter : i \in DOMAIN listed} :
         Jumps(k) /\ MoveTo(0, Min(RowsWith(k)))
    /\ place' = scroll' + choice'

Buttons == IF box = "menu" THEN 3 ELSE 2

TurnButton ==
    /\ boxPc = "keys"
    /\ \E step \in {-1, 1} : button' = (button + step) % Buttons
    /\ shownButton' = button'
    /\ UNCHANGED <<box, boxPc, listed, room, choice, scroll, firstItem, savedScroll, active, rows,
                   place, resized>>

-----------------------------------------------------------------------------
(* The ends of a call.                                                     *)
Over == UNCHANGED <<box, listed, room, choice, scroll, firstItem, button, shownButton, rows,
                    place, resized>>

(* Every key but Enter on "Exit" has conf() act on the item and go on.     *)
MenuReturn ==
    /\ Pressing("menu")
    /\ \E k \in {"enter", "y", "n", "m", "h", "s", "space", "/", "?"} :
         /\ ~Jumps(k)
         /\ boxPc' = IF k = "enter" /\ button = 1 THEN "exit" ELSE "between"
    /\ savedScroll' = scroll /\ active' = Item(scroll + choice).data
    /\ Over

(* Help comes back to the list, with the item as the active one.           *)
CheckReturn ==
    /\ Pressing("check")
    /\ \E k \in {"enter", "space", "s", "h", "?"} :
         /\ ~Jumps(k)
         /\ boxPc' = IF k \in {"h", "?"} \/ button = 1 THEN "between" ELSE "exit"
    /\ active' = Item(scroll + choice).data
    /\ UNCHANGED savedScroll /\ Over

YesNoReturn == Pressing("yesno") /\ boxPc' = "exit" /\ UNCHANGED <<savedScroll, active>> /\ Over

(* ESC (on_key_esc drops the sequences it begins), "e" or "x" where the    *)
(* box has them, or a terminal that became too small for a box of fixed    *)
(* size.                                                                   *)
LeaveBox ==
    /\ boxPc = "keys"
    /\ \E k \in {"esc"} \cup (CASE box = "menu" -> {"e", "x"} [] box = "check" -> {"x"}
                                [] box = "yesno" -> {}) :
         k = "esc" \/ ~Jumps(k)
    /\ boxPc' = "exit"
    /\ UNCHANGED <<savedScroll, active>> /\ Over

ListNext ==
    \/ OpenMenu \/ MenuResize \/ MenuUp \/ MenuDown \/ MenuPageUp \/ MenuPageDown \/ MenuJump
    \/ MenuReturn
    \/ OpenCheck \/ CheckResize \/ CheckUp \/ CheckDown \/ CheckJump \/ CheckReturn
    \/ OpenYesNo \/ YesNoResize \/ YesNoReturn
    \/ TurnButton \/ LeaveBox

-----------------------------------------------------------------------------
(* The rows are those that a window drawn as a whole would have.           *)
RowsTrue == boxPc = "keys" /\ box # "yesno" => rows = Drawn(room, MaxChoice, scroll, choice)

(* ListImage: the window never leaves the list or shows less of it than it *)
(* can; and what is shown is what a key acts on: the rows are true, the    *)
(* highlight is where the keys lead in a list without a window, and the    *)
(* button shown is the one Enter presses.  Drawn again in a new size a box *)
(* may show other rows and another button than those it acts on.           *)
ListImage ==
    /\ boxPc = "keys" /\ box # "yesno" =>
         choice \in 0..MaxChoice - 1 /\ scroll \in 0..Len(listed) - MaxChoice
    /\ boxPc = "keys" /\ ~resized =>
         RowsTrue /\ shownButton = button /\ (box # "yesno" => scroll + choice = place)
    /\ boxPc = "crashed" => resized

-----------------------------------------------------------------------------
(* Texts.                                                                  *)
CONSTANTS
    TextRuns,       \* [lines, ended]: a text, and whether a newline ends it
    TextRooms,      \* heights of the box for the text: boxh
    MaxScroll,      \* MAX_LEN, 2048, as far as a text scrolls to the right
    FieldWidth,     \* box_width
    MaxInput,       \* MAX_LEN, 2048
    FirstInputs,    \* what may be in the line at first
    InputLetters    \* what may be typed

(* The empty line after the last newline counts.  A box without a row, as  *)
(* on a terminal of eight, is left out.                                    *)
ASSUME TextsAssumption ==
    /\ \A r \in TextRuns : r.lines \in Nat \ {0} /\ (r.ended => r.lines >= 2)
    /\ TextRooms \subseteq Nat \ {0}

VARIABLES
    xpc,            \* off | keys | exit, of the text box
    lineCount, ended,
    page,           \* the line that follows those that were read
    beginReached, endReached,
    pageLength,     \* lines on the screen
    hscroll,
    boxh,           \* rows of the box
    screen,         \* row -> [line, from], the line and the column it is shown from
    top             \* history variable: the line that the keys lead to

textVars == <<xpc, lineCount, ended, page, beginReached, endReached, pageLength, hscroll, boxh,
              screen, top>>

VARIABLES
    ipc,            \* off | keys | exit | undefined, of the input box
    instr,          \* dialog_input_result
    fieldScroll, inputX,    \* scroll, input_x
    inputButton,    \* -1: the field
    shownInput,     \* the button shown as active
    cells,          \* the field on the screen
    typed,          \* history variable: the line the keys make; <<>> when redrawn
    redrawn         \* was the box drawn again in another size?

inputVars == <<ipc, instr, fieldScroll, inputX, inputButton, shownInput, cells, typed, redrawn>>

-----------------------------------------------------------------------------
TextInit(run) ==
    /\ lineCount = run.lines /\ ended = run.ended
    /\ xpc = "off" /\ page = 1 /\ beginReached = TRUE /\ endReached = FALSE /\ pageLength = 0
    /\ hscroll = 0 /\ boxh = 0 /\ screen = <<>> /\ top = 1

Nul == IF ended THEN lineCount ELSE lineCount + 1
NoLine == [line |-> 0, from |-> 0]
Cell(line, from) == IF line < Nul THEN [line |-> line, from |-> from] ELSE NoLine

\* Mutant of BackLines: the end that was reached is not counted as a line.
BackLines_NoEnd(n) ==
    [page |-> Max({1, page - n}), begin |-> n > 0 /\ page - n <= 1]

(* back_lines(): the end of the text, once it was read, is a line of its   *)
(* own.                                                                    *)
BackLines(n) ==
    LET m == IF page = Nul /\ endReached /\ n > 0 THEN n - 1 ELSE n
    IN [page |-> Max({1, page - m}), begin |-> m > 0 /\ page - m <= 1]

(* print_page() from a line: as many get_line() as there are rows.  The    *)
(* last line of a text without a newline at its end reaches the end too.   *)
ReadPage(p, h) ==
    /\ page' = Min({p + h, Nul})
    /\ endReached' = (p + h - 1 >= lineCount)
    /\ pageLength' = Min({h, Max({lineCount - p + 1, 1})})

PrintPage(p, h, from) ==
    /\ ReadPage(p, h)
    /\ screen' = [r \in 0..h - 1 |-> Cell(p + r, from)]

OpenText ==
    /\ xpc = "off" /\ xpc' = "keys"
    /\ boxh' \in TextRooms
    /\ PrintPage(1, boxh', 0)
    /\ UNCHANGED <<lineCount, ended, beginReached, hscroll, top>>

Reading == xpc = "keys" /\ UNCHANGED <<xpc, lineCount, ended>>
SameBox == UNCHANGED <<hscroll, boxh>>

TextHome ==
    /\ Reading /\ SameBox /\ ~beginReached
    /\ beginReached' = TRUE /\ top' = 1
    /\ PrintPage(1, boxh, hscroll)

TextEnd ==
    /\ Reading /\ SameBox
    /\ LET p == Max({1, Nul - (boxh - 1)})
       IN /\ beginReached' = (boxh > 1 /\ Nul - (boxh - 1) <= 1)
          /\ PrintPage(p, boxh, hscroll)
    /\ top' = Max({1, lineCount - boxh + 1})

(* The rows are moved by one and only the new row is printed; get_line()   *)
(* is called for the others to move the page.                              *)
TextUp ==
    /\ Reading /\ SameBox /\ ~beginReached
    /\ LET b == BackLines(pageLength + 1)
       IN /\ beginReached' = b.begin
          /\ ReadPage(b.page, boxh)
          /\ screen' = [r \in DOMAIN screen |-> IF r = 0 THEN Cell(b.page, hscroll)
                                                ELSE screen[r - 1]]
    /\ top' = Max({1, top - 1})

(* page_length stays: the page was full, or the end was reached.           *)
TextDown ==
    /\ Reading /\ SameBox /\ ~endReached
    /\ beginReached' = FALSE
    /\ screen' = [r \in DOMAIN screen |-> IF r = boxh - 1 THEN Cell(page, hscroll)
                                          ELSE screen[r + 1]]
    /\ page' = Min({page + 1, Nul}) /\ endReached' = (page >= lineCount)
    /\ UNCHANGED pageLength
    /\ top' = top + 1

TextPageUp ==
    /\ Reading /\ SameBox /\ ~beginReached
    /\ LET b == BackLines(pageLength + boxh)
       IN beginReached' = b.begin /\ PrintPage(b.page, boxh, hscroll)
    /\ top' = Max({1, top - boxh})

TextPageDown ==
    /\ Reading /\ SameBox /\ ~endReached
    /\ beginReached' = FALSE /\ PrintPage(page, boxh, hscroll)
    /\ top' = top + boxh

(* To the side: the page is read again from its first line.                *)
Sideways(from) ==
    /\ LET b == BackLines(pageLength)
       IN beginReached' = b.begin /\ PrintPage(b.page, boxh, from)
    /\ hscroll' = from
    /\ UNCHANGED <<boxh, top>>

TextLeft == Reading /\ hscroll > 0 /\ \E from \in {0, hscroll - 1} : Sideways(from)

TextRight == Reading /\ hscroll < MaxScroll /\ Sideways(hscroll + 1)

(* The height it goes back is that of the whole dialog, four more.         *)
TextResize ==
    /\ Reading
    /\ boxh' \in TextRooms
    /\ LET b == BackLines(boxh + 4)
       IN beginReached' = b.begin /\ PrintPage(b.page, boxh', hscroll) /\ top' = b.page
    /\ UNCHANGED hscroll

TextClose == /\ xpc = "keys" /\ xpc' = "exit"
             /\ UNCHANGED <<lineCount, ended, page, beginReached, endReached, pageLength, hscroll,
                            boxh, screen, top>>

TextNext ==
    \/ OpenText \/ TextHome \/ TextEnd \/ TextUp \/ TextDown \/ TextPageUp \/ TextPageDown
    \/ TextLeft \/ TextRight \/ TextResize \/ TextClose

(* TextImage: of a text that a newline ends, whichever way it was scrolled *)
(* and although only some rows are printed, the screen has the lines from  *)
(* top on, and both ends of the text are known for what they are.          *)
TextImage ==
    xpc = "keys" /\ ended =>
        /\ screen = [r \in 0..boxh - 1 |-> Cell(top + r, hscroll)]
        /\ beginReached = (top = 1)
        /\ endReached = (top + boxh > lineCount)

-----------------------------------------------------------------------------
End0 == "nul"
NoChar == " "

(* The caller's line has room in the line that is typed.                   *)
ASSUME InputsAssumption ==
    /\ FieldWidth \in Nat \ {0} /\ MaxInput \in Nat
    /\ End0 \notin InputLetters
    /\ \A l \in FirstInputs : /\ l \in Seq({l[i] : i \in DOMAIN l}) /\ Len(l) <= MaxInput
                             /\ \A i \in DOMAIN l : l[i] # End0

(* The bytes up to the first NUL.                                          *)
Length == Min({i \in DOMAIN instr : instr[i] = End0}) - 1
Line0 == SubSeq(instr, 1, Length)

(* strcpy() over what the last box left.                                   *)
InputInit(first, stale) ==
    /\ ipc = "off"
    /\ instr = [i \in 1..MaxInput + 1 |->
                  IF i <= Len(first) THEN first[i]
                  ELSE IF i = Len(first) + 1 \/ i > stale THEN End0 ELSE "stale"]
    /\ fieldScroll = 0 /\ inputX = 0 /\ inputButton = -1 /\ shownInput = 0
    /\ cells = [i \in 0..FieldWidth - 1 |-> NoChar] /\ typed = first /\ redrawn = FALSE

(* do_resize: a line that fits the field is shown from its begin, and the  *)
(* scroll stays what it was.                                               *)
DrawInput ==
    LET n == Length
        s == IF n >= FieldWidth THEN n - FieldWidth + 1 ELSE 0
    IN /\ fieldScroll' = IF n >= FieldWidth THEN s ELSE fieldScroll
       /\ inputX' = n - s
       /\ cells' = [i \in 0..FieldWidth - 1 |-> IF i < n - s THEN instr[s + i + 1] ELSE NoChar]
       /\ shownInput' = 0

OpenInput ==
    /\ ipc = "off" /\ ipc' = "keys"
    /\ DrawInput
    /\ UNCHANGED <<instr, inputButton, typed, redrawn>>

InputResize ==
    /\ ipc = "keys" /\ DrawInput /\ redrawn' = TRUE /\ typed' = <<>>
    /\ UNCHANGED <<ipc, instr, inputButton>>

InField == ipc = "keys" /\ inputButton = -1
Editing == InField /\ UNCHANGED <<ipc, inputButton, shownInput, redrawn>>

(* The line is told from its keys until the box is drawn again.            *)
Makes(l) == typed' = IF redrawn THEN <<>> ELSE l

InputLetter ==
    /\ Editing
    /\ LET p == fieldScroll + inputX
       IN \E c \in InputLetters :
            /\ p < MaxInput
            /\ instr' = [instr EXCEPT ![p + 1] = c, ![p + 2] = End0]
            /\ Makes(Append(typed, c))
            /\ IF inputX = FieldWidth - 1
                 THEN /\ fieldScroll' = fieldScroll + 1
                      /\ cells' = [i \in DOMAIN cells |->
                                     IF i < FieldWidth - 1 THEN instr'[fieldScroll' + i + 1]
                                     ELSE cells[i]]
                      /\ UNCHANGED inputX
                 ELSE /\ cells' = [cells EXCEPT ![inputX] = c]
                      /\ inputX' = inputX + 1
                      /\ UNCHANGED fieldScroll

\* Mutant of InputBackspace: the cell behind the end is not cleared.
InputBackspace_Shown ==
    /\ Editing /\ inputX # 0 /\ fieldScroll + inputX > 0
    /\ inputX' = inputX - 1
    /\ instr' = [instr EXCEPT ![fieldScroll + inputX] = End0]
    /\ Makes(SubSeq(typed, 1, Len(typed) - 1))
    /\ UNCHANGED <<fieldScroll, cells>>

InputBackspace ==
    /\ Editing /\ inputX # 0 /\ fieldScroll + inputX > 0
    /\ inputX' = inputX - 1
    /\ instr' = [instr EXCEPT ![fieldScroll + inputX] = End0]
    /\ cells' = [cells EXCEPT ![inputX - 1] = NoChar]
    /\ Makes(SubSeq(typed, 1, Len(typed) - 1))
    /\ UNCHANGED fieldScroll

(* Left of the field and of the line: a byte before the line is set.       *)
InputUnderrun ==
    /\ InField /\ inputX # 0 /\ fieldScroll + inputX = 0
    /\ ipc' = "undefined"
    /\ UNCHANGED <<instr, fieldScroll, inputX, inputButton, shownInput, cells, typed, redrawn>>

(* Nothing is left in the field: it is filled with what is before it.      *)
(* This takes a key that removes nothing.                                  *)
InputRefill ==
    /\ Editing /\ inputX = 0 /\ fieldScroll > 0
    /\ fieldScroll' = IF fieldScroll < FieldWidth - 1 THEN 0 ELSE fieldScroll - (FieldWidth - 1)
    /\ inputX' = Length - fieldScroll'
    /\ instr' = [instr EXCEPT ![fieldScroll' + inputX' + 1] = End0]
    /\ cells' = [i \in DOMAIN cells |->
                   IF i = inputX' \/ instr[fieldScroll' + i + 1] = End0 THEN NoChar
                   ELSE instr[fieldScroll' + i + 1]]
    /\ UNCHANGED typed

(* Field, Ok and Help in a circle; Left and Right do nothing in the field. *)
InputTurn ==
    /\ ipc = "keys"
    /\ \E step \in {-1, 1} : inputButton' = ((inputButton + 1 + step) % 3) - 1
    /\ shownInput' = IF inputButton' = 1 THEN 1 ELSE 0
    /\ UNCHANGED <<ipc, instr, fieldScroll, inputX, cells, typed, redrawn>>

InputClose ==
    /\ ipc = "keys" /\ ipc' = "exit"
    /\ UNCHANGED <<instr, fieldScroll, inputX, inputButton, shownInput, cells, typed, redrawn>>

InputNext ==
    \/ OpenInput \/ InputResize \/ InputLetter \/ InputBackspace \/ InputUnderrun \/ InputRefill
    \/ InputTurn \/ InputClose

(* The next letter goes to the end of the line, the field shows the part   *)
(* of it that it is scrolled to, and the button is the one Enter presses.  *)
InputTrue ==
    ipc = "keys" =>
        /\ fieldScroll + inputX = Length
        /\ cells = [i \in 0..FieldWidth - 1 |->
                      IF i < inputX THEN instr[fieldScroll + i + 1] ELSE NoChar]
        /\ shownInput = Max({inputButton, 0})

(* InputImage: so it is until the box is drawn again in another size, and  *)
(* the line is what was typed.                                             *)
InputImage == ~redrawn => InputTrue /\ Line0 = typed /\ ipc # "undefined"
=============================================================================
