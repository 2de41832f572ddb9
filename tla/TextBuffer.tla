----------------------------- MODULE TextBuffer -----------------------------
(***************************************************************************)
(* What the editor of devel/simped.c promises to whoever types into it: a  *)
(* text of at least one line with a cursor on it, where each key does the  *)
(* one thing its name says.  Simped, which keeps the text in a doubly      *)
(* linked list of lines, is shown to implement this module.                *)
(***************************************************************************)
EXTENDS Integers, Sequences

CONSTANTS Char,         \* the characters that can be typed
          Tab,          \* what the tab key inserts
          Texts         \* the texts the editor may start with

VARIABLES lines,        \* the text: a sequence of sequences of characters
          row, col      \* the cursor, before column col + 1 of line row

tvars == <<lines, row, col>>

TInit ==
    /\ lines \in Texts
    /\ row = 1
    /\ col = 0

Before(s, n) == SubSeq(s, 1, n)
Behind(s, n) == SubSeq(s, n + 1, Len(s))

\* s appears at the cursor, which moves behind it.
Type(s) ==
    /\ UNCHANGED row
    /\ col' = col + Len(s)
    /\ lines' = [lines EXCEPT ![row] = Before(@, col) \o s \o Behind(@, col)]

\* The character before the cursor goes.
DeleteBack ==
    /\ col > 0
    /\ UNCHANGED row
    /\ col' = col - 1
    /\ lines' = [lines EXCEPT ![row] = Before(@, col - 1) \o Behind(@, col)]

\* The line breaks at the cursor.
Break ==
    /\ row' = row + 1
    /\ col' = 0
    /\ lines' = Before(lines, row - 1)
                  \o <<Before(lines[row], col), Behind(lines[row], col)>>
                  \o Behind(lines, row)

\* The line joins the one above it and the cursor stays between the two.
Join ==
    /\ col = 0
    /\ row > 1
    /\ row' = row - 1
    /\ col' = Len(lines[row - 1])
    /\ lines' = Before(lines, row - 2)
                  \o <<lines[row - 1] \o lines[row]>> \o Behind(lines, row)

\* The cursor moves to a place in the text.
Move ==
    /\ row' - row \in {-1, 0, 1}
    /\ row' \in 1..Len(lines)
    /\ col' \in 0..Len(lines[row'])
    /\ UNCHANGED lines

TNext ==
    \/ \E c \in Char : Type(<<c>>)
    \/ Type(Tab)
    \/ DeleteBack \/ Break \/ Join \/ Move

TSpec == TInit /\ [][TNext]_tvars
=============================================================================
