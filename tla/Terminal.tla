------------------------------ MODULE Terminal ------------------------------
(***************************************************************************)
(* The VGA text console of terminal.c: a cursor and a screen of cells, as  *)
(* functions from one screen to the next, for the modules that write to it *)
(* from inside a larger step.  Colours, and the boxes drawn at fixed       *)
(* places, are left out.                                                   *)
(***************************************************************************)
EXTENDS Integers, Sequences, SequencesExt

CONSTANTS VGA_WIDTH, VGA_HEIGHT

ASSUME TerminalAssumption ==
    VGA_WIDTH \in Nat \ {0} /\ VGA_HEIGHT \in Nat \ {0}

Row == 0 .. VGA_HEIGHT - 1
Column == 0 .. VGA_WIDTH - 1

BLANK == " "
NEWLINE == "newline"
BACKSPACE == "backspace"

BlankRow == [x \in Column |-> BLANK]

terminal_initialize ==
    [row |-> 0, column |-> 0, buffer |-> [y \in Row |-> BlankRow]]

terminal_putentryat(t, c) == [t EXCEPT !.buffer[t.row][t.column] = c]

(* Mutant: the last row keeps what it showed. *)
terminal_scroll_KeepsLast(t) ==
    [t EXCEPT !.row = VGA_HEIGHT - 1,
              !.buffer = [y \in Row |-> IF y + 1 \in Row THEN t.buffer[y + 1] ELSE t.buffer[y]]]
terminal_scroll(t) ==
    [t EXCEPT !.row = VGA_HEIGHT - 1,
              !.buffer = [y \in Row |-> IF y + 1 \in Row THEN t.buffer[y + 1] ELSE BlankRow]]

NextRow(t) ==
    LET below == [t EXCEPT !.column = 0, !.row = @ + 1] IN
    IF below.row = VGA_HEIGHT THEN terminal_scroll(below) ELSE below

(* Backspace stops at the left edge. *)
Erase(t) ==
    IF t.column = 0 THEN t
    ELSE terminal_putentryat([t EXCEPT !.column = @ - 1], BLANK)

Write(t, c) ==
    LET shown == terminal_putentryat(t, c) IN
    IF t.column + 1 = VGA_WIDTH THEN NextRow(shown)
    ELSE [shown EXCEPT !.column = @ + 1]

terminal_putchar(t, c) ==
    CASE c = NEWLINE -> NextRow(t)
      [] c = BACKSPACE -> Erase(t)
      [] OTHER -> Write(t, c)

terminal_writestring(t, s) == FoldLeft(terminal_putchar, t, s)

-----------------------------------------------------------------------------
(* The cell n places after the top left corner, row by row. *)
CellOf(t, n) == t.buffer[n \div VGA_WIDTH][n % VGA_WIDTH]
Cursor(t) == t.row * VGA_WIDTH + t.column
=============================================================================
