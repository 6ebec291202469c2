------------------------------ MODULE Terminal ------------------------------
(***************************************************************************)
(* gui/terminal_session.c: the text of one session.  The code keeps the    *)
(* lines in a ring of which history_start is the oldest; here they are a   *)
(* sequence, and gone counts the lines the ring has overwritten.           *)
(***************************************************************************)
EXTENDS Integers, Sequences, SequencesExt

CONSTANTS
    Columns,        \* GUI_TERMINAL_COLUMNS, a multiple of the tab width
    Rows,           \* GUI_TERMINAL_ROWS
    HistoryLines    \* GUI_TERMINAL_HISTORY_LINES

\* There is a line to write to, and paging moves by some lines or none.
ASSUME TerminalAssumption ==
    Columns \in Nat \ {0} /\ Rows \in Nat \ {0, 1} /\ HistoryLines \in Nat \ {0}

\* FoldLeft with every intermediate result evaluated once: TLC passes arguments
\* unevaluated, and these are used many times.
Fold(op(_, _), base, seq) ==
    LET f[i \in 0..Len(seq)] ==
          IF i = 0 THEN base ELSE CHOOSE r \in {op(v, seq[i]) : v \in {f[i - 1]}} : TRUE
    IN  f[Len(seq)]

TabWidth == 4
PageScroll == Rows - 2
Blank == [c \in 0..(Columns - 1) |-> " "]

\* gui_terminal_reset_history_locked; gone goes on counting.
ResetHistory(gone) == [lines |-> <<Blank>>, col |-> 0, scroll |-> 0, gone |-> gone]

MaxScroll(lines) == IF Len(lines) <= Rows THEN 0 ELSE Len(lines) - Rows
Clamp(offset, lines) == IF offset > MaxScroll(lines) THEN MaxScroll(lines) ELSE offset

\* gui_terminal_append_line_locked: a reader who has scrolled back keeps the
\* lines in view.
AppendLeavesScroll(s) ==
    LET full == Len(s.lines) = HistoryLines
    IN  [s EXCEPT !.lines = Append(IF full THEN Tail(@) ELSE @, Blank),
                  !.gone = IF full THEN @ + 1 ELSE @]
AppendLine(s) ==
    LET full == Len(s.lines) = HistoryLines
        lines == Append(IF full THEN Tail(s.lines) ELSE s.lines, Blank)
    IN  [s EXCEPT !.lines = lines,
                  !.gone = IF full THEN @ + 1 ELSE @,
                  !.scroll = Clamp(IF @ # 0 /\ @ < HistoryLines THEN @ + 1 ELSE @, lines)]
Newline(s) == AppendLine([s EXCEPT !.col = 0])

\* The end of gui_terminal_putchar_locked: a printable character.
PutCell(s, c) ==
    LET written == [s EXCEPT !.lines[Len(s.lines)][s.col] = c, !.col = @ + 1]
    IN  IF written.col >= Columns THEN Newline(written) ELSE written

\* A tab, and a backspace.
Spaces(s, n) == Fold(PutCell, s, [i \in 1..n |-> " "])
Erase(s) == IF s.col = 0 THEN s
            ELSE [s EXCEPT !.col = @ - 1, !.lines[Len(s.lines)][s.col - 1] = " "]

gui_terminal_putchar(s, c) ==
    CASE c = "LF" -> Newline(s)
      [] c = "CR" -> [s EXCEPT !.col = 0]
      [] c = "BS" -> Erase(s)
      [] c = "HT" -> Spaces(s, TabWidth - (s.col % TabWidth))
      [] c = "VT" -> AppendLine(s)
      [] c = "FF" -> ResetHistory(s.gone + Len(s.lines))
      [] c \in {"BEL", "ESC"} -> s
      [] OTHER -> PutCell(s, c)

gui_terminal_session_write(s, text) == Fold(gui_terminal_putchar, s, text)

gui_terminal_scroll_view_up(s) == [s EXCEPT !.scroll = Clamp(@ + PageScroll, s.lines)]
gui_terminal_scroll_view_down(s) ==
    [s EXCEPT !.scroll = IF PageScroll >= @ THEN 0 ELSE @ - PageScroll]

\* gui_terminal_render: the number, counted from the first line ever written,
\* of the first line in view.
FirstVisible(s) ==
    s.gone + (IF Len(s.lines) > Rows THEN Len(s.lines) - Rows - s.scroll ELSE 0)
=============================================================================
