-------------------------------- MODULE Shell --------------------------------
(***************************************************************************)
(* user/sh.c: the line editor and what a line runs.  A function of the     *)
(* module takes the shell's state and a byte of its standard input and     *)
(* gives the new state with the text it writes.                            *)
(***************************************************************************)
EXTENDS Integers, Sequences, SequencesExt

CONSTANTS
    Prompt,           \* what shell_write_prompt writes: characters
    LineMax,          \* SHELL_LINE_CAPACITY - 1
    HistoryMax,       \* SHELL_HISTORY_CAPACITY
    ArgvMax,          \* SHELL_ARGV_CAPACITY
    CommandOutputs    \* texts a command, or the shell about it, may write

\* The shell keeps at least one line.
ASSUME ShellAssumption ==
    Prompt \in Seq(STRING) /\ CommandOutputs \subseteq Seq(STRING) /\ HistoryMax \in Nat \ {0}

\* The variables of shell_read_line; esc is the part of an escape sequence read.
NewLine(history) ==
    [buffer |-> <<>>, cursor |-> 0, rendered |-> 0, pos |-> 0, draft |-> <<>>,
     history |-> history, esc |-> <<>>]

Separator == {" ", "HT"}

RedrawInPlace(buffer, cursor, rendered) ==
    <<"CR">> \o Prompt \o buffer \o <<"CR">> \o Prompt \o SubSeq(buffer, 1, cursor)
Padding(n) == [i \in 1..n |-> " "]
shell_redraw_line(buffer, cursor, rendered) ==
    <<"CR">> \o Prompt \o buffer
      \o Padding(IF rendered > Len(buffer) THEN rendered - Len(buffer) ELSE 0)
      \o <<"CR">> \o Prompt \o SubSeq(buffer, 1, cursor)

Quiet(sh) == [sh |-> sh, out |-> <<>>]
Redrawn(sh, rendered) ==
    [sh |-> sh, out |-> shell_redraw_line(sh.buffer, sh.cursor, rendered)]
\* The line has been replaced or edited: it is redrawn over the old one.
Changed(old, new) == Redrawn([new EXCEPT !.rendered = Len(new.buffer)], old.rendered)

-----------------------------------------------------------------------------
(* Editing.                                                                *)
Insert(sh, c) ==
    IF Len(sh.buffer) >= LineMax THEN Quiet(sh)
    ELSE Changed(sh, [sh EXCEPT !.buffer = InsertAt(@, sh.cursor + 1, c),
                                !.cursor = @ + 1, !.pos = 0])
Backspace(sh) ==
    IF sh.cursor = 0 THEN Quiet(sh)
    ELSE Changed(sh, [sh EXCEPT !.buffer = RemoveAt(@, sh.cursor),
                                !.cursor = @ - 1, !.pos = 0])
Delete(sh) ==
    IF sh.cursor >= Len(sh.buffer) THEN Quiet(sh)
    ELSE Changed(sh, [sh EXCEPT !.buffer = RemoveAt(@, sh.cursor + 1), !.pos = 0])

MoveTo(sh, cursor) == Redrawn([sh EXCEPT !.cursor = cursor], sh.rendered)
Left(sh)  == IF sh.cursor = 0 THEN Quiet(sh) ELSE MoveTo(sh, sh.cursor - 1)
Right(sh) == IF sh.cursor >= Len(sh.buffer) THEN Quiet(sh) ELSE MoveTo(sh, sh.cursor + 1)

\* shell_copy_string into the line.
Recall(sh, text, pos) ==
    Changed(sh, [sh EXCEPT !.buffer = text, !.cursor = Len(text), !.pos = pos])
UpFromLine(sh) ==
    IF sh.history = <<>> THEN Quiet(sh)
    ELSE LET p == IF sh.pos > 1 THEN sh.pos - 1 ELSE Len(sh.history) IN Recall(sh, sh.history[p], p)
Up(sh) ==
    IF sh.history = <<>> THEN Quiet(sh)
    ELSE IF sh.pos = 0
      THEN Recall([sh EXCEPT !.draft = sh.buffer], Last(sh.history), Len(sh.history))
    ELSE LET p == IF sh.pos > 1 THEN sh.pos - 1 ELSE sh.pos IN Recall(sh, sh.history[p], p)
Down(sh) ==
    IF sh.pos = 0 THEN Quiet(sh)
    ELSE IF sh.pos < Len(sh.history) THEN Recall(sh, sh.history[sh.pos + 1], sh.pos + 1)
    ELSE Recall(sh, sh.draft, 0)

\* shell_history_add: not an empty line, not the last one again; the oldest goes.
shell_history_add(history, line) ==
    IF line = <<>> \/ (history # <<>> /\ Last(history) = line) THEN history
    ELSE Append(IF Len(history) < HistoryMax THEN history ELSE Tail(history), line)

-----------------------------------------------------------------------------
(* Running a line.                                                         *)
\* shell_split_arguments
Words(line) == SelectSeq(
    FoldLeft(LAMBDA ws, c : IF c \in Separator THEN Append(ws, <<>>)
                            ELSE Append(Front(ws), Append(Last(ws), c)), <<<<>>>>, line),
    LAMBDA w : w # <<>>)

\* shell_run_command: nothing for an empty line; one message and no program
\* for too many words; else what the command writes.
Outputs(line) ==
    IF Words(line) = <<>> THEN {<<>>}
    ELSE IF Len(Words(line)) > ArgvMax THEN {<<"!", "LF">>}
    ELSE CommandOutputs

Run(sh, output) ==
    [sh |-> NewLine(shell_history_add(sh.history, sh.buffer)),
     out |-> <<"LF">> \o output \o Prompt]

-----------------------------------------------------------------------------
\* The loop of shell_read_line for one byte of the input; output is what the
\* command writes if the byte ends the line.
Sequence(sh, seq) ==
    LET s == [sh EXCEPT !.esc = <<>>]
    IN  CASE seq = <<"ESC", "[", "D">> -> Left(s)
          [] seq = <<"ESC", "[", "C">> -> Right(s)
          [] seq = <<"ESC", "[", "H">> -> MoveTo(s, 0)
          [] seq = <<"ESC", "[", "F">> -> MoveTo(s, Len(s.buffer))
          [] seq = <<"ESC", "[", "A">> -> Up(s)
          [] seq = <<"ESC", "[", "B">> -> Down(s)
          [] seq = <<"ESC", "[", "3", "~">> -> Delete(s)
          [] seq \in {<<"ESC", "[">>, <<"ESC", "[", "3">>} -> Quiet([sh EXCEPT !.esc = seq])
          [] OTHER -> Quiet(s)

shell_read_line(sh, c, output) ==
    IF sh.esc # <<>> THEN Sequence(sh, Append(sh.esc, c))
    ELSE CASE c = "ESC" -> Quiet([sh EXCEPT !.esc = <<"ESC">>])
           [] c \in {"LF", "CR"} -> Run(sh, output)
           [] c = "BS" -> Backspace(sh)
           [] OTHER -> Insert(sh, c)
=============================================================================
