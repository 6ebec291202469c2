------------------------------- MODULE Console -------------------------------
(***************************************************************************)
(* A key from the keyboard to the line it edits.  The interrupt handler    *)
(* decodes scancodes (Keyboard) and publishes them; gui/input.c queues     *)
(* them for the GUI task, which hands characters and escape sequences to   *)
(* the session of the active window; the shell of the session reads them   *)
(* byte by byte and redraws its line in the session's text (Terminal,      *)
(* Shell).  A shell without a session reads the keyboard's characters      *)
(* itself, and a program may ask for key events instead.                   *)
(***************************************************************************)
EXTENDS Keyboard, Terminal, Shell

CONSTANTS
    GuiSlots,      \* GUI_INPUT_EVENT_BUFFER_SIZE - 1
    InputSlots,    \* GUI_TERMINAL_INPUT_CAPACITY - 1
    Readers,       \* who reads: subset of {"session", "console", "events"}
    TapKeys,       \* for every reader, keys struck and let go: their make codes
    HoldKeys,      \* keys held down (modifiers, locks)
    Histories,     \* for every reader, lines its shell may have been given before
    OtherBytes,    \* byte sequences of keys the driver ignores
    MaxStrokes     \* bound: strokes of the user

VARIABLES
    reader,    \* one of Readers, for ever
    gui,       \* gui_input_events between its indices
    guiCount,  \* count of gui_input_available
    thread,    \* the GUI task: permit taken, characters it still has to push
    input,     \* the session's input ring
    taken,     \* the reader of the keyboard has a permit
    shell,     \* state of shell_read_line
    screen,    \* the session's text
    cut,       \* a byte for the shell was dropped
    held, lamp, strokes    \* the keyboard itself: keys held, caps lock

vars == <<keyboardVars, reader, gui, guiCount, thread, input, taken, shell, screen,
          cut, held, lamp, strokes>>
consoleVars == <<gui, guiCount, thread, input, taken, shell, screen, cut>>

\* The make codes of the keys that the driver knows; pause has no release, and
\* print screen none that the driver would tell from its make code.
NameOf(code) == IF Len(code) = 2 THEN decode_extended_key(code[2])[1] ELSE decode_normal_key(code[1])[1]
MakeCodes == {code \in {<<c>> : c \in 1..88} \cup {<<E0, c>> : c \in DOMAIN Extended} :
                NameOf(code) # "UNKNOWN"}
Pause == <<225, 29, 69, 225, 157, 197>>
PrintScreen == <<224, 42, 224, 55, 224, 183, 224, 170>>

\* A key is struck or held, but not both, and caps lock is held.
ASSUME ConsoleAssumption ==
    /\ GuiSlots \in Nat \ {0} /\ InputSlots \in Nat \ {0}
    /\ \A r \in Readers :
          /\ TapKeys[r] \subseteq MakeCodes /\ HoldKeys[r] \subseteq MakeCodes
          /\ OtherBytes[r] \subseteq {Pause, PrintScreen}
          /\ \A k \in TapKeys[r] : NameOf(k) # "CAPS_LOCK"
                                   /\ \A h \in HoldKeys[r] : NameOf(k) # NameOf(h)
          /\ Histories[r] \subseteq Seq(Seq(STRING))

Idle == [permit |-> FALSE, push |-> <<>>]

Init ==
    /\ wire = <<>> /\ decoder = NoKeys /\ events = <<>> /\ chars = <<>>
    /\ permits = [event |-> 0, char |-> 0]
    /\ reader \in Readers
    /\ gui = <<>> /\ guiCount = 0 /\ thread = Idle /\ input = <<>> /\ taken = FALSE
    /\ \E h \in Histories[reader] : shell = NewLine(h)
    /\ screen = gui_terminal_session_write(ResetHistory(0), <<"LF", "m", "LF">> \o Prompt)
    /\ cut = FALSE /\ held = {} /\ lamp = FALSE /\ strokes = 0

-----------------------------------------------------------------------------
(* The keyboard.  It sends the bytes of one stroke without a gap.          *)
Released(code) == [i \in DOMAIN code |-> IF i = Len(code) THEN code[i] + Break ELSE code[i]]

Stroke(bytes) ==
    /\ wire = <<>> /\ strokes < MaxStrokes[reader]
    /\ wire' = bytes /\ strokes' = strokes + 1
    /\ UNCHANGED <<decoder, events, chars, permits, reader, consoleVars>>
Tap(code) == Stroke(code \o Released(code)) /\ UNCHANGED <<held, lamp>>
OtherKey(bytes) == Stroke(bytes) /\ UNCHANGED <<held, lamp>>
\* Held, a key repeats its make code.
Press(code) ==
    /\ Stroke(code)
    /\ held' = held \cup {NameOf(code)}
    /\ lamp' = IF NameOf(code) = "CAPS_LOCK" /\ NameOf(code) \notin held THEN ~lamp ELSE lamp
Release(code) ==
    /\ wire = <<>> /\ NameOf(code) \in held
    /\ wire' = Released(code) /\ held' = held \ {NameOf(code)}
    /\ UNCHANGED <<decoder, events, chars, permits, reader, consoleVars, lamp, strokes>>

-----------------------------------------------------------------------------
(* The interrupt.                                                          *)
\* gui_input_push of a key event, before it returns to the keyboard driver.
QueueFull == Len(gui) = GuiSlots
SilentPush(e) ==
    /\ gui' = IF QueueFull THEN gui ELSE Append(gui, e)
    /\ guiCount' = IF QueueFull \/ gui # <<>> THEN guiCount ELSE guiCount + 1
gui_input_push(e) ==
    /\ gui' = IF QueueFull THEN gui ELSE Append(gui, e)
    /\ guiCount' = IF QueueFull THEN guiCount ELSE guiCount + 1
\* Of the queues an event goes to only the reader's is followed: nobody takes
\* anything from the others, which are full sooner or later.
Publish(e) ==
    \/ /\ reader = "session" /\ gui_input_push(e)
       /\ UNCHANGED <<events, chars, permits, cut>>
    \/ /\ reader = "console" /\ ~gui_input_is_global_shortcut(e)
       /\ keyboard_character_push(e)
       /\ cut' = (cut \/ Room(chars, Characters(e), CharacterSlots) < Len(Characters(e)))
       /\ UNCHANGED <<gui, guiCount>>
    \/ /\ reader = "events" /\ ~gui_input_is_global_shortcut(e)
       /\ keyboard_event_push(e) /\ UNCHANGED <<gui, guiCount, cut>>
    \/ /\ reader # "session" /\ gui_input_is_global_shortcut(e)
       /\ UNCHANGED <<events, chars, permits, gui, guiCount, cut>>
keyboard_interrupt_handler ==
    LET found == DecodeEvent(decoder, Head(wire))
    IN  /\ wire # <<>>
        /\ decoder' = Decode(decoder, Head(wire))
        /\ wire' = Tail(wire)
        /\ IF found = <<>> THEN UNCHANGED <<events, chars, permits, gui, guiCount, cut>>
           ELSE Publish(Head(found))
        /\ UNCHANGED <<reader, thread, input, taken, shell, screen, held, lamp, strokes>>

-----------------------------------------------------------------------------
(* The GUI task: gui_input_thread, with one session, which is active.      *)
GuiWait ==
    /\ ~thread.permit /\ thread.push = <<>> /\ guiCount > 0
    /\ guiCount' = guiCount - 1
    /\ thread' = [thread EXCEPT !.permit = TRUE]
    /\ UNCHANGED <<keyboardVars, reader, gui, input, taken, shell, screen, cut, held, lamp, strokes>>

\* gui_terminal_session_handle_keyboard up to the first byte it pushes: a
\* character shows the end of the text again.
SeenBy(e, s) ==
    IF e.key = "PAGE_UP" THEN gui_terminal_scroll_view_up(s)
    ELSE IF e.key = "PAGE_DOWN" THEN gui_terminal_scroll_view_down(s)
    ELSE IF e.char # "" THEN [s EXCEPT !.scroll = 0] ELSE s
\* gui_input_dispatch_keyboard: a release or a shortcut is not for the session.
Dispatched(e) == e.pressed /\ ~gui_input_is_global_shortcut(e)
GuiDispatch ==
    /\ thread.permit
    /\ IF gui = <<>> THEN thread' = Idle /\ UNCHANGED <<gui, screen>>
       ELSE LET e == Head(gui)
            IN  /\ gui' = Tail(gui)
                /\ screen' = IF Dispatched(e) THEN SeenBy(e, screen) ELSE screen
                /\ thread' = [Idle EXCEPT !.push = IF Dispatched(e) THEN Characters(e) ELSE <<>>]
    /\ UNCHANGED <<keyboardVars, reader, guiCount, input, taken, shell, cut, held, lamp, strokes>>

\* gui_terminal_input_push of the next byte; the lock is held for one byte only.
gui_terminal_input_push ==
    /\ thread.push # <<>>
    /\ thread' = [thread EXCEPT !.push = Tail(@)]
    /\ input' = IF Len(input) < InputSlots THEN Append(input, Head(thread.push)) ELSE input
    /\ cut' = (cut \/ Len(input) = InputSlots)
    /\ UNCHANGED <<keyboardVars, reader, gui, guiCount, taken, shell, screen, held, lamp, strokes>>

-----------------------------------------------------------------------------
(* The readers.                                                            *)
\* The shell has its byte.
ShellGets(c) ==
    \E out \in Outputs(shell.buffer) :
        LET next == shell_read_line(shell, c, out)
        IN  /\ shell' = next.sh
            /\ screen' = IF reader # "session" THEN screen
                         ELSE gui_terminal_session_write(screen, next.out)
gui_terminal_session_read ==
    /\ input # <<>> /\ input' = Tail(input)
    /\ ShellGets(Head(input))
    /\ UNCHANGED <<keyboardVars, reader, gui, guiCount, thread, taken, cut, held, lamp, strokes>>

\* syscall_read_stdio without a session.
keyboard_read_character_wait ==
    /\ reader = "console" /\ ~taken /\ TakePermit("char") /\ taken' = TRUE
    /\ UNCHANGED <<wire, decoder, events, chars, reader, gui, guiCount, thread, input, shell,
                   screen, cut, held, lamp, strokes>>
keyboard_read_character ==
    /\ reader = "console" /\ taken /\ taken' = FALSE
    /\ keyboard_character_pop /\ ShellGets(Head(chars))
    /\ UNCHANGED <<wire, decoder, events, permits, reader, gui, guiCount, thread, input, cut,
                   held, lamp, strokes>>

\* syscall_read_key_event: takes events until one is a key to report.
syscall_read_key_event_wait ==
    /\ reader = "events" /\ ~taken /\ TakePermit("event") /\ taken' = TRUE
    /\ UNCHANGED <<wire, decoder, events, chars, reader, gui, guiCount, thread, input, shell,
                   screen, cut, held, lamp, strokes>>
syscall_read_key_event ==
    /\ reader = "events" /\ taken /\ taken' = FALSE
    /\ keyboard_event_pop
    /\ UNCHANGED <<wire, decoder, chars, permits, reader, gui, guiCount, thread, input, shell,
                   screen, cut, held, lamp, strokes>>

GuiTask == GuiWait \/ GuiDispatch \/ gui_terminal_input_push
ReaderTask == \/ gui_terminal_session_read
              \/ keyboard_read_character_wait \/ keyboard_read_character
              \/ syscall_read_key_event_wait \/ syscall_read_key_event
Next ==
    \/ \E code \in TapKeys[reader] : Tap(code)
    \/ \E code \in HoldKeys[reader] : Press(code) \/ Release(code)
    \/ \E bytes \in OtherBytes[reader] : OtherKey(bytes)
    \/ keyboard_interrupt_handler \/ GuiTask \/ ReaderTask

\* Interrupts are taken, and the round robin reaches every ready task.
Spec == /\ Init /\ [][Next]_vars
        /\ WF_vars(keyboard_interrupt_handler) /\ WF_vars(GuiTask) /\ WF_vars(ReaderTask)

-----------------------------------------------------------------------------
(* Properties.                                                             *)
\* keyboard.c:935: whenever the bytes sent are decoded, key_down and the
\* modifiers agree with the keys the user holds, and caps lock with its lamp,
\* whatever pause, print screen and repeats were struck in between.
KeysHeld ==
    wire = <<>> => decoder = [e0 |-> FALSE, e1 |-> 0, down |-> held,
                              mods |-> held \cap Modifier, caps |-> lamp]

\* keyboard.c:495, :537 and gui/input.c:157: every queued entry has a permit or
\* a reader that took its permit, so a reader with a permit finds an entry and
\* no entry is left unannounced.
Bool(b) == IF b THEN 1 ELSE 0
PermitsMatch ==
    /\ permits.event + Bool(taken /\ reader = "events") = Len(events)
    /\ permits.char + Bool(taken /\ reader = "console") = Len(chars)
    /\ guiCount + Bool(thread.permit) = Len(gui)

\* sh.c:410: while the shell waits for a byte the last line of the session is
\* what the prompt and the line look like on an empty one, with nothing left
\* over from what the line was before, and the cursor stands at its place.
Fresh(text) == gui_terminal_session_write(ResetHistory(0), Prompt \o text)
ScreenShowsLine ==
    reader = "session" =>
        /\ Last(screen.lines) = Last(Fresh(shell.buffer).lines)
        /\ screen.col = Fresh(SubSeq(shell.buffer, 1, shell.cursor)).col

\* terminal_session.c:427: to a user who scrolled back, output of programs does
\* not move the text he looks at, unless its first line is gone: then he looks at
\* the oldest line there is, or the screen was cleared, which ends the scrolling.
ScrolledViewStays ==
    [][screen.scroll # 0 /\ gui_terminal_session_read =>
         \/ FirstVisible(screen') = FirstVisible(screen) /\ screen'.scroll # 0
         \/ /\ FirstVisible(screen) < screen'.gone
            /\ FirstVisible(screen') = screen'.gone \/ screen'.scroll = 0]_vars

\* sh.c:518 with terminal_session.c:188: the bytes stand for the keys of
\* LineEditor, and the line is edited as it says.
KeyOf(seq) ==
    CASE seq = <<"LF">> -> "enter"            [] seq = <<"BS">> -> "backspace"
      [] seq = <<"ESC", "[", "A">> -> "up"    [] seq = <<"ESC", "[", "B">> -> "down"
      [] seq = <<"ESC", "[", "C">> -> "right" [] seq = <<"ESC", "[", "D">> -> "left"
      [] seq = <<"ESC", "[", "H">> -> "home"  [] seq = <<"ESC", "[", "F">> -> "end"
      [] seq = <<"ESC", "[", "3", "~">> -> "delete"
      [] OTHER -> Last(seq)
Unfinished == {<<"ESC">>, <<"ESC", "[">>, <<"ESC", "[", "3">>}
NextByte(p, c) ==
    LET seq == Append(p.open, c)
    IN  IF seq \in Unfinished THEN [p EXCEPT !.open = seq]
        ELSE [open |-> <<>>, keys |-> Append(p.keys, KeyOf(seq))]
KeysIn(bytes) == Fold(NextByte, [open |-> <<>>, keys |-> <<>>], bytes).keys
Editor == INSTANCE LineEditor WITH
    keys <- KeysIn(shell.esc \o input \o chars \o thread.push),
    left <- SubSeq(shell.buffer, 1, shell.cursor),
    right <- SubSeq(shell.buffer, shell.cursor + 1, Len(shell.buffer)),
    history <- shell.history, at <- shell.pos,
    draft <- IF shell.pos = 0 THEN <<>> ELSE shell.draft, lost <- cut
EditsLine == Editor!Spec

\* Nothing typed stays in a queue: the interrupt, the GUI task and the reader
\* hand it on until all queues are empty.
Drained == wire = <<>> /\ gui = <<>> /\ thread.push = <<>> /\ input = <<>>
             /\ chars = <<>> /\ events = <<>>
EverythingRead == []<>Drained
=============================================================================
