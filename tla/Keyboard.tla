------------------------------ MODULE Keyboard ------------------------------
(***************************************************************************)
(* device/keyboard.c.  The keyboard sends scancode bytes; every byte is    *)
(* one interrupt.  The decoder turns bytes into key events, offers every   *)
(* event to the GUI (gui_input_filter_keyboard_event) and, unless the GUI  *)
(* keeps it as a shortcut, queues the event and its characters, one permit *)
(* of a semaphore per entry.  The interrupt handler is not interruptible,  *)
(* so it is one step; a reader takes a permit in one step and the entry in *)
(* a later one.                                                            *)
(***************************************************************************)
EXTENDS Integers, Sequences, FiniteSets, SequencesExt

CONSTANTS
    EventSlots,      \* KEYBOARD_EVENT_BUFFER_SIZE - 1: a ring keeps one slot free
    CharacterSlots   \* KEYBOARD_CHARACTER_BUFFER_SIZE - 1

\* A ring has two slots or more.
ASSUME RingAssumption == EventSlots \in Nat \ {0} /\ CharacterSlots \in Nat \ {0}

VARIABLES
    wire,      \* bytes the keyboard has sent and no interrupt has taken
    decoder,   \* decoder_e0_pending, decoder_e1_bytes_remaining, key_down, modifiers
    events,    \* event_buffer between its two indices
    chars,     \* character_buffer between its two indices
    permits    \* counts of event_available and character_available

keyboardVars == <<wire, decoder, events, chars, permits>>

-----------------------------------------------------------------------------
(* Keys: a name, the character without and with shift ("" for none).       *)
Key(name) == <<name, "", "">>
Both(name, char) == <<name, char, char>>
Pair(plain, shifted) == <<plain, plain, shifted>>
None == Key("UNKNOWN")

\* decode_normal_key with keyboard_translate_letter and _character, by scancode.
Row1 == <<Key("ESCAPE"), Pair("1", "!"), Pair("2", "@"), Pair("3", "#"), Pair("4", "$"),
          Pair("5", "%"), Pair("6", "^"), Pair("7", "&"), Pair("8", "*"), Pair("9", "("),
          Pair("0", ")"), Pair("-", "_"), Pair("=", "+"), Both("BACKSPACE", "BS"),
          Both("TAB", "HT")>>
Row2 == <<Pair("q", "Q"), Pair("w", "W"), Pair("e", "E"), Pair("r", "R"), Pair("t", "T"),
          Pair("y", "Y"), Pair("u", "U"), Pair("i", "I"), Pair("o", "O"), Pair("p", "P"),
          Pair("[", "{"), Pair("]", "}"), Both("ENTER", "LF"), Key("LEFT_CTRL")>>
Row3 == <<Pair("a", "A"), Pair("s", "S"), Pair("d", "D"), Pair("f", "F"), Pair("g", "G"),
          Pair("h", "H"), Pair("j", "J"), Pair("k", "K"), Pair("l", "L"), Pair(";", ":"),
          Pair("quote", "dquote"), Pair("grave", "~"), Key("LEFT_SHIFT"), Pair("backslash", "|")>>
Row4 == <<Pair("z", "Z"), Pair("x", "X"), Pair("c", "C"), Pair("v", "V"), Pair("b", "B"),
          Pair("n", "N"), Pair("m", "M"), Pair(",", "<"), Pair(".", ">"), Pair("/", "?"),
          Key("RIGHT_SHIFT"), Key("KP_MULTIPLY"), Key("LEFT_ALT"), Both("SPACE", " "),
          Key("CAPS_LOCK")>>
Row5 == <<Key("F1"), Key("F2"), Key("F3"), Key("F4"), Key("F5"), Key("F6"), Key("F7"),
          Key("F8"), Key("F9"), Key("F10"), Key("NUM_LOCK"), Key("SCROLL_LOCK"), Key("KP_7"),
          Key("KP_8"), Key("KP_9"), Key("KP_MINUS"), Key("KP_4"), Key("KP_5"), Key("KP_6"),
          Key("KP_PLUS"), Key("KP_1"), Key("KP_2"), Key("KP_3"), Key("KP_0"),
          Key("KP_PERIOD"), None, None, None, Key("F11"), Key("F12")>>
Normal == Row1 \o Row2 \o Row3 \o Row4 \o Row5
decode_normal_key(code) == IF code \in DOMAIN Normal THEN Normal[code] ELSE None

Extended ==
    [c \in {28, 29, 53, 56, 71, 72, 73, 75, 77, 79, 80, 81, 82, 83} |->
       CASE c = 28 -> Both("KP_ENTER", "LF")  [] c = 29 -> Key("RIGHT_CTRL")
         [] c = 53 -> Key("KP_SLASH")         [] c = 56 -> Key("RIGHT_ALT")
         [] c = 71 -> Key("HOME")             [] c = 72 -> Key("ARROW_UP")
         [] c = 73 -> Key("PAGE_UP")          [] c = 75 -> Key("ARROW_LEFT")
         [] c = 77 -> Key("ARROW_RIGHT")      [] c = 79 -> Key("END")
         [] c = 80 -> Key("ARROW_DOWN")       [] c = 81 -> Key("PAGE_DOWN")
         [] c = 82 -> Key("INSERT")           [] c = 83 -> Key("DELETE")]
decode_extended_key(code) == IF code \in DOMAIN Extended THEN Extended[code] ELSE None

Modifier == {"LEFT_SHIFT", "RIGHT_SHIFT", "LEFT_CTRL", "RIGHT_CTRL", "LEFT_ALT", "RIGHT_ALT"}
Letter == {Row2[i][1] : i \in 1..10} \cup {Row3[i][1] : i \in 1..9} \cup {Row4[i][1] : i \in 1..7}

\* keyboard_publish_terminal_key: the sequence a key stands for.
TerminalSequence(key) ==
    CASE key = "ARROW_UP"    -> <<"ESC", "[", "A">>
      [] key = "ARROW_DOWN"  -> <<"ESC", "[", "B">>
      [] key = "ARROW_RIGHT" -> <<"ESC", "[", "C">>
      [] key = "ARROW_LEFT"  -> <<"ESC", "[", "D">>
      [] key = "HOME"        -> <<"ESC", "[", "H">>
      [] key = "END"         -> <<"ESC", "[", "F">>
      [] key = "DELETE"      -> <<"ESC", "[", "3", "~">>
      [] OTHER -> <<>>

-----------------------------------------------------------------------------
(* The decoder.                                                            *)
E0 == 224
E1 == 225
Break == 128    \* the bit of a release

NoKeys == [e0 |-> FALSE, e1 |-> 0, down |-> {}, mods |-> {}, caps |-> FALSE]

shift_active(d) == d.mods \cap {"LEFT_SHIFT", "RIGHT_SHIFT"} # {}
alt_active(mods) == mods \cap {"LEFT_ALT", "RIGHT_ALT"} # {}

\* keyboard_translate_character
keyboard_translate_character(d, key) ==
    LET upper == IF key[1] \in Letter THEN shift_active(d) # d.caps ELSE shift_active(d)
    IN  IF upper THEN key[3] ELSE key[2]

\* keyboard_update_modifier_state; a repeated press of caps lock does nothing.
TogglesOnRepeat(d, name, pressed) ==
    [d EXCEPT !.mods = IF name \notin Modifier THEN @ ELSE IF pressed THEN @ \cup {name} ELSE @ \ {name},
              !.caps = IF name = "CAPS_LOCK" /\ pressed THEN ~@ ELSE @]
keyboard_update_modifier_state(d, name, pressed) ==
    [d EXCEPT !.mods = IF name \notin Modifier THEN @ ELSE IF pressed THEN @ \cup {name} ELSE @ \ {name},
              !.caps = IF name = "CAPS_LOCK" /\ pressed /\ name \notin d.down THEN ~@ ELSE @]

\* The key a byte completes, if it completes one.
ByteKey(d, byte) ==
    IF d.e1 # 0 \/ byte \in {E0, E1} THEN None
    ELSE IF d.e0 THEN decode_extended_key(byte % Break) ELSE decode_normal_key(byte % Break)

\* The state part of keyboard_decode_scancode.
Decode(d, byte) ==
    LET key == ByteKey(d, byte)[1]
        pressed == byte < Break
        m == keyboard_update_modifier_state(d, key, pressed)
    IN  IF d.e1 # 0 THEN [d EXCEPT !.e1 = @ - 1]
        ELSE IF byte = E1 THEN [d EXCEPT !.e1 = 5, !.e0 = FALSE]
        ELSE IF byte = E0 THEN [d EXCEPT !.e0 = TRUE]
        ELSE IF key = "UNKNOWN" THEN [d EXCEPT !.e0 = FALSE]
        ELSE [m EXCEPT !.e0 = FALSE,
                       !.down = IF pressed THEN @ \cup {key} ELSE @ \ {key}]

\* The event a byte produces: none, or a sequence of one.
DecodeEvent(d, byte) ==
    LET key == ByteKey(d, byte)
        after == Decode(d, byte)
        pressed == byte < Break
    IN  IF key = None THEN <<>>
        ELSE <<[key |-> key[1], pressed |-> pressed, mods |-> after.mods,
                char |-> IF pressed THEN keyboard_translate_character(after, key) ELSE ""]>>

\* What an event puts into the character buffer.
Characters(e) ==
    IF e.char # "" THEN <<e.char>>
    ELSE IF e.pressed THEN TerminalSequence(e.key) ELSE <<>>

-----------------------------------------------------------------------------
(* Queues.                                                                 *)
\* As many of the new entries as fit: what does not fit is dropped and counted.
Room(queue, new, slots) == IF Len(new) <= slots - Len(queue) THEN Len(new) ELSE slots - Len(queue)

\* gui_input_is_global_shortcut
gui_input_is_global_shortcut(e) == e.key \in {"TAB", "F4"} /\ alt_active(e.mods)

\* keyboard_event_push: entry, then semaphore_signal.
keyboard_event_push(e) ==
    LET n == Room(events, <<e>>, EventSlots)
    IN  /\ events' = events \o SubSeq(<<e>>, 1, n)
        /\ permits' = [permits EXCEPT !.event = @ + n]
        /\ UNCHANGED chars

\* keyboard_character_push, or keyboard_character_push_sequence.
SignalDropped(e) ==
    /\ chars' = chars \o SubSeq(Characters(e), 1, Room(chars, Characters(e), CharacterSlots))
    /\ permits' = [permits EXCEPT !.char = @ + Len(Characters(e))]
    /\ UNCHANGED events
keyboard_character_push(e) ==
    LET n == Room(chars, Characters(e), CharacterSlots)
    IN  /\ chars' = chars \o SubSeq(Characters(e), 1, n)
        /\ permits' = [permits EXCEPT !.char = @ + n]
        /\ UNCHANGED events

\* semaphore_try_wait of keyboard_read_event and keyboard_read_character.
TakePermit(which) ==
    /\ permits[which] > 0
    /\ permits' = [permits EXCEPT ![which] = @ - 1]
\* keyboard_event_pop_unlocked and keyboard_character_pop_unlocked.
keyboard_event_pop == events # <<>> /\ events' = Tail(events)
keyboard_character_pop == chars # <<>> /\ chars' = Tail(chars)
=============================================================================
