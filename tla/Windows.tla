------------------------------ MODULE Windows ------------------------------
(***************************************************************************)
(* gui/window.c, gui/topbar.c and gui/taskbar.c: which windows there are,  *)
(* which has the focus, and what the pointer does to the bars.  All of it  *)
(* is changed by the GUI task alone, so these are functions of             *)
(*   r: [order, active]          the registry of normal windows            *)
(*   p: [popup, pressed, lit]    the top bar, its open menu, the button    *)
(*                               held and the buttons drawn as held        *)
(* Nothing hides a normal window, and a hovered button is drawn as any     *)
(* other (both calls pass false): visible and hovered_button are left out. *)
(***************************************************************************)
EXTENDS Integers, Sequences, FiniteSets, SequencesExt

CONSTANTS
    Capacity,    \* GUI_NORMAL_WINDOW_CAPACITY
    ButtonAt,    \* bar or menu -> (place -> enabled button)
    IconPlaces,  \* places of the task bar's icons
    Terminals    \* the windows of terminal_sessions, in their order

-----------------------------------------------------------------------------
(* The registry, from the back to the front.                               *)
gui_window_registry_add(r, w) == [order |-> Append(r.order, w), active |-> w]

Topmost(order) == IF order = <<>> THEN "none" ELSE Last(order)

\* index counts from 0, and is the number of windows when none was found.  The code
\* returns whether anything changed: whether the result differs from r.
FocusInPlace(r, index) ==
    IF index >= Len(r.order) THEN r ELSE [r EXCEPT !.active = r.order[index + 1]]
focus_index_locked(r, index) ==
    IF index >= Len(r.order) THEN r
    ELSE LET w == r.order[index + 1]
         IN  [order |-> Append(RemoveAt(r.order, index + 1), w), active |-> w]

FirstIndex(r, S) ==
    IF S = {} THEN Len(r.order) ELSE CHOOSE i \in S : \A j \in S : i <= j

IndexOf(r, w) == FirstIndex(r, {i \in 0..(Len(r.order) - 1) : r.order[i + 1] = w})

gui_window_registry_remove(r, w) ==
    LET i    == IndexOf(r, w)
        rest == RemoveAt(r.order, i + 1)
    IN  IF i = Len(r.order) THEN r
        ELSE [order |-> rest, active |-> IF r.active = w THEN Topmost(rest) ELSE r.active]

gui_window_focus(r, w) == focus_index_locked(r, IndexOf(r, w))

\* The last window whose bounds hold the point.
focus_at_point(r, windowsAt) ==
    LET hit == {i \in 0..(Len(r.order) - 1) : r.order[i + 1] \in windowsAt}
    IN  focus_index_locked(r, IF hit = {} THEN Len(r.order)
                              ELSE CHOOSE i \in hit : \A j \in hit : i >= j)

\* The first candidate in the order of the steps 1..n that is not active.
Traverse(r, candidate) ==
    LET steps == {s \in DOMAIN candidate : r.order[candidate[s] + 1] # r.active}
    IN  IF Len(r.order) < 2 THEN r
        ELSE focus_index_locked(r, IF steps = {} THEN IndexOf(r, r.active)
                                   ELSE candidate[CHOOSE s \in steps : \A u \in steps : s <= u])

focus_next(r) ==
    LET n == Len(r.order)
        a == IndexOf(r, r.active)
    IN  Traverse(r, [s \in 1..n |-> IF a = n THEN s - 1 ELSE (a + s) % n])

focus_previous(r) ==
    LET n == Len(r.order)
        a == IndexOf(r, r.active)
    IN  Traverse(r, [s \in 1..n |-> IF a = n THEN n - s ELSE (a + n - (s % n)) % n])

-----------------------------------------------------------------------------
(* The top bar and its menus.                                              *)
Hit(p, windowsAt) ==
    IF p.popup # "none" /\ p.popup \in windowsAt THEN p.popup
    ELSE IF "topbar" \in windowsAt THEN "topbar" ELSE "none"

button_from_widget(w, x) ==
    IF w # "none" /\ x \in DOMAIN ButtonAt[w] THEN ButtonAt[w][x] ELSE "none"

set_popup(p, v) == [popup |-> v, pressed |-> "none", lit |-> p.lit \ {p.pressed}]

\* meaty_clicked, power_clicked; every item of the start menu closes it.
click(p, b) ==
    LET menu == CASE b = "meaty" -> "start" [] b = "power_button" -> "power" [] OTHER -> "none"
    IN  set_popup(p, IF p.popup = menu THEN "none" ELSE menu)

Answer(p, handled, render) == [panel |-> p, handled |-> handled, render |-> render]

\* Left button down: outside an open menu it closes it, and goes on to what is below.
press(p, hit, b) ==
    IF p.popup # "none" /\ hit = "none" THEN Answer(set_popup(p, "none"), FALSE, TRUE)
    ELSE Answer([p EXCEPT !.pressed = b, !.lit = @ \cup ({b} \ {"none"})], hit # "none", FALSE)

\* Left button up: a click is a press and a release over the same button.
release(p, hit, b) ==
    IF p.pressed = "none" THEN Answer(p, hit # "none", FALSE)
    ELSE LET q == [p EXCEPT !.pressed = "none", !.lit = @ \ {p.pressed}]
         IN  Answer(IF p.pressed = b THEN click(q, b) ELSE q, TRUE, TRUE)

gui_topbar_handle_pointer(p, e, windowsAt) ==
    LET hit == Hit(p, windowsAt)
        b   == button_from_widget(hit, e.x)
    IN  IF e.type = "down" /\ e.button = "left" THEN press(p, hit, b)
        ELSE IF e.type = "up" /\ e.button = "left" THEN release(p, hit, b)
        ELSE Answer(p, hit # "none", FALSE)

\* What gui_taskbar_handle_pointer does: nothing here, take the event, or launch.
gui_taskbar_handle_pointer(e, windowsAt) ==
    IF "taskbar" \notin windowsAt THEN "pass"
    ELSE IF e.type = "down" /\ e.button = "left" /\ e.x \in IconPlaces THEN "launch" ELSE "done"

\* gui_terminal_allocate: the first session not in use, if its window can be registered.
FreeSession(r, used) ==
    {Terminals[i] : i \in {j \in DOMAIN Terminals :
        /\ Terminals[j] \notin used /\ \A k \in 1..(j - 1) : Terminals[k] \in used
        /\ Len(r.order) < Capacity}}

\* The scene from the back to the front, as gui_desktop_render composites it.
Scene(r, p) ==
    r.order \o <<"topbar">> \o (IF p.popup = "none" THEN <<>> ELSE <<p.popup>>) \o <<"taskbar">>

=============================================================================
