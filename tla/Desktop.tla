------------------------------ MODULE Desktop ------------------------------
(***************************************************************************)
(* The pointer and the desktop, composed.  The mouse interrupt queues      *)
(* events (device/mouse.c); the cursor task moves the pointer and          *)
(* publishes to the GUI's ring (input/mouse_cursor.c, gui/input.c), as the *)
(* keyboard interrupt does for Alt+Tab and the page keys; the GUI task     *)
(* answers with the bars and the window registry (Windows) and renders;    *)
(* the clock and the shells paint and present at the same time (Screen).   *)
(***************************************************************************)
EXTENDS Screen, Windows

CONSTANTS
    MouseSlots,    \* MOUSE_EVENT_BUFFER_SIZE - 1
    GuiSlots,      \* GUI_INPUT_EVENT_BUFFER_SIZE - 1
    Budgets        \* bounds, one of them per behaviour: [menu, packets, keys, paints], with
                   \* menu the packets [dx, left, right, overflow] the mouse may send

\* The painters and the windows there are; the test window is not a terminal's, and
\* nothing that is in front of the top bar reaches it.
Packets == [dx : Int, left : BOOLEAN, right : BOOLEAN, overflow : BOOLEAN]
ASSUME DesktopAssumption ==
    /\ MouseSlots \in Nat /\ GuiSlots \in Nat
    /\ {"gui", "clock"} \cup ToSet(Terminals) \subseteq Painters
    /\ "gui" \notin ToSet(Terminals) /\ "test" \notin ToSet(Terminals)
    /\ {"test", "topbar", "start", "power", "taskbar"} \cup ToSet(Terminals) \subseteq DOMAIN Bounds
    /\ \A w \in {"start", "power", "taskbar"} :
          PlacesOf(Bounds["topbar"]) \cap PlacesOf(Bounds[w]) = {}
    /\ Budgets \subseteq [menu : SUBSET Packets, packets : Nat, keys : Nat, paints : Nat]

VARIABLES
    mouse,     \* [buttons, ring]: the driver
    poll,      \* the cursor task: [pc, dx, event]
    queue,     \* gui_input_events between its indices
    permits,   \* count of gui_input_available
    gui,       \* the GUI task: "wait" for a permit, or "pop" with one taken
    panel,     \* the bars
    reg,       \* the registry of normal windows
    shells,    \* terminals whose shell was started
    ideal,     \* history: pointer and bars, had every packet been handled at once
    lost,      \* history: an event was dropped, or the pointer met an edge
    budget     \* what is left of the bounds: packets, keys, paints by the other tasks

inputVars == <<mouse, poll, queue, permits, ideal, lost>>
deskVars == <<panel, reg, shells>>
vars == <<screenVars, inputVars, deskVars, gui, budget>>

WindowsAt(x) == {w \in DOMAIN Bounds : x \in PlacesOf(Bounds[w])}
NoEvent == [type |-> "none", x |-> 0, button |-> "none"]
NoPanel == [popup |-> "none", pressed |-> "none", lit |-> {}]
Top(p, r, q) ==
    LET on == {i \in DOMAIN Scene(r, q) : Scene(r, q)[i] \in WindowsAt(p)}
    IN  IF on = {} THEN "desktop" ELSE Frontmost(Scene(r, q), on)

\* gui_desktop_initialize has rendered the first scene: the test window and the bars.
FirstWindows == [order |-> <<"test">>, active |-> "test"]
Init ==
    /\ back = [p \in Places |-> [w |-> Top(p, FirstWindows, NoPanel), direct |-> FALSE]]
    /\ damage = NoDamage /\ job = [t \in Painters |-> <<>>]
    /\ \E s \in {draw_locked([c |-> [x |-> Width \div 2, visible |-> FALSE, updates |-> 0,
                                     backing |-> Nothing],
                              f |-> [p \in Places |-> "fresh"]])} :
          cursor = s.c /\ front = s.f
    /\ mouse = [buttons |-> {}, ring |-> <<>>]
    /\ poll = [pc |-> "read", dx |-> 0, event |-> NoEvent]
    /\ queue = <<>> /\ permits = 0 /\ gui = "wait"
    /\ panel = NoPanel /\ reg = FirstWindows /\ shells = {}
    /\ ideal = [x |-> Width \div 2, panel |-> NoPanel] /\ lost = FALSE
    /\ budget \in Budgets

-----------------------------------------------------------------------------
(* device/mouse.c.  A packet is decoded by the interrupt of its last byte; *)
(* dy takes the same way as dx.                                            *)
ButtonsOf(k) == (IF k.left THEN {"left"} ELSE {}) \cup (IF k.right THEN {"right"} ELSE {})

ChangeOf(b, old, new) ==
    IF (b \in old) = (b \in new) THEN <<>>
    ELSE <<[type |-> IF b \in new THEN "down" ELSE "up", dx |-> 0, button |-> b]>>

\* The events of mouse_decode_packet: movement before button transitions.
mouse_decode_packet(k, old) ==
    (IF k.dx = 0 THEN <<>> ELSE <<[type |-> "move", dx |-> k.dx, button |-> "left"]>>)
    \o ChangeOf("left", old, ButtonsOf(k)) \o ChangeOf("right", old, ButtonsOf(k))

\* mouse_event_push of each in turn: what does not fit is dropped.
Pushed(ring, es) ==
    ring \o SubSeq(es, 1, IF Len(es) < MouseSlots - Len(ring) THEN Len(es) ELSE MouseSlots - Len(ring))

\* The same packet on a desktop without queues.
Handled(i, e) ==
    LET x == Moved(i.x, e.dx)
    IN  [x |-> x,
         panel |-> gui_topbar_handle_pointer(i.panel, [type |-> e.type, x |-> x, button |-> e.button],
                                             WindowsAt(x)).panel]
AtOnce(i, es) == FoldLeft(Handled, i, es)

mouse_interrupt_handler(k) ==
    /\ budget.packets > 0 /\ budget' = [budget EXCEPT !.packets = @ - 1]
    /\ IF k.overflow THEN UNCHANGED <<mouse, ideal, lost>>
       ELSE \E es \in {mouse_decode_packet(k, mouse.buttons)} :
              /\ mouse' = [buttons |-> ButtonsOf(k), ring |-> Pushed(mouse.ring, es)]
              /\ ideal' = AtOnce(ideal, es)
              /\ lost' = (lost \/ Len(mouse.ring) + Len(es) > MouseSlots \/ ideal.x + k.dx \notin Places)
    /\ UNCHANGED <<screenVars, poll, queue, permits, gui, deskVars>>

-----------------------------------------------------------------------------
(* input/mouse_cursor.c: mouse_cursor_poll, called for ever by its task.   *)
(* Movement is added up until a button event or the end of the ring.       *)
FlushAtTheEnd(e) == IF e = NoEvent THEN "move" ELSE "button"
Flush(e) == IF poll.dx # 0 THEN "move" ELSE IF e = NoEvent THEN "read" ELSE "button"

PollRead ==
    /\ poll.pc = "read" /\ mouse.ring # <<>>
    /\ LET e == Head(mouse.ring)
       IN  poll' = IF e.type = "move" THEN [poll EXCEPT !.dx = @ + e.dx]
                   ELSE [poll EXCEPT !.event = [type |-> e.type, x |-> 0, button |-> e.button],
                                     !.pc = Flush(e)]
    /\ mouse' = [mouse EXCEPT !.ring = Tail(@)]
    /\ UNCHANGED <<screenVars, queue, permits, ideal, lost, gui, deskVars, budget>>

PollEmpty ==
    /\ poll.pc = "read" /\ mouse.ring = <<>> /\ poll.dx # 0
    /\ poll' = [poll EXCEPT !.pc = Flush(NoEvent)]
    /\ UNCHANGED <<screenVars, mouse, queue, permits, ideal, lost, gui, deskVars, budget>>

\* mouse_cursor_flush_movement up to its unlock.
PollMove ==
    /\ poll.pc = "move"
    /\ Cursor(LAMBDA s : apply_movement_locked(s, poll.dx))
    /\ poll' = [poll EXCEPT !.pc = "publish", !.dx = 0]
    /\ UNCHANGED <<back, damage, job, mouse, queue, permits, ideal, lost, gui, deskVars, budget>>

\* gui_input_push up to its unlock: a move replaces the newest move waiting.
Replaces(q, e) == e.type = "move" /\ q # <<>> /\ Last(q).type = "move"
Fits(q) == Len(q) < GuiSlots
gui_input_push(q, e) ==
    IF Replaces(q, e) THEN Append(Front(q), e) ELSE IF Fits(q) THEN Append(q, e) ELSE q

SignalsAlways(q, e) == Replaces(q, e) \/ Fits(q)
Signals(q, e) == ~Replaces(q, e) /\ Fits(q)
Drops(q, e) == ~Replaces(q, e) /\ ~Fits(q)

NextPc(signal, e) == IF signal THEN "signal" ELSE IF e = NoEvent THEN "read" ELSE "button"
Publish(e, rest) ==
    /\ queue' = gui_input_push(queue, e)
    /\ lost' = (lost \/ Drops(queue, e))
    /\ poll' = [poll EXCEPT !.event = rest, !.pc = NextPc(Signals(queue, e), rest)]
    /\ UNCHANGED <<screenVars, mouse, permits, ideal, gui, deskVars, budget>>

PollPublish ==
    \/ poll.pc = "publish" /\ Publish([type |-> "move", x |-> cursor.x, button |-> "left"], poll.event)
    \/ poll.pc = "button" /\ Publish([poll.event EXCEPT !.x = cursor.x], NoEvent)

\* gui_input_push signals after it has let the lock go.
PollSignal ==
    /\ poll.pc = "signal" /\ permits' = permits + 1
    /\ poll' = [poll EXCEPT !.pc = NextPc(FALSE, poll.event)]
    /\ UNCHANGED <<screenVars, mouse, queue, ideal, lost, gui, deskVars, budget>>

\* The keyboard interrupt publishes a key in one go.
KeyInterrupt(k) ==
    /\ budget.keys > 0 /\ budget' = [budget EXCEPT !.keys = @ - 1]
    /\ LET e == [type |-> k, x |-> 0, button |-> "none"]
       IN  /\ queue' = gui_input_push(queue, e)
           /\ permits' = permits + (IF Signals(queue, e) THEN 1 ELSE 0)
    /\ UNCHANGED <<screenVars, mouse, poll, ideal, lost, gui, deskVars>>

-----------------------------------------------------------------------------
(* The GUI task (gui_input_thread).                                        *)
GuiWait ==
    /\ gui = "wait" /\ job["gui"] = <<>> /\ permits > 0
    /\ permits' = permits - 1 /\ gui' = "pop"
    /\ UNCHANGED <<screenVars, mouse, poll, queue, ideal, lost, deskVars, budget>>

GuiDoes(steps) == job' = [job EXCEPT !["gui"] = steps]
Render(r, p) == gui_desktop_render(Scene(r, p))
ForgetsRender(r, p) == <<>>
RenderIfChanged(r, p) == IF r = reg THEN <<>> ELSE Render(r, p)
Spawn(w) == Step("spawn", <<w>>, FALSE)

\* gui_terminal_session_launch as far as the spawn; first is what is left of an
\* earlier render.  There may be no session, no memory or no room in the registry.
gui_terminal_session_launch(first, p) ==
    \/ /\ reg' = reg /\ GuiDoes(first)
    \/ \E w \in FreeSession(reg, shells) :
         LET added == gui_window_registry_add(reg, w)
         IN  \/ /\ reg' = gui_window_registry_remove(added, w)      \* gui_terminal_render failed
                /\ GuiDoes(first)
             \/ /\ reg' = gui_window_focus(added, w)
                /\ GuiDoes(first \o Render(reg', p) \o <<Spawn(w)>>)

dispatch_keyboard(e) ==
    /\ \/ e.type = "next" /\ reg' = focus_next(reg) /\ GuiDoes(RenderIfChanged(reg', panel))
       \/ e.type = "previous" /\ reg' = focus_previous(reg) /\ GuiDoes(RenderIfChanged(reg', panel))
       \/ /\ e.type = "page" /\ reg' = reg       \* scrolls the active session, if there is one
          /\ GuiDoes(IF reg.active \in shells THEN gui_terminal_present(reg.active) ELSE <<>>)
    /\ panel' = panel

dispatch_mouse(e) ==
    LET at    == WindowsAt(e.x)
        bar   == gui_topbar_handle_pointer(panel, e, at)
        first == IF bar.render THEN Render(reg, bar.panel) ELSE <<>>
        task  == gui_taskbar_handle_pointer(e, at)
    IN  /\ e.type \in {"move", "down", "up"} /\ panel' = bar.panel
        /\ IF ~bar.handled /\ task = "launch" THEN gui_terminal_session_launch(first, bar.panel)
           ELSE IF ~bar.handled /\ task = "pass" /\ e.type = "down" /\ e.button = "left"
           THEN /\ reg' = focus_at_point(reg, at)
                /\ GuiDoes(first \o RenderIfChanged(reg', bar.panel))
           ELSE reg' = reg /\ GuiDoes(first)

\* A permit without an entry would send the task back to wait: PermitsExact says there is none.
GuiDispatch ==
    /\ gui = "pop" /\ queue # <<>>
    /\ gui' = "wait" /\ queue' = Tail(queue)
    /\ dispatch_keyboard(Head(queue)) \/ dispatch_mouse(Head(queue))
    /\ UNCHANGED <<back, front, damage, cursor, mouse, poll, permits, ideal, lost, shells, budget>>

\* process_spawn_user_prepared succeeds, or the window goes again.
GuiSpawn ==
    /\ job["gui"] # <<>> /\ Head(job["gui"]).op = "spawn"
    /\ LET w == Head(job["gui"]).windows[1]
       IN  \/ shells' = shells \cup {w} /\ reg' = reg /\ GuiDoes(Tail(job["gui"]))
           \/ /\ shells' = shells /\ reg' = gui_window_registry_remove(reg, w)
              /\ GuiDoes(Render(reg', panel))
    /\ UNCHANGED <<back, front, damage, cursor, inputVars, gui, panel, budget>>

-----------------------------------------------------------------------------
(* The other painters.                                                     *)
StartPaint(t, steps) ==
    /\ budget.paints > 0 /\ budget' = [budget EXCEPT !.paints = @ - 1]
    /\ job[t] = <<>> /\ job' = [job EXCEPT ![t] = steps]
    /\ UNCHANGED <<back, front, damage, cursor, inputVars, gui, deskVars>>

ClockTick == StartPaint("clock", ClockRefresh)
ShellWrites(w) == w \in shells /\ StartPaint(w, gui_terminal_present(w))
PaintStep(t) == ScreenStep(t) /\ UNCHANGED <<inputVars, gui, deskVars, budget>>

PollTask == PollRead \/ PollEmpty \/ PollMove \/ PollPublish \/ PollSignal
GuiTask == GuiWait \/ GuiDispatch \/ GuiSpawn \/ PaintStep("gui")
OtherTask(t) == PaintStep(t)

Next ==
    \/ \E k \in budget.menu : mouse_interrupt_handler(k)
    \/ \E k \in {"next", "previous", "page"} : KeyInterrupt(k)
    \/ PollTask \/ GuiTask
    \/ ClockTick \/ \E w \in ToSet(Terminals) : ShellWrites(w)
    \/ \E t \in Painters \ {"gui"} : OtherTask(t)

\* Ready tasks take turns (Scheduler); inputs come when they come.
Spec == Init /\ [][Next]_vars /\ WF_vars(PollTask) /\ WF_vars(GuiTask)
             /\ \A t \in Painters \ {"gui"} : WF_vars(OtherTask(t))

-----------------------------------------------------------------------------
GuiIdle == gui = "wait" /\ job["gui"] = <<>>
InputIdle == mouse.ring = <<>> /\ poll.pc = "read" /\ poll.dx = 0 /\ queue = <<>> /\ GuiIdle

\* Whoever paints and presents, no changed place is forgotten and the pointer leaves
\* nothing behind (gui_compositor_present and mouse_cursor_begin_framebuffer_update
\* run in several tasks at once).
ScreenExact == Covered /\ CursorClean

\* Every entry of the GUI's ring has one permit, signalled, taken or still to be
\* signalled, although moves replace one another without a signal and keys come from
\* an interrupt (gui_input_push, gui_input_thread).
PermitsExact ==
    Len(queue) = permits + (IF poll.pc = "signal" THEN 1 ELSE 0) + (IF gui = "pop" THEN 1 ELSE 0)

\* Once all input is handled, the pointer, the open menu and the held button are as if
\* every packet had been handled at once, unless an event was dropped or the pointer
\* met an edge: adding movement up and replacing moves changes no click
\* (mouse_cursor_poll, gui_input_push, gui_topbar_handle_pointer).
EventsExact ==
    InputIdle /\ ~lost => /\ ideal = [x |-> cursor.x, panel |-> panel]
                         /\ panel.lit = {panel.pressed} \ {"none"}

\* When the GUI task has nothing to do the backbuffer shows the scene of the registry
\* and the bars, except where a terminal has painted by itself: every change of focus,
\* menu or windows was rendered (gui_desktop_render and its callers).
SceneShown ==
    GuiIdle => \A p \in Places : back[p].direct \/ back[p].w = Top(p, reg, panel)

\* The focus is on the front window, and Alt+Tab pressed again and again comes round
\* to every window (gui_window_registry_remove, focus_index_locked, focus_next).
FocusOrder ==
    LET after[n \in 0..Len(reg.order)] ==        \* after n times Alt+Tab
          IF n = 0 THEN reg ELSE CHOOSE r \in {focus_next(s) : s \in {after[n - 1]}} : TRUE
    IN  /\ reg.active = Topmost(reg.order)
        /\ {after[n].active : n \in 1..Len(reg.order)} = ToSet(reg.order)

\* When input stops, it is all handled and the screen ends up showing the backbuffer,
\* with the pointer on it (mouse_cursor_poll, gui_input_thread, gui_compositor_present).
Settles == <>[](InputIdle /\ OldPlaces = {} /\ cursor.visible)

\* window.h and desktop.c: the windows are on the screen in the order of the registry.
ScreenInOrder ==
    GuiIdle /\ (\A t \in Painters : job[t] = <<>>)
        => \A p \in Places : back[p].w = Top(p, reg, panel)

=============================================================================
