------------------------------- MODULE Screen -------------------------------
(***************************************************************************)
(* gui/compositor.c and input/mouse_cursor.c: the backbuffer, the damage   *)
(* still to be presented, the framebuffer and the pointer drawn on it.     *)
(*                                                                         *)
(* The screen is one row of places.  front says of each place whether the  *)
(* framebuffer shows what the backbuffer holds ("fresh"), something older  *)
(* ("old") or the pointer ("cursor").  Several tasks paint and present:    *)
(* job[t] is what task t still has to do of its call, one step per stretch *)
(* of code between two places where it can be preempted.                   *)
(***************************************************************************)
EXTENDS Integers, Sequences, FiniteSets, SequencesExt

CONSTANTS
    Width,          \* places of the screen
    CursorWidth,    \* MOUSE_CURSOR_WIDTH
    MaxRects,       \* GUI_COMPOSITOR_MAX_DAMAGE_RECTS
    Painters,       \* tasks that paint and present
    Bounds          \* window -> <<left, right>>, the places it covers

ASSUME ScreenAssumption ==
    /\ Width \in Nat \ {0} /\ CursorWidth \in Nat \ {0} /\ MaxRects \in Nat \ {0}
    /\ IsFiniteSet(Painters)
    /\ \A w \in DOMAIN Bounds : Bounds[w] \in Int \X Int /\ Bounds[w][1] <= Bounds[w][2]

VARIABLES
    back,      \* place -> [w: window painted there last, direct: outside a full render]
    front,     \* place -> what the framebuffer shows
    damage,    \* [full, rects]: the compositor's damage
    cursor,    \* [x, visible, updates, backing]
    job        \* painter -> steps left of its call

screenVars == <<back, front, damage, cursor, job>>

Places == 0..(Width - 1)
PlacesOf(r) == r[1]..r[2]
NoDamage == [full |-> FALSE, rects |-> {}]

-----------------------------------------------------------------------------
(* Damage.  Rectangles are intervals: joining those that touch the new one *)
(* gives one that touches no other, where the code's loop ends.            *)
Clipped(r) == <<IF r[1] < 0 THEN 0 ELSE r[1], IF r[2] >= Width THEN Width - 1 ELSE r[2]>>
Touch(r, s) == r[1] <= s[2] + 1 /\ r[2] + 1 >= s[1]
Union(rs) == <<CHOOSE l \in {r[1] : r \in rs} : \A r \in rs : l <= r[1],
               CHOOSE h \in {r[2] : r \in rs} : \A r \in rs : h >= r[2]>>

gui_compositor_damage(d, rect) ==
    LET clip    == Clipped(rect)
        touched == {r \in d.rects : Touch(clip, r)}
        apart   == d.rects \ touched
    IN  IF d.full \/ clip[1] > clip[2] THEN d
        ELSE IF Cardinality(apart) >= MaxRects THEN [full |-> TRUE, rects |-> {}]
        ELSE [d EXCEPT !.rects = apart \cup {Union(touched \cup {clip})}]

\* The windows' bounds, one after the other (each result is evaluated once).
DamageEach(d, windows) ==
    LET after[i \in 0..Len(windows)] ==
          IF i = 0 THEN d
          ELSE CHOOSE r \in {gui_compositor_damage(b, Bounds[windows[i]]) : b \in {after[i - 1]}} : TRUE
    IN  after[Len(windows)]

gui_compositor_damage_all == [full |-> TRUE, rects |-> {}]

Damaged(d) == IF d.full THEN Places ELSE UNION {PlacesOf(r) : r \in d.rects}

-----------------------------------------------------------------------------
(* The pointer: functions of the cursor c and the framebuffer f, as every  *)
(* one runs under mouse_cursor_lock.  backing holds what was under it.     *)
Span(x) == x..(IF x + CursorWidth > Width THEN Width - 1 ELSE x + CursorWidth - 1)
Nothing == [p \in {} |-> "fresh"]

restore_locked(s) ==
    IF ~s.c.visible THEN s
    ELSE [c |-> [s.c EXCEPT !.visible = FALSE, !.backing = Nothing],
          f |-> [p \in Places |-> IF p \in DOMAIN s.c.backing THEN s.c.backing[p] ELSE s.f[p]]]

capture_locked(s) == [p \in Span(s.c.x) |-> s.f[p]]

draw_locked(s) ==
    IF s.c.updates # 0 THEN s
    ELSE [c |-> [s.c EXCEPT !.visible = TRUE, !.backing = capture_locked(s)],
          f |-> [p \in Places |-> IF p \in Span(s.c.x) THEN "cursor" ELSE s.f[p]]]

Moved(x, dx) == IF x + dx < 0 THEN 0 ELSE IF x + dx > Width - 1 THEN Width - 1 ELSE x + dx

apply_movement_locked(s, dx) ==
    LET r == restore_locked(s) IN draw_locked([r EXCEPT !.c.x = Moved(r.c.x, dx)])

begin_framebuffer_update(s) == restore_locked([s EXCEPT !.c.updates = @ + 1])

EndForgetsDraw(s) == [s EXCEPT !.c.updates = IF @ = 0 THEN 0 ELSE @ - 1]
end_framebuffer_update(s) ==
    LET r == [s EXCEPT !.c.updates = IF @ = 0 THEN 0 ELSE @ - 1]
    IN  IF r.c.updates = 0 /\ ~r.c.visible THEN draw_locked(r) ELSE r

Cursor(op(_)) ==
    \E s \in {op([c |-> cursor, f |-> front])} : cursor' = s.c /\ front' = s.f

-----------------------------------------------------------------------------
(* The calls, as sequences of steps.                                       *)
Step(op, windows, direct) == [op |-> op, windows |-> windows, direct |-> direct, at |-> {}]
Plain(op) == Step(op, <<>>, FALSE)
Blit(places) == [Plain("blit") EXCEPT !.at = places]

gui_compositor_present == <<Plain("take")>>

\* gui_window_composite: pixels first, then the damage.
CompositeDamagesFirst(w, direct) == <<Step("damage", <<w>>, direct), Step("paint", <<w>>, direct)>>
gui_window_composite(w, direct) == <<Step("paint", <<w>>, direct), Step("damage", <<w>>, direct)>>

\* gui_desktop_render of the windows, from the back to the front.  The wallpaper and
\* the composites, each with its damage, are one step here: the damage of the whole
\* screen comes after all of them.
gui_desktop_render(windows) ==
    <<Step("scene", windows, FALSE), Plain("damage_all")>> \o gui_compositor_present

\* A window composited by itself, over whatever is in front of it.
gui_terminal_present(w) == gui_window_composite(w, TRUE) \o gui_compositor_present
ClockRefresh == gui_window_composite("topbar", FALSE) \o gui_compositor_present

Area(w) == PlacesOf(Clipped(Bounds[w]))
AreaOf(windows) == UNION {Area(windows[i]) : i \in DOMAIN windows}
Older(v) == IF v = "fresh" THEN "old" ELSE v

\* The place p after the windows were painted over what it held; on has their indices.
Frontmost(windows, on) == windows[CHOOSE i \in on : \A j \in on : j <= i]
PaintedOver(p, old, windows, direct) ==
    LET on == {i \in DOMAIN windows : p \in Area(windows[i])}
    IN  IF on = {} THEN old ELSE [w |-> Frontmost(windows, on), direct |-> direct]

\* The framebuffer, and what is saved of it under the pointer, is now behind.
Outdates(places) ==
    /\ front' = [p \in Places |-> IF p \in places THEN Older(front[p]) ELSE front[p]]
    /\ cursor' = [cursor EXCEPT !.backing =
                     [p \in DOMAIN @ |-> IF p \in places THEN Older(@[p]) ELSE @[p]]]

Paint(t, s) ==
    /\ \/ /\ s.op = "paint" /\ Outdates(AreaOf(s.windows)) /\ UNCHANGED damage
          /\ back' = [p \in Places |-> PaintedOver(p, back[p], s.windows, s.direct)]
       \/ /\ s.op = "scene" /\ Outdates(Places)
          /\ back' = [p \in Places |-> PaintedOver(p, [w |-> "desktop", direct |-> FALSE], s.windows, FALSE)]
          /\ damage' = DamageEach(damage, s.windows)
    /\ job' = [job EXCEPT ![t] = Tail(@)]

Damage(t, s) ==
    /\ \/ s.op = "damage" /\ damage' = gui_compositor_damage(damage, Bounds[s.windows[1]])
       \/ s.op = "damage_all" /\ damage' = gui_compositor_damage_all
    /\ job' = [job EXCEPT ![t] = Tail(@)] /\ UNCHANGED <<back, front, cursor>>

\* gui_compositor_present takes the damage; the rest of the call only if there is any.
Take(t, s) ==
    /\ s.op = "take"
    /\ job' = [job EXCEPT ![t] =
           (IF damage = NoDamage THEN <<>>
            ELSE <<Plain("begin"), Blit(Damaged(damage)), Plain("end")>>) \o Tail(@)]
    /\ damage' = NoDamage /\ UNCHANGED <<back, front, cursor>>

BeginUpdate(t, s) ==
    /\ s.op = "begin" /\ Cursor(begin_framebuffer_update)
    /\ job' = [job EXCEPT ![t] = Tail(@)] /\ UNCHANGED <<back, damage>>

BlitDamage(t, s) ==
    /\ s.op = "blit" /\ front' = [p \in Places |-> IF p \in s.at THEN "fresh" ELSE front[p]]
    /\ job' = [job EXCEPT ![t] = Tail(@)] /\ UNCHANGED <<back, damage, cursor>>

EndUpdate(t, s) ==
    /\ s.op = "end" /\ Cursor(end_framebuffer_update)
    /\ job' = [job EXCEPT ![t] = Tail(@)] /\ UNCHANGED <<back, damage>>

ScreenStep(t) ==
    /\ job[t] # <<>>
    /\ LET s == Head(job[t])
       IN  Paint(t, s) \/ Damage(t, s) \/ Take(t, s) \/ BeginUpdate(t, s)
           \/ BlitDamage(t, s) \/ EndUpdate(t, s)

-----------------------------------------------------------------------------
(* What the steps above must keep true.                                    *)
Updating(t) == \E i \in DOMAIN job[t] : job[t][i].op = "end"
               /\ \A j \in 1..i : job[t][j].op # "begin"

\* The places a task has painted or taken and will still damage or blit.
Pending(t) == UNION {IF s.op = "damage_all" THEN Places
                     ELSE IF s.op = "damage" THEN AreaOf(s.windows) ELSE s.at : s \in ToSet(job[t])}

OldPlaces == {p \in Places : \/ front[p] = "old"
                             \/ p \in DOMAIN cursor.backing /\ cursor.backing[p] = "old"}

\* A place the backbuffer has changed stays in somebody's damage until it has been
\* blitted, whatever tasks paint and present at the same time
\* (gui_compositor_damage, gui_compositor_present, gui_window_composite).
Covered == OldPlaces \subseteq Damaged(damage) \cup UNION {Pending(t) : t \in Painters}

\* The pointer is on the framebuffer exactly where the driver believes it is, it is
\* off while anybody blits, and nothing of it was saved as background
\* (mouse_cursor_restore_locked, _draw_locked, begin and end of an update).
CursorClean ==
    /\ {p \in Places : front[p] = "cursor"} = (IF cursor.visible THEN Span(cursor.x) ELSE {})
    /\ DOMAIN cursor.backing = (IF cursor.visible THEN Span(cursor.x) ELSE {})
    /\ \A p \in DOMAIN cursor.backing : cursor.backing[p] # "cursor"
    /\ cursor.updates = Cardinality({t \in Painters : Updating(t)})
    /\ cursor.visible <=> cursor.updates = 0

=============================================================================
