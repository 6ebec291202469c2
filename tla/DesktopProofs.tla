--------------------------- MODULE DesktopProofs ---------------------------
(***************************************************************************)
(* Proofs about Desktop: its types, the permits of the GUI ring, the       *)
(* screen that several tasks present, the scene and the focus.             *)
(***************************************************************************)
EXTENDS Desktop, SequenceTheorems, FiniteSetTheorems, WellFoundedInduction, TLAPS

-----------------------------------------------------------------------------
(* Types.                                                                  *)
Titles == {"test"} \cup ToSet(Terminals)
Menus == {"none", "start", "power"}
Buttons == {"none"} \cup UNION {{ButtonAt[w][x] : x \in DOMAIN ButtonAt[w]} : w \in {"topbar", "start", "power"}}
Shades == {"fresh", "old", "cursor"}
Kinds == {"move", "down", "up", "next", "previous", "page", "none"}
MouseEvent == [type : Kinds, dx : Int, button : {"left", "right", "none"}]
GuiEvent == [type : Kinds, x : Int, button : {"left", "right", "none"}]
Registry == [order : Seq(Titles), active : Titles \cup {"none"}]
Panel == [popup : Menus, pressed : Buttons, lit : SUBSET Buttons]
Budget == [menu : SUBSET Packets, packets : Int, keys : Int, paints : Int]
Saved == UNION {[S -> Shades] : S \in SUBSET Places}
CursorType == [x : Places, visible : BOOLEAN, updates : Nat, backing : Saved]

InputTypes ==
    /\ mouse \in [buttons : SUBSET {"left", "right"}, ring : Seq(MouseEvent)]
    /\ poll \in [pc : {"read", "move", "publish", "button", "signal"}, dx : Int, event : GuiEvent]
    /\ queue \in Seq(GuiEvent) /\ permits \in Int /\ gui \in {"wait", "pop"}
    /\ budget \in Budget
PointerTypes == cursor \in CursorType /\ front \in [Places -> Shades]

\* What the constants are.
LEMMA Consts ==
    /\ Width \in Nat /\ Width > 0 /\ CursorWidth \in Nat /\ CursorWidth > 0
    /\ MouseSlots \in Nat /\ GuiSlots \in Nat
    /\ "gui" \in Painters /\ "clock" \in Painters /\ ToSet(Terminals) \subseteq Painters
    /\ Titles \subseteq DOMAIN Bounds
    /\ {"topbar", "start", "power", "taskbar"} \subseteq DOMAIN Bounds
    /\ \A w \in DOMAIN Bounds : /\ Bounds[w][1] \in Int /\ Bounds[w][2] \in Int
                                /\ Bounds[w] = <<Bounds[w][1], Bounds[w][2]>>
<1>1. \A w \in DOMAIN Bounds : /\ Bounds[w][1] \in Int /\ Bounds[w][2] \in Int
                               /\ Bounds[w] = <<Bounds[w][1], Bounds[w][2]>>
  BY ScreenAssumption
<1>2. Titles \subseteq DOMAIN Bounds
  BY DesktopAssumption DEF Titles
<1> QED BY <1>1, <1>2, ScreenAssumption, DesktopAssumption

-----------------------------------------------------------------------------
(* The queues of events.                                                   *)
\* Taking from the front, putting at the end, and the rest of a sequence.
LEMMA TailSeq ==
    ASSUME NEW S, NEW q \in Seq(S), q # <<>>
    PROVE  Head(q) \in S /\ Tail(q) \in Seq(S) /\ Len(Tail(q)) = Len(q) - 1
OBVIOUS

LEMMA AppendSeq ==
    ASSUME NEW S, NEW q \in Seq(S), NEW e \in S
    PROVE  Append(q, e) \in Seq(S) /\ Len(Append(q, e)) = Len(q) + 1 /\ Append(q, e) # <<>>
BY AppendProperties

LEMMA FrontSeq ==
    ASSUME NEW S, NEW q \in Seq(S), q # <<>>
    PROVE  Front(q) \in Seq(S) /\ Len(Front(q)) = Len(q) - 1 /\ Last(q) \in S
<1>1. Len(q) \in Nat /\ Len(q) > 0 /\ Len(q) \in DOMAIN q
  BY EmptySeq, LenProperties
<1>2. Last(q) \in S
  BY <1>1, ElementOfSeq DEF Last
<1>3. SubSeq(q, 1, Len(q) - 1) \in Seq(S) /\ Len(SubSeq(q, 1, Len(q) - 1)) = Len(q) - 1
  <2> DEFINE n == Len(q) - 1
  <2>1. n \in Int /\ n >= 0 /\ n = Len(q) - 1 /\ \A i \in 1..n : q[i] \in S
    BY <1>1, ElementOfSeq
  <2> HIDE DEF n
  <2>2. SubSeq(q, 1, n) \in Seq(S) /\ Len(SubSeq(q, 1, n)) = IF 1 <= n THEN n - 1 + 1 ELSE 0
    BY <2>1, SubSeqProperties
  <2>3. Len(SubSeq(q, 1, n)) = n
    BY <2>1, <2>2
  <2> QED BY <2>2, <2>3 DEF n
<1> QED BY <1>2, <1>3 DEF Front

LEMMA OneSeq ==
    ASSUME NEW S, NEW e \in S
    PROVE  <<>> \in Seq(S) /\ <<e>> \in Seq(S) /\ Len(<<e>>) = 1
OBVIOUS

\* A packet is at most three events.
LEMMA Decoded ==
    ASSUME NEW k \in Packets, NEW old
    PROVE  mouse_decode_packet(k, old) \in Seq(MouseEvent)
<1>1. ASSUME NEW b \in {"left", "right"}, NEW new PROVE ChangeOf(b, old, new) \in Seq(MouseEvent)
  <2> DEFINE e == [type |-> IF b \in new THEN "down" ELSE "up", dx |-> 0, button |-> b]
  <2>1. e \in MouseEvent
    BY DEF MouseEvent, Kinds
  <2>2. ChangeOf(b, old, new) = IF (b \in old) = (b \in new) THEN <<>> ELSE <<e>>
    BY DEF ChangeOf
  <2> HIDE DEF e
  <2> QED BY <2>1, <2>2, OneSeq
<1>2. (IF k.dx = 0 THEN <<>> ELSE <<[type |-> "move", dx |-> k.dx, button |-> "left"]>>) \in Seq(MouseEvent)
  <2> DEFINE e == [type |-> "move", dx |-> k.dx, button |-> "left"]
  <2>1. e \in MouseEvent
    BY DEF MouseEvent, Packets, Kinds
  <2>2. <<>> \in Seq(MouseEvent) /\ <<e>> \in Seq(MouseEvent)
    <3> HIDE DEF e
    <3> QED BY <2>1, OneSeq
  <2> QED BY <2>2
<1> QED BY <1>1, <1>2, ConcatProperties DEF mouse_decode_packet

LEMMA PushedSeq ==
    ASSUME NEW S, NEW ring \in Seq(S), NEW es \in Seq(S)
    PROVE  Pushed(ring, es) \in Seq(S)
<1> DEFINE n == IF Len(es) < MouseSlots - Len(ring) THEN Len(es) ELSE MouseSlots - Len(ring)
<1>1. n \in Int /\ n <= Len(es)
  BY Consts
<1>2. SubSeq(es, 1, n) \in Seq(S)
  <2> HIDE DEF n
  <2> QED BY <1>1
<1> QED BY <1>2, ConcatProperties DEF Pushed

\* gui_input_push: the ring grows by one entry exactly if it signals.
LEMMA PushSeq ==
    ASSUME NEW q \in Seq(GuiEvent), NEW e \in GuiEvent
    PROVE  /\ gui_input_push(q, e) \in Seq(GuiEvent)
           /\ Len(gui_input_push(q, e)) = Len(q) + (IF Signals(q, e) THEN 1 ELSE 0)
<1>1. CASE Replaces(q, e)
  <2>1. q # <<>>
    BY <1>1 DEF Replaces
  <2>2. Front(q) \in Seq(GuiEvent) /\ Len(Front(q)) = Len(q) - 1
    BY <2>1, FrontSeq
  <2>3. Append(Front(q), e) \in Seq(GuiEvent) /\ Len(Append(Front(q), e)) = Len(q)
    BY <2>2, AppendSeq
  <2> QED BY <1>1, <2>3 DEF gui_input_push, Signals
<1>2. CASE ~Replaces(q, e) /\ Fits(q)
  BY <1>2, AppendSeq DEF gui_input_push, Signals
<1>3. CASE ~Replaces(q, e) /\ ~Fits(q)
  BY <1>3 DEF gui_input_push, Signals
<1> QED BY <1>1, <1>2, <1>3


-----------------------------------------------------------------------------
(* Permits.                                                                *)
InputInv == InputTypes /\ PermitsExact

\* What the input side keeps when it is not touched.
LEMMA InputSame ==
    ASSUME InputInv, UNCHANGED <<inputVars, gui>>, budget' \in Budget
    PROVE  InputInv'
BY DEF InputInv, InputTypes, PermitsExact, inputVars

LEMMA PacketInput ==
    ASSUME InputInv, NEW k \in budget.menu, mouse_interrupt_handler(k)
    PROVE  InputInv'
<1>1. /\ UNCHANGED <<poll, queue, permits, gui>>
      /\ budget' = [budget EXCEPT !.packets = @ - 1] /\ budget \in Budget
      /\ \/ mouse' = mouse
         \/ mouse' = [buttons |-> ButtonsOf(k),
                      ring |-> Pushed(mouse.ring, mouse_decode_packet(k, mouse.buttons))]
  BY DEF InputInv, InputTypes, mouse_interrupt_handler
<1>2. budget' \in Budget /\ k \in Packets
  BY <1>1 DEF Budget
<1>3. ButtonsOf(k) \in SUBSET {"left", "right"}
  BY DEF ButtonsOf
<1>4. mouse.ring \in Seq(MouseEvent)
  BY DEF InputInv, InputTypes
<1>5. Pushed(mouse.ring, mouse_decode_packet(k, mouse.buttons)) \in Seq(MouseEvent)
  BY <1>2, <1>4, Decoded, PushedSeq
<1>6. mouse' \in [buttons : SUBSET {"left", "right"}, ring : Seq(MouseEvent)]
  BY <1>1, <1>3, <1>5 DEF InputInv, InputTypes
<1> QED BY <1>1, <1>2, <1>6 DEF InputInv, InputTypes, PermitsExact

LEMMA PollInput ==
    ASSUME InputInv, PointerTypes, PollTask
    PROVE  InputInv'
<1> DEFINE Pcs == {"read", "move", "publish", "button", "signal"}
           PollType == [pc : Pcs, dx : Int, event : GuiEvent]
<1>1. /\ poll \in PollType /\ mouse \in [buttons : SUBSET {"left", "right"}, ring : Seq(MouseEvent)]
      /\ queue \in Seq(GuiEvent) /\ Len(queue) \in Nat /\ permits \in Int /\ gui \in {"wait", "pop"}
      /\ budget \in Budget /\ PermitsExact
  BY DEF InputInv, InputTypes
<1>0. poll \in PollType
  BY <1>1
<1>2. ASSUME NEW e \in GuiEvent PROVE Flush(e) \in Pcs /\ Flush(e) # "signal"
  BY DEF Flush
<1>3. CASE PollRead
  <2>1. /\ poll.pc = "read" /\ mouse.ring # <<>> /\ UNCHANGED <<queue, permits, gui, budget>>
        /\ mouse' = [mouse EXCEPT !.ring = Tail(@)]
    BY <1>3 DEF PollRead
  <2>2. Head(mouse.ring) \in MouseEvent /\ Tail(mouse.ring) \in Seq(MouseEvent)
    BY <1>1, <2>1, TailSeq
  <2>3. mouse' \in [buttons : SUBSET {"left", "right"}, ring : Seq(MouseEvent)]
    BY <1>1, <2>1, <2>2
  <2> DEFINE e == Head(mouse.ring)
             f == [type |-> e.type, x |-> 0, button |-> e.button]
  <2>4. \/ poll' = [poll EXCEPT !.dx = @ + e.dx]
        \/ poll' = [poll EXCEPT !.event = f, !.pc = Flush(f)]
        \/ poll' = [poll EXCEPT !.event = f, !.pc = Flush(e)]
    BY <1>3 DEF PollRead
  <2>5. f \in GuiEvent /\ e.dx \in Int /\ Flush(e) \in Pcs /\ Flush(e) # "signal"
    BY <2>2 DEF MouseEvent, GuiEvent, Flush
  <2> HIDE DEF e, f
  <2>6. Flush(f) \in Pcs /\ Flush(f) # "signal"
    BY <2>5, <1>2
  <2>7. poll' \in PollType /\ poll'.pc # "signal"
    <3>1. ASSUME NEW v \in Pcs, v # "signal", poll' = [poll EXCEPT !.event = f, !.pc = v]
          PROVE  poll' \in PollType /\ poll'.pc # "signal"
      BY <1>0, <2>5, <3>1
    <3>2. ASSUME poll' = [poll EXCEPT !.dx = @ + e.dx]
          PROVE  poll' \in PollType /\ poll'.pc # "signal"
      <4>1. poll.dx + e.dx \in Int
        BY <1>0, <2>5
      <4> QED BY <1>0, <2>1, <3>2, <4>1
    <3> QED BY <2>4, <2>5, <2>6, <3>1, <3>2
  <2> QED BY <1>1, <2>1, <2>3, <2>7 DEF InputInv, InputTypes, PermitsExact
<1>4. CASE PollEmpty
  <2>1. NoEvent \in GuiEvent
    BY DEF NoEvent, GuiEvent, Kinds
  <2>2. /\ poll.pc = "read" /\ UNCHANGED <<mouse, queue, permits, gui, budget>>
        /\ poll' = [poll EXCEPT !.pc = Flush(NoEvent)]
    BY <1>4 DEF PollEmpty
  <2>3. poll' \in PollType /\ poll'.pc # "signal"
    BY <1>1, <1>2, <2>1, <2>2
  <2> QED BY <1>1, <2>2, <2>3 DEF InputInv, InputTypes, PermitsExact
<1>5. CASE PollMove
  <2>1. /\ poll.pc = "move" /\ UNCHANGED <<mouse, queue, permits, gui, budget>>
        /\ poll' = [poll EXCEPT !.pc = "publish", !.dx = 0]
    BY <1>5 DEF PollMove
  <2>2. poll' \in PollType /\ poll'.pc # "signal"
    <3> DEFINE q == [poll EXCEPT !.pc = "publish"]
    <3>1. q \in PollType /\ q.pc = "publish" /\ poll' = [q EXCEPT !.dx = 0]
      BY <1>0, <2>1
    <3> HIDE DEF q
    <3> QED BY <3>1
  <2> QED BY <1>1, <2>1, <2>2 DEF InputInv, InputTypes, PermitsExact
<1>6. ASSUME NEW e \in GuiEvent, NEW rest \in GuiEvent, Publish(e, rest), poll.pc # "signal"
      PROVE  InputInv'
  <2>1. /\ UNCHANGED <<mouse, permits, gui, budget>> /\ queue' = gui_input_push(queue, e)
        /\ poll' = [poll EXCEPT !.event = rest, !.pc = NextPc(Signals(queue, e), rest)]
    BY <1>6 DEF Publish
  <2>2. /\ NextPc(Signals(queue, e), rest) \in Pcs
        /\ NextPc(Signals(queue, e), rest) = "signal" <=> Signals(queue, e)
    BY DEF NextPc
  <2>3. poll' \in PollType /\ (poll'.pc = "signal" <=> Signals(queue, e))
    BY <1>1, <2>1, <2>2
  <2>4. queue' \in Seq(GuiEvent) /\ Len(queue') = Len(queue) + (IF Signals(queue, e) THEN 1 ELSE 0)
    BY <1>1, <2>1, PushSeq
  <2>5. PermitsExact'
    <3> DEFINE s == Signals(queue, e)
    <3>1. /\ Len(queue') = Len(queue) + (IF s THEN 1 ELSE 0) /\ (poll'.pc = "signal" <=> s)
          /\ UNCHANGED <<permits, gui>>
      BY <2>1, <2>3, <2>4
    <3> HIDE DEF s
    <3> QED BY <1>1, <1>6, <3>1 DEF PermitsExact
  <2> QED BY <1>1, <2>1, <2>3, <2>4, <2>5 DEF InputInv, InputTypes
<1>7. CASE PollPublish
  <2>1. cursor.x \in Int /\ NoEvent \in GuiEvent
    BY Consts DEF PointerTypes, CursorType, Places, NoEvent, GuiEvent, Kinds
  <2>2. [type |-> "move", x |-> cursor.x, button |-> "left"] \in GuiEvent
    BY <2>1 DEF GuiEvent, Kinds
  <2>3. [poll.event EXCEPT !.x = cursor.x] \in GuiEvent /\ poll.event \in GuiEvent
    BY <1>1, <2>1 DEF GuiEvent
  <2> QED BY <1>6, <1>7, <2>1, <2>2, <2>3 DEF PollPublish
<1>8. CASE PollSignal
  <2>1. /\ poll.pc = "signal" /\ UNCHANGED <<mouse, queue, gui, budget>> /\ permits' = permits + 1
        /\ poll' = [poll EXCEPT !.pc = NextPc(FALSE, poll.event)]
    BY <1>8 DEF PollSignal
  <2>2. NextPc(FALSE, poll.event) \in Pcs /\ NextPc(FALSE, poll.event) # "signal"
    BY DEF NextPc
  <2>3. poll' \in PollType /\ poll'.pc # "signal"
    BY <1>1, <2>1, <2>2
  <2> QED BY <1>1, <2>1, <2>3 DEF InputInv, InputTypes, PermitsExact
<1> QED BY <1>3, <1>4, <1>5, <1>7, <1>8 DEF PollTask

LEMMA KeyInput ==
    ASSUME InputInv, NEW k \in {"next", "previous", "page"}, KeyInterrupt(k)
    PROVE  InputInv'
<1> DEFINE e == [type |-> k, x |-> 0, button |-> "none"]
           s == Signals(queue, e)
<1>1. /\ UNCHANGED <<mouse, poll, gui>> /\ queue' = gui_input_push(queue, e)
      /\ permits' = permits + (IF s THEN 1 ELSE 0)
      /\ budget' = [budget EXCEPT !.keys = @ - 1] /\ budget \in Budget
  BY DEF KeyInterrupt, InputInv, InputTypes
<1>2. e \in GuiEvent
  BY DEF GuiEvent, Kinds
<1>3. budget' \in Budget
  BY <1>1 DEF Budget
<1> HIDE DEF e
<1>4. queue' \in Seq(GuiEvent) /\ Len(queue') = Len(queue) + (IF s THEN 1 ELSE 0)
  BY <1>1, <1>2, PushSeq DEF InputInv, InputTypes
<1> HIDE DEF s
<1>5. permits' \in Int /\ Len(queue) \in Int /\ permits \in Int
  BY <1>1 DEF InputInv, InputTypes
<1> QED BY <1>1, <1>3, <1>4, <1>5 DEF InputInv, InputTypes, PermitsExact

LEMMA GuiInput ==
    ASSUME InputInv, GuiWait \/ GuiDispatch
    PROVE  InputInv'
<1>1. /\ queue \in Seq(GuiEvent) /\ Len(queue) \in Nat /\ permits \in Int /\ gui \in {"wait", "pop"}
  BY DEF InputInv, InputTypes
<1>2. CASE GuiWait
  BY <1>1, <1>2 DEF GuiWait, InputInv, InputTypes, PermitsExact
<1>3. CASE GuiDispatch
  <2>1. /\ gui = "pop" /\ queue # <<>> /\ gui' = "wait" /\ queue' = Tail(queue)
        /\ UNCHANGED <<mouse, poll, permits, budget>>
    BY <1>3 DEF GuiDispatch
  <2>2. queue' \in Seq(GuiEvent) /\ Len(queue') = Len(queue) - 1
    BY <1>1, <2>1, TailSeq
  <2> QED BY <1>1, <2>1, <2>2 DEF InputInv, InputTypes, PermitsExact
<1> QED BY <1>2, <1>3


-----------------------------------------------------------------------------
(* The pointer.                                                            *)
Pointer == [c : CursorType, f : [Places -> Shades]]

\* The pointer is where the driver believes, and what was under it is saved.
Drawn(s) ==
    /\ \A p \in Places : s.f[p] = "cursor" <=> s.c.visible /\ p \in Span(s.c.x)
    /\ DOMAIN s.c.backing = (IF s.c.visible THEN Span(s.c.x) ELSE {})
    /\ \A p \in DOMAIN s.c.backing : s.c.backing[p] # "cursor"
OldIn(s) == {p \in Places : \/ s.f[p] = "old"
                            \/ p \in DOMAIN s.c.backing /\ s.c.backing[p] = "old"}

LEMMA SpanPlaces == ASSUME NEW x \in Places PROVE Span(x) \subseteq Places
BY Consts DEF Span, Places

LEMMA SavedType ==
    ASSUME NEW b PROVE b \in Saved <=> /\ DOMAIN b \subseteq Places /\ b = [p \in DOMAIN b |-> b[p]]
                                       /\ \A p \in DOMAIN b : b[p] \in Shades
BY DEF Saved

LEMMA InOld ==
    ASSUME NEW s, NEW p \in Places
    PROVE  p \in OldIn(s) <=> \/ s.f[p] = "old"
                              \/ p \in DOMAIN s.c.backing /\ s.c.backing[p] = "old"
BY DEF OldIn

LEMMA Redrawn ==
    ASSUME NEW c \in CursorType, NEW v, NEW b
    PROVE  [c EXCEPT !.visible = v, !.backing = b]
              = [x |-> c.x, visible |-> v, updates |-> c.updates, backing |-> b]
<1>1. c = [x |-> c.x, visible |-> c.visible, updates |-> c.updates, backing |-> c.backing]
  BY DEF CursorType
<1> DEFINE x == c.x
           u == c.updates
           w == c.visible
           k == c.backing
<1>2. c = [x |-> x, visible |-> w, updates |-> u, backing |-> k]
  BY <1>1
<1> DEFINE d == [c EXCEPT !.visible = v]
<1>3. d = [x |-> x, visible |-> v, updates |-> u, backing |-> k]
  <2> HIDE DEF x, u, w, k
  <2> QED BY <1>2
<1>4. [c EXCEPT !.visible = v, !.backing = b] = [d EXCEPT !.backing = b]
  OBVIOUS
<1>5. [d EXCEPT !.backing = b] = [x |-> x, visible |-> v, updates |-> u, backing |-> b]
  <2> HIDE DEF x, u, w, k, d
  <2> QED BY <1>3
<1> QED BY <1>4, <1>5

\* mouse_cursor_restore_locked: nothing of the pointer is left, what was saved is back.
LEMMA Restores ==
    ASSUME NEW s \in Pointer, Drawn(s)
    PROVE  LET r == restore_locked(s)
           IN  /\ r \in Pointer /\ Drawn(r) /\ ~r.c.visible
               /\ r.c.x = s.c.x /\ r.c.updates = s.c.updates /\ OldIn(r) = OldIn(s)
<1> DEFINE r == restore_locked(s)
           b == s.c.backing
           c == [s.c EXCEPT !.visible = FALSE, !.backing = Nothing]
           f == [p \in Places |-> IF p \in DOMAIN b THEN b[p] ELSE s.f[p]]
<1>1. /\ s.c \in CursorType /\ s.f \in [Places -> Shades] /\ s = [c |-> s.c, f |-> s.f]
      /\ b \in Saved /\ s.c.x \in Places /\ s.c.updates \in Nat
      /\ s.c = [x |-> s.c.x, visible |-> s.c.visible, updates |-> s.c.updates, backing |-> b]
  BY DEF Pointer, CursorType
<1>2. DOMAIN b \subseteq Places /\ \A p \in DOMAIN b : b[p] \in Shades
  BY <1>1, SavedType
<1>3. CASE ~s.c.visible
  <2>1. r = s
    BY <1>3 DEF restore_locked
  <2> QED BY <1>3, <2>1
<1>4. CASE s.c.visible
  <2>1. r = [c |-> c, f |-> f]
    BY <1>4 DEF restore_locked
  <2>2. c = [x |-> s.c.x, visible |-> FALSE, updates |-> s.c.updates, backing |-> Nothing]
    <3>1. ASSUME NEW d \in CursorType
          PROVE  [d EXCEPT !.visible = FALSE, !.backing = Nothing]
                   = [x |-> d.x, visible |-> FALSE, updates |-> d.updates, backing |-> Nothing]
      BY Redrawn
    <3> QED BY <1>1, <3>1, Zenon
  <2>3. Nothing \in Saved /\ DOMAIN Nothing = {}
    BY SavedType DEF Nothing
  <2>4. c \in CursorType
    BY <1>1, <2>2, <2>3 DEF CursorType
  <2>5. f \in [Places -> Shades]
    BY <1>1, <1>2
  <2>6. \A p \in Places : f[p] = IF p \in DOMAIN b THEN b[p] ELSE s.f[p]
    OBVIOUS
  <2>7. /\ r.c.x = s.c.x /\ r.c.updates = s.c.updates /\ r.c.visible = FALSE
        /\ r.c.backing = Nothing /\ r.f = f /\ r \in Pointer
    <3>1. /\ c.x = s.c.x /\ c.updates = s.c.updates /\ c.visible = FALSE /\ c.backing = Nothing
      BY <2>2
    <3> HIDE DEF c, f
    <3> QED BY <2>1, <2>4, <2>5, <3>1 DEF Pointer
  <2> HIDE DEF c, f, r, b
  <2>8. \A p \in Places : f[p] # "cursor"
    <3> SUFFICES ASSUME NEW p \in Places PROVE f[p] # "cursor"
      OBVIOUS
    <3>1. CASE p \in DOMAIN b
      BY <2>6, <3>1 DEF Drawn, b
    <3>2. CASE p \notin DOMAIN b
      <4>1. s.f[p] # "cursor"
        BY <1>4, <3>2 DEF Drawn, b
      <4> QED BY <2>6, <3>2, <4>1
    <3> QED BY <3>1, <3>2
  <2>9. Drawn(r)
    BY <2>3, <2>7, <2>8 DEF Drawn
  <2>10. OldIn(r) = OldIn(s)
    <3>1. ASSUME NEW p \in Places PROVE p \in OldIn(r) <=> p \in OldIn(s)
      <4>1. p \in OldIn(r) <=> f[p] = "old"
        BY <2>3, <2>7, InOld
      <4>2. p \in OldIn(s) <=> s.f[p] = "old" \/ (p \in DOMAIN b /\ b[p] = "old")
        BY InOld DEF b
      <4>3. p \in DOMAIN b => s.f[p] = "cursor"
        BY <1>4 DEF Drawn, b
      <4> QED BY <2>6, <4>1, <4>2, <4>3
    <3> QED BY <3>1 DEF OldIn
  <2> QED BY <2>7, <2>9, <2>10 DEF r
<1> QED BY <1>3, <1>4

\* mouse_cursor_draw_locked of a pointer that is off: on, unless somebody updates.
LEMMA Draws ==
    ASSUME NEW s \in Pointer, Drawn(s), ~s.c.visible
    PROVE  LET d == draw_locked(s)
           IN  /\ d \in Pointer /\ Drawn(d) /\ (d.c.visible <=> s.c.updates = 0)
               /\ d.c.x = s.c.x /\ d.c.updates = s.c.updates /\ OldIn(d) = OldIn(s)
<1> DEFINE d == draw_locked(s)
           b == capture_locked(s)
           c == [s.c EXCEPT !.visible = TRUE, !.backing = b]
           f == [p \in Places |-> IF p \in Span(s.c.x) THEN "cursor" ELSE s.f[p]]
<1>1. /\ s.c \in CursorType /\ s.f \in [Places -> Shades] /\ s = [c |-> s.c, f |-> s.f]
      /\ s.c.x \in Places /\ s.c.updates \in Nat
      /\ s.c = [x |-> s.c.x, visible |-> s.c.visible, updates |-> s.c.updates, backing |-> s.c.backing]
  BY DEF Pointer, CursorType
<1>2. /\ Span(s.c.x) \subseteq Places /\ \A p \in Places : s.f[p] # "cursor"
      /\ DOMAIN s.c.backing = {}
  BY <1>1, SpanPlaces DEF Drawn
<1>3. CASE s.c.updates # 0
  <2>1. d = s
    BY <1>3 DEF draw_locked
  <2> QED BY <1>3, <2>1
<1>4. CASE s.c.updates = 0
  <2>1. d = [c |-> c, f |-> f]
    BY <1>4 DEF draw_locked
  <2>2. c = [x |-> s.c.x, visible |-> TRUE, updates |-> s.c.updates, backing |-> b]
    BY <1>1, Redrawn
  <2>3. DOMAIN b = Span(s.c.x) /\ \A p \in DOMAIN b : b[p] = s.f[p]
    BY DEF capture_locked
  <2>4. b \in [Span(s.c.x) -> Shades]
    BY <1>1, <1>2 DEF capture_locked
  <2>5. b \in Saved
    BY <1>2, <2>4 DEF Saved
  <2>6. c \in CursorType
    <3> HIDE DEF b
    <3> QED BY <1>1, <2>2, <2>5 DEF CursorType
  <2>7. f \in [Places -> Shades] /\ \A p \in Places : f[p] = IF p \in Span(s.c.x) THEN "cursor" ELSE s.f[p]
    BY <1>1 DEF Shades
  <2>8. /\ d.c.x = s.c.x /\ d.c.updates = s.c.updates /\ d.c.visible = TRUE
        /\ d.c.backing = b /\ d.f = f /\ d \in Pointer
    <3>1. c.x = s.c.x /\ c.updates = s.c.updates /\ c.visible = TRUE /\ c.backing = b
      BY <2>2
    <3> HIDE DEF c, f
    <3> QED BY <2>1, <2>6, <2>7, <3>1 DEF Pointer
  <2> HIDE DEF c, f, d, b
  <2>9. Drawn(d)
    BY <1>2, <2>3, <2>7, <2>8 DEF Drawn
  <2>10. OldIn(d) = OldIn(s)
    <3>1. ASSUME NEW p \in Places PROVE p \in OldIn(d) <=> p \in OldIn(s)
      <4>1. p \in OldIn(d) <=> f[p] = "old" \/ (p \in DOMAIN b /\ b[p] = "old")
        BY <2>8, InOld
      <4>2. p \in OldIn(s) <=> s.f[p] = "old"
        BY <1>2, InOld
      <4> QED BY <2>3, <2>7, <4>1, <4>2
    <3> QED BY <3>1 DEF OldIn
  <2> QED BY <1>4, <2>8, <2>9, <2>10 DEF d
<1> QED BY <1>3, <1>4


\* The count of updates, and the place of a pointer that is off, are nowhere on the screen.
LEMMA Counted ==
    ASSUME NEW s \in Pointer, NEW n \in Nat
    PROVE  LET r == [s EXCEPT !.c.updates = n]
           IN  /\ r \in Pointer /\ (Drawn(s) => Drawn(r)) /\ OldIn(r) = OldIn(s)
               /\ r.c.visible = s.c.visible /\ r.c.x = s.c.x /\ r.c.updates = n
<1> DEFINE c == [s.c EXCEPT !.updates = n]
           r == [s EXCEPT !.c.updates = n]
<1>1. s = [c |-> s.c, f |-> s.f] /\ s.c \in CursorType /\ s.f \in [Places -> Shades]
  BY DEF Pointer
<1>2. /\ c \in CursorType /\ c.visible = s.c.visible /\ c.x = s.c.x /\ c.updates = n
      /\ c.backing = s.c.backing
  BY <1>1 DEF CursorType
<1>3. r = [c |-> c, f |-> s.f]
  BY <1>1
<1> HIDE DEF c
<1>4. r.c = c /\ r.f = s.f /\ r \in Pointer
  BY <1>1, <1>2, <1>3 DEF Pointer
<1> HIDE DEF r
<1>5. Drawn(s) => Drawn(r)
  BY <1>2, <1>4 DEF Drawn
<1>6. OldIn(r) = OldIn(s)
  BY <1>2, <1>4 DEF OldIn
<1> QED BY <1>2, <1>4, <1>5, <1>6 DEF r

LEMMA Placed ==
    ASSUME NEW s \in Pointer, Drawn(s), ~s.c.visible, NEW x \in Places
    PROVE  LET r == [s EXCEPT !.c.x = x]
           IN  /\ r \in Pointer /\ Drawn(r) /\ OldIn(r) = OldIn(s)
               /\ ~r.c.visible /\ r.c.x = x /\ r.c.updates = s.c.updates
<1> DEFINE c == [s.c EXCEPT !.x = x]
           r == [s EXCEPT !.c.x = x]
<1>1. s = [c |-> s.c, f |-> s.f] /\ s.c \in CursorType /\ s.f \in [Places -> Shades]
  BY DEF Pointer
<1>2. /\ c \in CursorType /\ c.visible = s.c.visible /\ c.x = x /\ c.updates = s.c.updates
      /\ c.backing = s.c.backing
  BY <1>1 DEF CursorType
<1>3. r = [c |-> c, f |-> s.f]
  BY <1>1
<1> HIDE DEF c
<1>4. r.c = c /\ r.f = s.f /\ r \in Pointer
  BY <1>1, <1>2, <1>3 DEF Pointer
<1> HIDE DEF r
<1>5. Drawn(r)
  BY <1>2, <1>4 DEF Drawn
<1>6. OldIn(r) = OldIn(s)
  BY <1>2, <1>4 DEF OldIn
<1> QED BY <1>2, <1>4, <1>5, <1>6 DEF r

\* mouse_cursor_begin_framebuffer_update and _end_framebuffer_update.
LEMMA Begins ==
    ASSUME NEW s \in Pointer, Drawn(s)
    PROVE  LET r == begin_framebuffer_update(s)
           IN  /\ r \in Pointer /\ Drawn(r) /\ ~r.c.visible
               /\ r.c.updates = s.c.updates + 1 /\ OldIn(r) = OldIn(s)
<1> DEFINE n == s.c.updates + 1
           q == [s EXCEPT !.c.updates = n]
<1>1. n \in Nat
  BY DEF Pointer, CursorType
<1>2. begin_framebuffer_update(s) = restore_locked(q)
  BY DEF begin_framebuffer_update
<1>3. q \in Pointer /\ Drawn(q) /\ OldIn(q) = OldIn(s) /\ q.c.updates = n
  <2> HIDE DEF n
  <2> QED BY <1>1, Counted
<1> HIDE DEF q
<1>4. LET r == restore_locked(q)
      IN  r \in Pointer /\ Drawn(r) /\ ~r.c.visible /\ r.c.updates = q.c.updates /\ OldIn(r) = OldIn(q)
  BY <1>3, Restores
<1> QED BY <1>2, <1>3, <1>4

LEMMA Ends ==
    ASSUME NEW s \in Pointer, Drawn(s), ~s.c.visible, s.c.updates > 0
    PROVE  LET r == end_framebuffer_update(s)
           IN  /\ r \in Pointer /\ Drawn(r) /\ (r.c.visible <=> r.c.updates = 0)
               /\ r.c.updates = s.c.updates - 1 /\ OldIn(r) = OldIn(s)
<1> DEFINE n == s.c.updates - 1
           q == [s EXCEPT !.c.updates = n]
<1>0. n \in Nat /\ s.c.updates # 0
  BY DEF Pointer, CursorType
<1>1. [s EXCEPT !.c.updates = IF @ = 0 THEN 0 ELSE @ - 1] = q
  BY <1>0
<1>2. end_framebuffer_update(s) = IF q.c.updates = 0 /\ ~q.c.visible THEN draw_locked(q) ELSE q
  BY <1>1 DEF end_framebuffer_update
<1>3. /\ q \in Pointer /\ Drawn(q) /\ OldIn(q) = OldIn(s) /\ q.c.updates = n
      /\ q.c.visible = s.c.visible
  <2> HIDE DEF n
  <2> QED BY <1>0, Counted
<1> HIDE DEF q
<1>4. LET r == draw_locked(q)
      IN  /\ r \in Pointer /\ Drawn(r) /\ (r.c.visible <=> q.c.updates = 0)
          /\ r.c.updates = q.c.updates /\ OldIn(r) = OldIn(q)
  BY <1>3, Draws
<1> QED BY <1>2, <1>3, <1>4

\* mouse_cursor_apply_movement_locked: off, moved, and on again unless somebody updates.
LEMMA Moves ==
    ASSUME NEW s \in Pointer, Drawn(s), NEW dx \in Int
    PROVE  LET r == apply_movement_locked(s, dx)
           IN  /\ r \in Pointer /\ Drawn(r) /\ (r.c.visible <=> r.c.updates = 0)
               /\ r.c.updates = s.c.updates /\ OldIn(r) = OldIn(s)
<1> DEFINE r == restore_locked(s)
           x == Moved(r.c.x, dx)
           q == [r EXCEPT !.c.x = x]
<1>1. /\ r \in Pointer /\ Drawn(r) /\ ~r.c.visible
      /\ r.c.updates = s.c.updates /\ OldIn(r) = OldIn(s)
  BY Restores
<1>2. x \in Places
  <2>1. r.c.x \in Int
    BY <1>1, Consts DEF Pointer, CursorType, Places
  <2> HIDE DEF r
  <2> QED BY <2>1, Consts DEF Moved, Places
<1>3. apply_movement_locked(s, dx) = draw_locked(q)
  BY DEF apply_movement_locked
<1>4. q \in Pointer /\ Drawn(q) /\ OldIn(q) = OldIn(r) /\ ~q.c.visible /\ q.c.updates = r.c.updates
  <2> HIDE DEF r, x
  <2> QED BY <1>1, <1>2, Placed
<1> HIDE DEF q
<1>5. LET d == draw_locked(q)
      IN  /\ d \in Pointer /\ Drawn(d) /\ (d.c.visible <=> q.c.updates = 0)
          /\ d.c.updates = q.c.updates /\ OldIn(d) = OldIn(q)
  BY <1>4, Draws
<1> QED BY <1>1, <1>3, <1>4, <1>5


-----------------------------------------------------------------------------
(* Damage.                                                                 *)
Rects == {r \in Places \X Places : r[1] <= r[2]}
DamageType == [full : BOOLEAN, rects : SUBSET Rects]

\* A set of natural numbers has a least member, and one with a bound a greatest.
LEMMA Least == ASSUME NEW X \in SUBSET Nat, X # {} PROVE \E x \in X : \A y \in X : x <= y
<1> DEFINE R == OpToRel(<, Nat)
<1>1. IsWellFoundedOn(R, Nat)
  BY NatLessThanWellFounded
<1>2. \A i, j \in Nat : i < j => <<i, j>> \in R
  BY DEF OpToRel
<1> HIDE DEF R
<1>3. PICK x \in X : \A y \in X : ~(<<y, x>> \in R)
  BY <1>1, WFMin
<1>4. ASSUME NEW y \in X PROVE x <= y
  <2>1. x \in Nat /\ y \in Nat /\ ~(y < x)
    BY <1>2, <1>3
  <2> QED BY <2>1
<1> QED BY <1>4

LEMMA Greatest ==
    ASSUME NEW m \in Nat, NEW X \in SUBSET Nat, X # {}, \A x \in X : x <= m
    PROVE  \E x \in X : \A y \in X : x >= y
<1> DEFINE Z == {z \in Nat : m - z \in X}
<1>1. Z # {}
  <2>1. PICK x \in X : TRUE
    OBVIOUS
  <2>2. m - x \in Nat /\ m - (m - x) = x
    BY <2>1
  <2> QED BY <2>1, <2>2
<1>2. PICK z \in Z : \A y \in Z : z <= y
  <2> HIDE DEF Z
  <2>1. Z \in SUBSET Nat
    BY DEF Z
  <2> QED BY <1>1, <2>1, Least
<1>3. ASSUME NEW y \in X PROVE m - z >= y
  <2>1. m - y \in Nat /\ m - (m - y) = y
    OBVIOUS
  <2>2. z <= m - y
    BY <1>2, <2>1
  <2> QED BY <2>2
<1> QED BY <1>2, <1>3

\* The join of rectangles holds each of them and is on the screen.
LEMMA UnionCovers ==
    ASSUME NEW rs \in SUBSET Rects, rs # {}
    PROVE  Union(rs) \in Rects /\ \A r \in rs : PlacesOf(r) \subseteq PlacesOf(Union(rs))
<1> DEFINE X == {r[1] : r \in rs}
           Y == {r[2] : r \in rs}
           l == CHOOSE v \in X : \A r \in rs : v <= r[1]
           h == CHOOSE v \in Y : \A r \in rs : v >= r[2]
<1>0. /\ X # {} /\ Y # {} /\ X \in SUBSET Nat /\ Y \in SUBSET Nat
      /\ \A y \in Y : y <= Width
      /\ \A r \in rs : r[1] \in X /\ r[2] \in Y /\ r[1] \in Places /\ r[2] \in Places /\ r[1] <= r[2]
  BY Consts DEF Rects, Places
<1>1. l \in X /\ \A r \in rs : l <= r[1]
  <2>1. \E v \in X : \A x \in X : v <= x
    <3> HIDE DEF X
    <3> QED BY <1>0, Least
  <2>2. \E v \in X : \A r \in rs : v <= r[1]
    BY <1>0, <2>1
  <2> HIDE DEF X
  <2> QED BY <2>2
<1>2. h \in Y /\ \A r \in rs : h >= r[2]
  <2>1. \E v \in Y : \A y \in Y : v >= y
    <3> HIDE DEF Y
    <3> QED BY <1>0, Consts, Greatest
  <2>2. \E v \in Y : \A r \in rs : v >= r[2]
    BY <1>0, <2>1
  <2> HIDE DEF Y
  <2> QED BY <2>2
<1>3. l \in Places /\ h \in Places
  <2> HIDE DEF l, h
  <2> QED BY <1>0, <1>1, <1>2
<1>4. Union(rs) = <<l, h>>
  BY DEF Union
<1> HIDE DEF l, h, X, Y
<1>5. l <= h
  <2>1. PICK r \in rs : TRUE
    OBVIOUS
  <2>2. l <= r[1] /\ r[1] <= r[2] /\ r[2] <= h /\ r[1] \in Int /\ r[2] \in Int /\ l \in Int /\ h \in Int
    BY <1>0, <1>1, <1>2, <1>3, <2>1, Consts DEF Places
  <2> QED BY <2>2
<1>6. <<l, h>> \in Rects
  BY <1>3, <1>5 DEF Rects
<1>7. ASSUME NEW r \in rs PROVE PlacesOf(r) \subseteq PlacesOf(<<l, h>>)
  <2>1. l <= r[1] /\ r[2] <= h /\ r[1] \in Int /\ r[2] \in Int /\ l \in Int /\ h \in Int
    BY <1>0, <1>1, <1>2, <1>3, Consts DEF Places
  <2> QED BY <2>1 DEF PlacesOf
<1> QED BY <1>4, <1>6, <1>7

\* What is on the screen of a window.
LEMMA ClippedPlaces ==
    ASSUME NEW w \in DOMAIN Bounds
    PROVE  LET clip == Clipped(Bounds[w])
           IN  /\ clip[1] \in Int /\ clip[2] \in Int
               /\ clip[1] <= clip[2] => clip \in Rects
               /\ clip[1] > clip[2] => Area(w) = {}
               /\ Area(w) = PlacesOf(clip) /\ Area(w) \subseteq Places
               /\ \A p \in Places : p \in Area(w) <=> p \in PlacesOf(Bounds[w])
<1> DEFINE l == Bounds[w][1]
           h == Bounds[w][2]
           cl == IF l < 0 THEN 0 ELSE l
           ch == IF h >= Width THEN Width - 1 ELSE h
<1>1. l \in Int /\ h \in Int /\ Width \in Nat /\ Width > 0 /\ Bounds[w] = <<l, h>> /\ l <= h
  BY Consts, ScreenAssumption
<1>2. Clipped(Bounds[w]) = <<cl, ch>> /\ PlacesOf(Bounds[w]) = l..h /\ Area(w) = cl..ch
  BY DEF Clipped, PlacesOf, Area
<1> HIDE DEF l, h
<1>3. /\ cl \in Int /\ ch \in Int /\ cl >= 0 /\ ch <= Width - 1
      /\ \A p \in Int : p >= 0 /\ p <= Width - 1 => ((p >= cl /\ p <= ch) <=> (p >= l /\ p <= h))
  BY <1>1
<1>4. cl <= ch => cl <= Width - 1 /\ ch >= 0
  BY <1>1, <1>3
<1> HIDE DEF cl, ch
<1>5. cl <= ch => <<cl, ch>> \in Rects
  BY <1>1, <1>3, <1>4 DEF Rects, Places
<1>6. cl > ch => cl..ch = {}
  BY <1>3
<1>7. cl..ch \subseteq Places
  BY <1>1, <1>3 DEF Places
<1>8. \A p \in Places : p \in cl..ch <=> p \in l..h
  BY <1>1, <1>3 DEF Places
<1> DEFINE clip == <<cl, ch>>
<1>9. clip[1] = cl /\ clip[2] = ch /\ PlacesOf(clip) = cl..ch /\ Clipped(Bounds[w]) = clip
  BY <1>2 DEF PlacesOf
<1>10. clip[1] <= clip[2] => clip \in Rects
  BY <1>5
<1> HIDE DEF clip
<1> QED BY <1>2, <1>3, <1>6, <1>7, <1>8, <1>9, <1>10

LEMMA InDamage ==
    ASSUME NEW d \in DamageType
    PROVE  /\ d.full => Damaged(d) = Places
           /\ ~d.full => \A p : p \in Damaged(d) <=> \E r \in d.rects : p \in PlacesOf(r)
           /\ Damaged(d) \subseteq Places
<1>1. d.full => Damaged(d) = Places
  BY DEF Damaged
<1>2. ~d.full => Damaged(d) = UNION {PlacesOf(r) : r \in d.rects}
  BY DEF Damaged
<1>3. ASSUME NEW r \in d.rects PROVE PlacesOf(r) \subseteq Places
  BY Consts DEF DamageType, Rects, PlacesOf, Places
<1> QED BY <1>1, <1>2, <1>3

\* gui_compositor_damage: what was damaged stays so, and the window is.
LEMMA DamageCovers ==
    ASSUME NEW d \in DamageType, NEW w \in DOMAIN Bounds
    PROVE  LET e == gui_compositor_damage(d, Bounds[w])
           IN  e \in DamageType /\ Damaged(d) \cup Area(w) \subseteq Damaged(e)
<1> DEFINE clip == Clipped(Bounds[w])
           touched == {r \in d.rects : Touch(clip, r)}
           apart == d.rects \ touched
           rs == touched \cup {clip}
           e == gui_compositor_damage(d, Bounds[w])
<1>1. /\ clip[1] \in Int /\ clip[2] \in Int /\ (clip[1] <= clip[2] => clip \in Rects)
      /\ (clip[1] > clip[2] => Area(w) = {})
      /\ Area(w) = PlacesOf(clip) /\ Area(w) \subseteq Places
  BY ClippedPlaces
<1>2. e = IF d.full \/ clip[1] > clip[2] THEN d
          ELSE IF Cardinality(apart) >= MaxRects THEN [full |-> TRUE, rects |-> {}]
          ELSE [d EXCEPT !.rects = apart \cup {Union(rs)}]
  BY DEF gui_compositor_damage
<1>3. d.rects \subseteq Rects /\ d.full \in BOOLEAN /\ d = [full |-> d.full, rects |-> d.rects]
  BY DEF DamageType
<1> DEFINE all == [full |-> TRUE, rects |-> {}]
           joined == apart \cup {Union(rs)}
<1>4. (e = d /\ (d.full \/ clip[1] > clip[2])) \/ e = all
      \/ (~d.full /\ clip[1] <= clip[2] /\ e = [d EXCEPT !.rects = joined])
  <2> HIDE DEF clip, apart, rs, e
  <2> QED BY <1>1, <1>2
<1>5. ASSUME e = d, d.full \/ clip[1] > clip[2]
      PROVE  e \in DamageType /\ Damaged(d) \cup Area(w) \subseteq Damaged(e)
  <2> HIDE DEF e, clip
  <2> QED BY <1>1, <1>5, InDamage
<1>6. ASSUME e = all PROVE e \in DamageType /\ Damaged(d) \cup Area(w) \subseteq Damaged(e)
  <2>1. all \in DamageType /\ Damaged(all) = Places
    BY DEF DamageType, Damaged
  <2> HIDE DEF e, clip, all
  <2> QED BY <1>1, <1>6, <2>1, InDamage
<1>7. ASSUME ~d.full, clip[1] <= clip[2], e = [d EXCEPT !.rects = joined]
      PROVE  e \in DamageType /\ Damaged(d) \cup Area(w) \subseteq Damaged(e)
  <2>1. rs \in SUBSET Rects /\ rs # {}
    BY <1>1, <1>3, <1>7
  <2>2. Union(rs) \in Rects /\ \A r \in rs : PlacesOf(r) \subseteq PlacesOf(Union(rs))
    <3> HIDE DEF rs
    <3> QED BY <2>1, UnionCovers
  <2>3. /\ joined \subseteq Rects
        /\ \A r \in d.rects \cup {clip} : \E u \in joined : PlacesOf(r) \subseteq PlacesOf(u)
    <3>1. \A r \in d.rects \cup {clip} : r \in apart \/ r \in rs
      OBVIOUS
    <3>2. apart \subseteq Rects
      BY <1>3
    <3> HIDE DEF apart, rs, clip
    <3> QED BY <2>2, <3>1, <3>2
  <2> HIDE DEF joined, clip, e
  <2>4. e.full = FALSE /\ e.rects = joined /\ e \in DamageType
    BY <1>3, <1>7, <2>3 DEF DamageType
  <2>5. \A p : p \in Damaged(e) <=> \E r \in joined : p \in PlacesOf(r)
    BY <2>4, InDamage
  <2>6. \A p : p \in Damaged(d) <=> \E r \in d.rects : p \in PlacesOf(r)
    BY <1>7, InDamage
  <2>7. \A p : p \in Area(w) <=> p \in PlacesOf(clip)
    BY <1>1
  <2> QED BY <2>3, <2>4, <2>5, <2>6, <2>7
<1> QED
  <2> HIDE DEF e, clip, joined, all
  <2> QED BY <1>4, <1>5, <1>6, <1>7 DEF e


\* Steps applied one after the other: there is such a sequence of results.
StepMaps(T, N) == [1..N -> [T -> T]]
Iterated(f, d, N, G) == f[0] = d /\ \A i \in 1..N : f[i] = G[i][f[i - 1]]
LEMMA Iterates ==
    ASSUME NEW T, NEW d \in T, NEW N \in Nat, NEW G \in StepMaps(T, N)
    PROVE  \E f \in [0..N -> T] : Iterated(f, d, N, G)
<1>0. G \in [1..N -> [T -> T]]
  BY DEF StepMaps
<1> DEFINE Is(f, m) == f[0] = d /\ \A i \in 1..m : f[i] = G[i][f[i - 1]]
           E(m) == \E f \in [0..m -> T] : Is(f, m)
           X == {m \in 0..N : ~E(m)}
<1>1. ASSUME X # {} PROVE FALSE
  <2>1. X \in SUBSET Nat
    OBVIOUS
  <2>2. PICK m \in X : \A y \in X : m <= y
    <3> HIDE DEF X
    <3> QED BY <1>1, <2>1, Least
  <2>3. m \in 0..N /\ m \in Nat /\ ~E(m)
    <3> HIDE DEF E
    <3> QED BY <2>2
  <2>4. CASE m = 0
    <3> DEFINE f == [i \in 0..m |-> d]
    <3>1. f \in [0..m -> T] /\ Is(f, m)
      BY <2>4
    <3> QED BY <2>3, <3>1
  <2>5. CASE m # 0
    <3>1. m - 1 \in 0..N /\ m - 1 < m /\ m \in 1..N
      BY <2>3, <2>5
    <3>2. PICK f \in [0..(m - 1) -> T] : Is(f, m - 1)
      <4>1. E(m - 1)
        <5> HIDE DEF E
        <5> QED BY <2>2, <3>1
      <4> QED BY <4>1
    <3> DEFINE v == G[m][f[m - 1]]
               g == [i \in 0..m |-> IF i = m THEN v ELSE f[i]]
    <3>3. v \in T
      <4>1. f[m - 1] \in T
        BY <3>1
      <4> QED BY <1>0, <3>1, <4>1
    <3> HIDE DEF v
    <3>4. g \in [0..m -> T]
      BY <3>1, <3>3
    <3>5. \A i \in 0..(m - 1) : g[i] = f[i]
      BY <3>1
    <3>6. g[m] = v /\ g[m - 1] = f[m - 1]
      BY <2>3, <3>1, <3>5
    <3> HIDE DEF g
    <3>7. g[0] = d
      BY <3>1, <3>2, <3>5
    <3>8. ASSUME NEW i \in 1..m PROVE g[i] = G[i][g[i - 1]]
      <4>1. CASE i = m
        BY <3>6, <4>1 DEF v
      <4>2. CASE i # m
        <5>1. i \in 1..(m - 1) /\ i \in 0..(m - 1) /\ i - 1 \in 0..(m - 1)
          BY <2>3, <4>2
        <5> QED BY <3>2, <3>5, <5>1
      <4> QED BY <4>1, <4>2
    <3>9. Is(g, m)
      BY <3>7, <3>8
    <3> QED BY <2>3, <3>4, <3>9
  <2> QED BY <2>4, <2>5
<1>2. E(N)
  <2> HIDE DEF E
  <2> QED BY <1>1
<1> QED BY <1>2 DEF Iterated

LEMMA DamageEachType ==
    ASSUME NEW d \in DamageType, NEW windows \in Seq(DOMAIN Bounds)
    PROVE  DamageEach(d, windows) \in DamageType
<1> DEFINE N == Len(windows)
           G == [i \in 1..N |-> [x \in DamageType |-> gui_compositor_damage(x, Bounds[windows[i]])]]
           Rec(f) == f = [i \in 0..N |->
                            IF i = 0 THEN d
                            ELSE CHOOSE r \in {gui_compositor_damage(b, Bounds[windows[i]]) : b \in {f[i - 1]}} : TRUE]
<1>1. N \in Nat /\ \A i \in 1..N : windows[i] \in DOMAIN Bounds
  BY ElementOfSeq
<1>2. \A i \in 1..N, x \in DamageType : gui_compositor_damage(x, Bounds[windows[i]]) \in DamageType
  BY <1>1, DamageCovers
<1>3. \A i, x : (CHOOSE r \in {gui_compositor_damage(b, Bounds[windows[i]]) : b \in {x}} : TRUE)
                   = gui_compositor_damage(x, Bounds[windows[i]])
  OBVIOUS
<1>4. \E f : Rec(f)
  <2>1. G \in StepMaps(DamageType, N)
    BY <1>2 DEF StepMaps
  <2>2. \A i \in 1..N, x \in DamageType : G[i][x] = gui_compositor_damage(x, Bounds[windows[i]])
    OBVIOUS
  <2>3. PICK f \in [0..N -> DamageType] : f[0] = d /\ \A i \in 1..N : f[i] = G[i][f[i - 1]]
    <3>1. N \in Nat
      BY <1>1
    <3>2. \E f \in [0..N -> DamageType] : Iterated(f, d, N, G)
      <4> HIDE DEF G, N
      <4> QED BY <2>1, <3>1, Iterates
    <3> HIDE DEF G, N
    <3> QED BY <3>2 DEF Iterated
  <2> HIDE DEF G
  <2>4. ASSUME NEW i \in 0..N, i # 0 PROVE f[i] = gui_compositor_damage(f[i - 1], Bounds[windows[i]])
    <3>1. i \in 1..N /\ i - 1 \in 0..N
      BY <1>1, <2>4
    <3> QED BY <2>2, <2>3, <3>1
  <2>5. Rec(f)
    BY <1>3, <2>3, <2>4
  <2> QED BY <2>5
<1>5. PICK f : DamageEach(d, windows) = f[N] /\ Rec(f)
  BY <1>4 DEF DamageEach
<1>6. f[0] = d /\ \A i \in 1..N : f[i] = gui_compositor_damage(f[i - 1], Bounds[windows[i]])
  BY <1>1, <1>3, <1>5
<1> HIDE DEF Rec
<1> DEFINE X == {m \in 0..N : f[m] \notin DamageType}
<1>7. ASSUME X # {} PROVE FALSE
  <2>1. X \in SUBSET Nat
    OBVIOUS
  <2>2. PICK m \in X : \A y \in X : m <= y
    <3> HIDE DEF X
    <3> QED BY <1>7, <2>1, Least
  <2>3. m \in Nat /\ m # 0
    BY <1>6, <2>2
  <2>4. m - 1 \in 0..N /\ m - 1 < m /\ m \in 1..N
    BY <1>1, <2>2, <2>3
  <2>5. f[m - 1] \in DamageType
    BY <2>2, <2>4
  <2> QED BY <1>2, <1>6, <2>2, <2>4, <2>5
<1> QED BY <1>1, <1>5, <1>7


-----------------------------------------------------------------------------
(* Calls in progress.                                                      *)
Ops == {"paint", "damage", "scene", "damage_all", "take", "begin", "blit", "end", "spawn"}
StepType == [op : Ops, windows : Seq(DOMAIN Bounds), direct : BOOLEAN, at : SUBSET Places]
Jobs == Seq(StepType)

\* What stands before and after step i of what task t has left: pixels before their
\* damage, an update from its begin to its end at the front, the start of a shell last.
Neighbours(t, j, i) ==
    /\ j[i].op # "blit" => j[i].at = {}
    /\ j[i].op = "paint" => /\ i < Len(j) /\ j[i + 1].op = "damage"
                            /\ j[i + 1].windows = j[i].windows
                            /\ j[i].direct \/ j[i].windows[1] = "topbar"
    /\ j[i].op \in {"paint", "damage", "spawn"} => Len(j[i].windows) = 1
    /\ j[i].op = "scene" => t = "gui" /\ i < Len(j) /\ j[i + 1].op = "damage_all"
    /\ j[i].op = "begin" => i = 1 /\ i < Len(j) /\ j[i + 1].op = "blit"
    /\ j[i].op = "blit" => (i = 1 \/ j[i - 1].op = "begin") /\ i < Len(j) /\ j[i + 1].op = "end"
    /\ j[i].op = "end" => i = 1 \/ j[i - 1].op = "blit"
    /\ j[i].op = "spawn" => t = "gui" /\ i = Len(j) /\ j[i].windows[1] \in ToSet(Terminals)
Shape(t, j) == \A i \in DOMAIN j : Neighbours(t, j, i)

UpdateOps == {"begin", "blit", "end"}
Calm(j) == \A i \in DOMAIN j : j[i].op \notin UpdateOps
Upd(j) == \E i \in DOMAIN j : j[i].op = "end" /\ \A k \in 1..i : j[k].op # "begin"

LEMMA JobFacts ==
    ASSUME NEW j \in Jobs
    PROVE  /\ Len(j) \in Nat /\ DOMAIN j = 1..Len(j) /\ (j # <<>> => 1 \in DOMAIN j /\ Head(j) = j[1])
           /\ \A i \in DOMAIN j : j[i] \in StepType /\ i \in Nat /\ i >= 1 /\ i <= Len(j)
BY LenProperties, ElementOfSeq DEF Jobs

LEMMA TailFacts ==
    ASSUME NEW j \in Jobs, j # <<>>
    PROVE  /\ Tail(j) \in Jobs /\ Len(Tail(j)) = Len(j) - 1
           /\ \A i \in DOMAIN Tail(j) : i + 1 \in DOMAIN j /\ Tail(j)[i] = j[i + 1]
           /\ \A i \in DOMAIN j : i > 1 => i - 1 \in DOMAIN Tail(j) /\ j[i] = Tail(j)[i - 1]
<1>1. Tail(j) \in Jobs /\ Len(Tail(j)) = Len(j) - 1 /\ \A i \in 1..Len(Tail(j)) : Tail(j)[i] = j[i + 1]
  BY DEF Jobs
<1>2. DOMAIN Tail(j) = 1..(Len(j) - 1) /\ DOMAIN j = 1..Len(j) /\ Len(j) \in Nat
  BY <1>1, JobFacts
<1> QED BY <1>1, <1>2

\* A blit follows its begin, an end its blit, and nothing else of an update is anywhere.
LEMMA UpdateAtFront ==
    ASSUME NEW t, NEW j \in Jobs, Shape(t, j), NEW i \in DOMAIN j
    PROVE  /\ j[i].op = "blit" => i = 1 \/ (i = 2 /\ j[1].op = "begin")
           /\ j[i].op = "end" => i = 1 \/ (i = 2 /\ j[1].op = "blit") \/ (i = 3 /\ j[1].op = "begin")
<1>1. Neighbours(t, j, i) /\ i \in Nat /\ i >= 1 /\ i <= Len(j) /\ Len(j) \in Nat
  BY JobFacts DEF Shape
<1>2. ASSUME i # 1 PROVE i - 1 \in DOMAIN j /\ Neighbours(t, j, i - 1)
  <2>1. i - 1 \in DOMAIN j
    BY <1>1, <1>2, JobFacts
  <2> QED BY <2>1 DEF Shape
<1>3. ASSUME j[i].op = "blit", i # 1 PROVE i = 2 /\ j[1].op = "begin"
  <2>1. j[i - 1].op = "begin"
    BY <1>1, <1>3 DEF Neighbours
  <2>2. i - 1 = 1
    BY <1>2, <1>3, <2>1 DEF Neighbours
  <2>3. i = 2
    BY <1>1, <2>2
  <2> QED BY <2>1, <2>2, <2>3
<1>4. ASSUME j[i].op = "end", i # 1 PROVE (i = 2 /\ j[1].op = "blit") \/ (i = 3 /\ j[1].op = "begin")
  <2>1. j[i - 1].op = "blit"
    BY <1>1, <1>4 DEF Neighbours
  <2>2. CASE i - 1 = 1
    <3>1. i = 2
      BY <1>1, <2>2
    <3> QED BY <2>1, <2>2, <3>1
  <2>3. CASE i - 1 # 1
    <3>1. j[(i - 1) - 1].op = "begin"
      BY <1>2, <1>4, <2>1, <2>3 DEF Neighbours
    <3>2. (i - 1) - 1 \in DOMAIN j
      BY <1>1, <1>4, <2>3, JobFacts
    <3>3. Neighbours(t, j, (i - 1) - 1)
      BY <3>2 DEF Shape
    <3>4. (i - 1) - 1 = 1
      BY <3>1, <3>3 DEF Neighbours
    <3>5. i = 3
      BY <1>1, <3>4
    <3> QED BY <3>1, <3>4, <3>5
  <2> QED BY <2>2, <2>3
<1> QED BY <1>3, <1>4

LEMMA TailShape ==
    ASSUME NEW t, NEW j \in Jobs, Shape(t, j), j # <<>>
    PROVE  Shape(t, Tail(j))
<1> SUFFICES ASSUME NEW i \in DOMAIN Tail(j) PROVE Neighbours(t, Tail(j), i)
  BY DEF Shape
<1> DEFINE u == Tail(j)
<1>1. /\ u[i] = j[i + 1] /\ Len(u) = Len(j) - 1 /\ Len(j) \in Nat /\ i \in Nat /\ i >= 1
      /\ i <= Len(j) - 1 /\ i + 1 \in DOMAIN j
  BY TailFacts, JobFacts
<1>2. i < Len(u) => u[i + 1] = j[i + 2]
  <2>1. ASSUME i < Len(u) PROVE i + 1 \in DOMAIN u /\ (i + 1) + 1 = i + 2
    BY <1>1, <2>1, TailFacts, JobFacts
  <2> QED BY <2>1, TailFacts
<1>3. i # 1 => u[i - 1] = j[i]
  <2>1. ASSUME i # 1 PROVE i - 1 \in DOMAIN u /\ (i - 1) + 1 = i
    BY <1>1, <2>1, TailFacts, JobFacts
  <2> QED BY <2>1, TailFacts
<1>4. Neighbours(t, j, i + 1)
  BY <1>1 DEF Shape
<1>5. (i + 1) + 1 = i + 2 /\ (i + 1) - 1 = i /\ (i + 1 < Len(j) <=> i < Len(u)) /\ (i + 1 = Len(j) <=> i = Len(u)) /\ i + 1 # 1
  BY <1>1
<1> HIDE DEF u
<1> QED BY <1>1, <1>2, <1>3, <1>4, <1>5 DEF Neighbours, u


\* Which calls are between the begin and the end of an update, by their first step.
LEMMA Updates ==
    ASSUME NEW t, NEW j \in Jobs, Shape(t, j)
    PROVE  /\ Calm(j) => ~Upd(j)
           /\ j # <<>> /\ j[1].op = "begin" => ~Upd(j) /\ Upd(Tail(j))
           /\ j # <<>> /\ j[1].op = "blit" => Upd(j) /\ Upd(Tail(j))
           /\ j # <<>> /\ j[1].op = "end" => Upd(j)
           /\ j # <<>> /\ j[1].op \notin {"begin", "blit"} => Calm(Tail(j)) /\ ~Upd(Tail(j))
           /\ j # <<>> /\ j[1].op \notin UpdateOps => Calm(j) /\ ~Upd(j)
<1>1. Calm(j) => ~Upd(j)
  BY DEF Calm, Upd, UpdateOps
<1>2. \A i \in DOMAIN j : i \in Nat /\ i >= 1 /\ i <= Len(j) /\ Len(j) \in Nat
  BY JobFacts
<1>3. ASSUME j # <<>>, j[1].op = "begin" PROVE ~Upd(j) /\ Upd(Tail(j))
  <2>1. 1 \in DOMAIN j /\ Len(j) >= 2 /\ j[2].op = "blit"
    <3>1. 1 \in DOMAIN j
      BY <1>3, JobFacts
    <3>2. 1 < Len(j) /\ j[1 + 1].op = "blit"
      BY <1>3, <3>1 DEF Shape, Neighbours
    <3>3. Len(j) >= 2 /\ 1 + 1 = 2
      BY <1>2, <3>1, <3>2
    <3> QED BY <3>1, <3>2, <3>3
  <2>2. Len(j) >= 3 /\ j[3].op = "end"
    <3>1. 2 \in DOMAIN j
      BY <2>1, JobFacts
    <3>2. 2 < Len(j) /\ j[2 + 1].op = "end"
      BY <2>1, <3>1 DEF Shape, Neighbours
    <3>3. Len(j) >= 3 /\ 2 + 1 = 3
      BY <1>2, <2>1, <3>2
    <3> QED BY <3>2, <3>3
  <2>3. ~Upd(j)
    BY <1>2, <1>3, <2>1 DEF Upd
  <2>4. Tail(j)[1] = j[2] /\ Tail(j)[2] = j[3] /\ 2 \in DOMAIN Tail(j)
    <3>1. 2 \in DOMAIN Tail(j) /\ 1 \in DOMAIN Tail(j)
      BY <1>3, <1>2, <2>1, <2>2, TailFacts, JobFacts
    <3>2. Tail(j)[1] = j[1 + 1] /\ Tail(j)[2] = j[2 + 1]
      BY <1>3, <3>1, TailFacts
    <3> QED BY <3>1, <3>2
  <2>5. \A k \in 1..2 : Tail(j)[k].op # "begin"
    BY <2>1, <2>2, <2>4
  <2> QED BY <2>2, <2>3, <2>4, <2>5 DEF Upd
<1>4. ASSUME j # <<>>, j[1].op = "blit" PROVE Upd(j) /\ Upd(Tail(j))
  <2>1. 1 \in DOMAIN j /\ Len(j) >= 2 /\ j[2].op = "end" /\ 2 \in DOMAIN j
    <3>1. 1 \in DOMAIN j
      BY <1>4, JobFacts
    <3>2. 1 < Len(j) /\ j[1 + 1].op = "end"
      BY <1>4, <3>1 DEF Shape, Neighbours
    <3>3. Len(j) >= 2 /\ 1 + 1 = 2
      BY <1>2, <3>1, <3>2
    <3>4. 2 \in DOMAIN j
      BY <3>3, JobFacts
    <3> QED BY <3>1, <3>2, <3>3, <3>4
  <2>2. \A k \in 1..2 : j[k].op # "begin"
    BY <1>4, <2>1
  <2>3. Tail(j)[1] = j[2] /\ 1 \in DOMAIN Tail(j)
    <3>1. 1 \in DOMAIN Tail(j)
      BY <1>4, <1>2, <2>1, TailFacts, JobFacts
    <3>2. Tail(j)[1] = j[1 + 1]
      BY <1>4, <3>1, TailFacts
    <3> QED BY <3>1, <3>2
  <2>4. \A k \in 1..1 : Tail(j)[k].op # "begin"
    BY <2>1, <2>3
  <2> QED BY <2>1, <2>2, <2>3, <2>4 DEF Upd
<1>5. ASSUME j # <<>>, j[1].op = "end" PROVE Upd(j)
  <2>1. 1 \in DOMAIN j /\ \A k \in 1..1 : j[k].op # "begin"
    BY <1>5, JobFacts
  <2> QED BY <1>5, <2>1 DEF Upd
<1>6. ASSUME j # <<>>, j[1].op \notin {"begin", "blit"}, NEW i \in DOMAIN j, i > 1
      PROVE  j[i].op \notin UpdateOps
  <2>1. j[i].op # "blit" /\ j[i].op # "end"
    BY <1>2, <1>6, UpdateAtFront
  <2>2. j[i].op # "begin"
    BY <1>2, <1>6 DEF Shape, Neighbours
  <2> QED BY <2>1, <2>2 DEF UpdateOps
<1>7. ASSUME j # <<>>, j[1].op \notin {"begin", "blit"} PROVE Calm(Tail(j)) /\ ~Upd(Tail(j))
  <2>1. ASSUME NEW i \in DOMAIN Tail(j) PROVE Tail(j)[i].op \notin UpdateOps
    <3>1. i + 1 \in DOMAIN j /\ Tail(j)[i] = j[i + 1] /\ i \in Nat /\ i >= 1
      BY <1>7, TailFacts, JobFacts
    <3> QED BY <1>6, <1>7, <3>1
  <2> QED BY <2>1 DEF Calm, Upd, UpdateOps
<1>8. ASSUME j # <<>>, j[1].op \notin UpdateOps PROVE Calm(j)
  BY <1>2, <1>6, <1>8 DEF Calm, UpdateOps
<1> QED BY <1>1, <1>3, <1>4, <1>5, <1>7, <1>8 DEF UpdateOps

\* One call after the other.
LEMMA ConcatFacts ==
    ASSUME NEW j \in Jobs, NEW k \in Jobs
    PROVE  /\ j \o k \in Jobs /\ Len(j \o k) = Len(j) + Len(k)
           /\ \A i \in DOMAIN j : i \in DOMAIN (j \o k) /\ (j \o k)[i] = j[i]
           /\ \A i \in DOMAIN k : Len(j) + i \in DOMAIN (j \o k) /\ (j \o k)[Len(j) + i] = k[i]
           /\ \A i \in DOMAIN (j \o k) : i \in DOMAIN j \/ (i - Len(j) \in DOMAIN k /\ i > Len(j))
<1>1. /\ j \o k \in Jobs /\ Len(j \o k) = Len(j) + Len(k)
      /\ \A i \in 1..(Len(j) + Len(k)) : (j \o k)[i] = IF i <= Len(j) THEN j[i] ELSE k[i - Len(j)]
  BY ConcatProperties DEF Jobs
<1>2. /\ DOMAIN j = 1..Len(j) /\ DOMAIN k = 1..Len(k) /\ DOMAIN (j \o k) = 1..(Len(j) + Len(k))
      /\ Len(j) \in Nat /\ Len(k) \in Nat
  BY <1>1, JobFacts
<1> QED BY <1>1, <1>2

LEMMA ConcatShape ==
    ASSUME NEW t, NEW j \in Jobs, Shape(t, j), NEW k \in Jobs, Shape(t, k), Calm(k),
           \A i \in DOMAIN j : j[i].op # "spawn"
    PROVE  Shape(t, j \o k) /\ (Calm(j) => Calm(j \o k))
<1> DEFINE c == j \o k
           n == Len(j)
<1>1. n \in Nat /\ Len(k) \in Nat /\ Len(c) = n + Len(k) /\ c \in Jobs
  BY ConcatFacts, JobFacts
<1>2. ASSUME NEW i \in DOMAIN j PROVE Neighbours(t, c, i)
  <2>1. c[i] = j[i] /\ i \in Nat /\ i >= 1 /\ i <= n
    BY ConcatFacts, JobFacts
  <2>2. i < n => c[i + 1] = j[i + 1] /\ i < Len(c)
    <3>1. ASSUME i < n PROVE i + 1 \in DOMAIN j
      BY <1>1, <2>1, <3>1, JobFacts
    <3> QED BY <1>1, <2>1, <3>1, ConcatFacts
  <2>3. i # 1 => c[i - 1] = j[i - 1]
    <3>1. ASSUME i # 1 PROVE i - 1 \in DOMAIN j
      BY <1>1, <2>1, <3>1, JobFacts
    <3> QED BY <3>1, ConcatFacts
  <2>4. Neighbours(t, j, i) /\ j[i].op # "spawn"
    BY DEF Shape
  <2> HIDE DEF c
  <2> QED BY <2>1, <2>2, <2>3, <2>4 DEF Neighbours
<1>3. ASSUME NEW i \in DOMAIN k PROVE Neighbours(t, c, n + i) /\ c[n + i] = k[i]
  <2>1. c[n + i] = k[i] /\ i \in Nat /\ i >= 1 /\ i <= Len(k)
    BY ConcatFacts, JobFacts
  <2>2. i < Len(k) => c[(n + i) + 1] = k[i + 1] /\ n + i < Len(c)
    <3>1. ASSUME i < Len(k) PROVE c[(n + i) + 1] = k[i + 1] /\ n + i < Len(c)
      <4>1. i + 1 \in DOMAIN k
        BY <1>1, <2>1, <3>1, JobFacts
      <4>2. c[n + (i + 1)] = k[i + 1]
        BY <4>1, ConcatFacts
      <4>3. (n + i) + 1 = n + (i + 1) /\ n + i < Len(c)
        BY <1>1, <2>1, <3>1
      <4> QED BY <4>2, <4>3
    <3> QED BY <3>1
  <2>3. Neighbours(t, k, i) /\ k[i].op \notin UpdateOps
    BY DEF Shape, Calm
  <2>4. i = Len(k) <=> n + i = Len(c)
    BY <1>1, <2>1
  <2> HIDE DEF c, n
  <2> QED BY <2>1, <2>2, <2>3, <2>4 DEF Neighbours, UpdateOps
<1>4. \A i \in DOMAIN c : i \in DOMAIN j \/ \E m \in DOMAIN k : i = n + m
  <2> SUFFICES ASSUME NEW i \in DOMAIN c, i \notin DOMAIN j PROVE i - n \in DOMAIN k /\ i = n + (i - n)
    BY Zenon
  <2>1. i - n \in DOMAIN k /\ i \in Nat
    BY <1>1, ConcatFacts, JobFacts
  <2> QED BY <1>1, <2>1
<1>5. Shape(t, c)
  <2> HIDE DEF c, n
  <2> QED BY <1>2, <1>3, <1>4 DEF Shape
<1>6. ASSUME Calm(j) PROVE Calm(c)
  <2> SUFFICES ASSUME NEW i \in DOMAIN c PROVE c[i].op \notin UpdateOps
    BY DEF Calm
  <2>1. CASE i \in DOMAIN j
    <3>1. c[i] = j[i]
      BY <2>1, ConcatFacts
    <3> HIDE DEF c
    <3> QED BY <1>6, <2>1, <3>1 DEF Calm
  <2>2. CASE i \notin DOMAIN j
    <3>1. PICK m \in DOMAIN k : i = n + m
      <4> HIDE DEF c, n
      <4> QED BY <1>4, <2>2
    <3>2. c[i] = k[m]
      BY <1>3, <3>1
    <3> HIDE DEF c
    <3> QED BY <3>2 DEF Calm
  <2> QED BY <2>1, <2>2
<1> QED BY <1>5, <1>6


LEMMA StepFacts ==
    ASSUME NEW op \in Ops, NEW windows \in Seq(DOMAIN Bounds), NEW direct \in BOOLEAN
    PROVE  LET s == Step(op, windows, direct)
           IN  s \in StepType /\ s.op = op /\ s.windows = windows /\ s.direct = direct /\ s.at = {}
BY DEF Step, StepType

LEMMA PlainFacts ==
    ASSUME NEW op \in Ops
    PROVE  Plain(op) \in StepType /\ Plain(op).op = op /\ Plain(op).at = {}
<1>1. <<>> \in Seq(DOMAIN Bounds)
  OBVIOUS
<1> QED BY <1>1, StepFacts DEF Plain

\* gui_compositor_present with damage to present: an update before the rest of the call.
UpdateSteps(places) == <<Plain("begin"), Blit(places), Plain("end")>>
LEMMA UpdateShape ==
    ASSUME NEW t, NEW at \in SUBSET Places, NEW k \in Jobs, Shape(t, k), Calm(k)
    PROVE  LET c == UpdateSteps(at) \o k
           IN  c \in Jobs /\ Shape(t, c) /\ ~Upd(c) /\ c[2].at = at /\ 2 \in DOMAIN c
<1> DEFINE u == UpdateSteps(at)
           b1 == Plain("begin")
           b2 == Blit(at)
           b3 == Plain("end")
<1>1. /\ b1 \in StepType /\ b1.op = "begin" /\ b1.at = {} /\ b3 \in StepType /\ b3.op = "end" /\ b3.at = {}
      /\ b2 \in StepType /\ b2.op = "blit" /\ b2.at = at
  <2>1. "begin" \in Ops /\ "blit" \in Ops /\ "end" \in Ops
    BY DEF Ops
  <2>2. Plain("blit") \in StepType /\ Plain("blit").op = "blit"
    BY <2>1, PlainFacts
  <2>3. b2 \in StepType /\ b2.op = "blit" /\ b2.at = at
    BY <2>2 DEF Blit, StepType
  <2> HIDE DEF b2
  <2> QED BY <2>1, <2>3, PlainFacts
<1>2. u \in Jobs /\ Len(u) = 3 /\ u[1] = b1 /\ u[2] = b2 /\ u[3] = b3
  <2>1. u = <<b1, b2, b3>>
    BY DEF UpdateSteps
  <2> HIDE DEF b1, b2, b3
  <2> QED BY <1>1, <2>1 DEF Jobs
<1>3. DOMAIN u = 1..3
  BY <1>2, JobFacts
<1> HIDE DEF u, b1, b2, b3
<1>4. Shape(t, u)
  <2>1. Neighbours(t, u, 1)
    BY <1>1, <1>2 DEF Neighbours
  <2>2. Neighbours(t, u, 2)
    BY <1>1, <1>2 DEF Neighbours
  <2>3. Neighbours(t, u, 3)
    BY <1>1, <1>2 DEF Neighbours
  <2> QED BY <1>3, <2>1, <2>2, <2>3 DEF Shape
<1>5. u \o k \in Jobs /\ Shape(t, u \o k)
  <2>1. \A i \in DOMAIN u : u[i].op # "spawn"
    BY <1>1, <1>2, <1>3
  <2> QED BY <1>2, <1>4, <2>1, ConcatShape, ConcatFacts
<1>6. (u \o k)[1] = b1 /\ (u \o k)[2] = b2 /\ 2 \in DOMAIN (u \o k) /\ u \o k # <<>>
  <2>1. 1 \in DOMAIN u /\ 2 \in DOMAIN u
    BY <1>3
  <2> QED BY <1>2, <2>1, ConcatFacts
<1>7. ~Upd(u \o k)
  BY <1>1, <1>5, <1>6, Updates
<1> QED BY <1>1, <1>5, <1>6, <1>7 DEF u

-----------------------------------------------------------------------------
(* What is still to be damaged or blitted.                                 *)
Due(s) == IF s.op = "damage_all" THEN Places ELSE IF s.op = "damage" THEN AreaOf(s.windows) ELSE s.at
PendingOf(j) == UNION {Due(j[i]) : i \in DOMAIN j}

LEMMA PendingIs == ASSUME NEW t PROVE Pending(t) = PendingOf(job[t])
BY DEF Pending, PendingOf, Due, ToSet

LEMMA PendingTail ==
    ASSUME NEW j \in Jobs, j # <<>>
    PROVE  PendingOf(j) \subseteq Due(j[1]) \cup PendingOf(Tail(j))
<1> SUFFICES ASSUME NEW i \in DOMAIN j, i # 1 PROVE Due(j[i]) \subseteq PendingOf(Tail(j))
  BY DEF PendingOf
<1>1. i > 1
  BY JobFacts
<1>2. i - 1 \in DOMAIN Tail(j) /\ j[i] = Tail(j)[i - 1]
  BY <1>1, TailFacts
<1> QED BY <1>2 DEF PendingOf

LEMMA PendingConcat ==
    ASSUME NEW j \in Jobs, NEW k \in Jobs
    PROVE  PendingOf(j) \cup PendingOf(k) \subseteq PendingOf(j \o k)
<1>1. ASSUME NEW i \in DOMAIN j PROVE Due(j[i]) \subseteq PendingOf(j \o k)
  <2>1. i \in DOMAIN (j \o k) /\ (j \o k)[i] = j[i]
    BY ConcatFacts
  <2> QED BY <2>1 DEF PendingOf
<1>2. ASSUME NEW i \in DOMAIN k PROVE Due(k[i]) \subseteq PendingOf(j \o k)
  <2>1. Len(j) + i \in DOMAIN (j \o k) /\ (j \o k)[Len(j) + i] = k[i]
    BY ConcatFacts
  <2> QED BY <2>1 DEF PendingOf
<1> QED BY <1>1, <1>2 DEF PendingOf


-----------------------------------------------------------------------------
(* The screen.                                                             *)
Now == [c |-> cursor, f |-> front]
Updaters == {t \in Painters : Upd(job[t])}
AllPending == UNION {PendingOf(job[t]) : t \in Painters}

JobsOK == job \in [Painters -> Jobs] /\ \A t \in Painters : Shape(t, job[t])
PointerOK == /\ PointerTypes /\ Drawn(Now) /\ (cursor.visible <=> cursor.updates = 0)
             /\ cursor.updates = Cardinality(Updaters)
DamageOK == damage \in DamageType /\ OldIn(Now) \subseteq Damaged(damage) \cup AllPending
ScreenInv == JobsOK /\ PointerOK /\ DamageOK

LEMMA NowTypes ==
    PointerTypes <=> Now \in Pointer
<1>1. Now.c = cursor /\ Now.f = front
  BY DEF Now
<1> QED BY <1>1 DEF PointerTypes, Pointer, Now

\* A task goes on with its call: who is updating, and what is pending.
LEMMA JobStep ==
    ASSUME JobsOK, NEW t \in Painters, NEW k \in Jobs, Shape(t, k), job' = [job EXCEPT ![t] = k]
    PROVE  /\ JobsOK'
           /\ (Upd(k) <=> Upd(job[t])) => Cardinality(Updaters') = Cardinality(Updaters)
           /\ Upd(k) /\ ~Upd(job[t]) => Cardinality(Updaters') = Cardinality(Updaters) + 1
           /\ ~Upd(k) /\ Upd(job[t]) => Cardinality(Updaters') = Cardinality(Updaters) - 1
           /\ Upd(job[t]) => Cardinality(Updaters) > 0
           /\ AllPending \subseteq PendingOf(job[t]) \cup AllPending'
           /\ PendingOf(k) \subseteq AllPending'
<1>1. /\ job' \in [Painters -> Jobs] /\ job'[t] = k
      /\ \A u \in Painters \ {t} : job'[u] = job[u]
  BY DEF JobsOK
<1>2. JobsOK'
  BY <1>1 DEF JobsOK
<1>3. IsFiniteSet(Updaters) /\ Cardinality(Updaters) \in Nat
  <2>1. IsFiniteSet(Painters) /\ Updaters \subseteq Painters
    BY ScreenAssumption DEF Updaters
  <2> QED BY <2>1, FS_Subset, FS_CardinalityType
<1>4. /\ Upd(k) => Updaters' = Updaters \cup {t}
      /\ ~Upd(k) => Updaters' = Updaters \ {t}
  BY <1>1 DEF Updaters
<1>5. t \in Updaters <=> Upd(job[t])
  BY DEF Updaters
<1>6. (Upd(k) <=> Upd(job[t])) => Updaters' = Updaters
  BY <1>4, <1>5
<1>7. Upd(k) /\ ~Upd(job[t]) => Cardinality(Updaters') = Cardinality(Updaters) + 1
  BY <1>3, <1>4, <1>5, FS_AddElement
<1>8. ~Upd(k) /\ Upd(job[t]) => Cardinality(Updaters') = Cardinality(Updaters) - 1
  BY <1>3, <1>4, <1>5, FS_RemoveElement
<1>9. Upd(job[t]) => Cardinality(Updaters) > 0
  BY <1>3, <1>5, FS_EmptySet
<1>10. /\ AllPending \subseteq PendingOf(job[t]) \cup AllPending'
       /\ PendingOf(k) \subseteq AllPending'
  BY <1>1 DEF AllPending
<1> QED BY <1>2, <1>6, <1>7, <1>8, <1>9, <1>10

\* A call is begun, or ends early, by a task that has nothing pending.
LEMMA NewCall ==
    ASSUME ScreenInv, NEW t \in Painters, NEW k \in Jobs, Shape(t, k), Calm(k), Calm(job[t]),
           PendingOf(job[t]) = {}, job' = [job EXCEPT ![t] = k], UNCHANGED <<front, damage, cursor>>
    PROVE  ScreenInv'
<1>1. JobsOK /\ PointerOK /\ DamageOK
  BY DEF ScreenInv
<1>2. ~Upd(k) /\ ~Upd(job[t])
  BY <1>1, Updates DEF JobsOK
<1>3. JobsOK' /\ Cardinality(Updaters') = Cardinality(Updaters) /\ AllPending \subseteq AllPending'
  <2>1. /\ JobsOK' /\ ((Upd(k) <=> Upd(job[t])) => Cardinality(Updaters') = Cardinality(Updaters))
        /\ AllPending \subseteq PendingOf(job[t]) \cup AllPending'
    BY <1>1, JobStep
  <2> QED BY <1>2, <2>1
<1>4. PointerOK'
  BY <1>1, <1>3 DEF PointerOK, PointerTypes, Now
<1>5. DamageOK'
  <2>1. OldIn(Now)' = OldIn(Now) /\ Damaged(damage)' = Damaged(damage)
    BY DEF Now
  <2> QED BY <1>1, <1>3, <2>1 DEF DamageOK
<1> QED BY <1>3, <1>4, <1>5 DEF ScreenInv

LEMMA SameScreen ==
    ASSUME ScreenInv, UNCHANGED <<front, damage, cursor, job>> PROVE ScreenInv'
BY DEF ScreenInv, JobsOK, PointerOK, DamageOK, PointerTypes, Now, Updaters, AllPending

\* Painting outdates places of the screen and leaves the pointer alone.
LEMMA OutdatesFacts ==
    ASSUME PointerTypes, Drawn(Now), NEW places, Outdates(places)
    PROVE  /\ PointerTypes' /\ Drawn(Now)' /\ cursor'.visible = cursor.visible
           /\ cursor'.updates = cursor.updates
           /\ OldIn(Now)' \subseteq OldIn(Now) \cup (places \cap Places)
<1> DEFINE b == cursor.backing
           k == [p \in DOMAIN b |-> IF p \in places THEN Older(b[p]) ELSE b[p]]
<1>1. /\ front \in [Places -> Shades] /\ cursor \in CursorType
      /\ front' = [p \in Places |-> IF p \in places THEN Older(front[p]) ELSE front[p]]
      /\ cursor' = [cursor EXCEPT !.backing = k]
  BY DEF PointerTypes, Outdates
<1>2. /\ \A p \in Places : Drawn(Now) => (front[p] = "cursor" <=> cursor.visible /\ p \in Span(cursor.x))
      /\ DOMAIN b = (IF cursor.visible THEN Span(cursor.x) ELSE {})
      /\ \A p \in DOMAIN b : b[p] # "cursor"
  BY DEF Drawn, Now
<1>3. \A v \in Shades : /\ Older(v) \in Shades /\ (Older(v) = "cursor" <=> v = "cursor")
  BY DEF Older, Shades
<1>4. /\ front' \in [Places -> Shades]
      /\ \A p \in Places : front'[p] = "cursor" <=> front[p] = "cursor"
      /\ \A p \in Places \ places : front'[p] = front[p]
  BY <1>1, <1>3
<1>5. b \in Saved /\ DOMAIN b \subseteq Places /\ \A p \in DOMAIN b : b[p] \in Shades
  BY <1>1, SavedType DEF CursorType
<1>6. /\ DOMAIN k = DOMAIN b /\ \A p \in DOMAIN b : k[p] \in Shades /\ k[p] # "cursor"
      /\ \A p \in DOMAIN b \ places : k[p] = b[p]
  BY <1>2, <1>3, <1>5
<1>7. k \in Saved
  <2>1. k = [p \in DOMAIN k |-> k[p]]
    OBVIOUS
  <2> HIDE DEF k
  <2> QED BY <1>5, <1>6, <2>1, SavedType
<1> HIDE DEF k
<1>8. /\ cursor' \in CursorType /\ cursor'.visible = cursor.visible /\ cursor'.x = cursor.x
      /\ cursor'.updates = cursor.updates /\ cursor'.backing = k
  BY <1>1, <1>7 DEF CursorType
<1>9. Drawn(Now)'
  <2>1. \A p \in Places : front'[p] = "cursor" <=> cursor.visible /\ p \in Span(cursor.x)
    BY <1>2, <1>4
  <2> QED BY <1>2, <1>6, <1>8, <2>1 DEF Drawn, Now
<1>10. OldIn(Now)' \subseteq OldIn(Now) \cup (places \cap Places)
  <2> SUFFICES ASSUME NEW p \in Places, p \notin places, p \in OldIn(Now)' PROVE p \in OldIn(Now)
    BY DEF OldIn
  <2>1. front'[p] = "old" \/ (p \in DOMAIN k /\ k[p] = "old")
    BY <1>8 DEF OldIn, Now
  <2>2. front[p] = "old" \/ (p \in DOMAIN b /\ b[p] = "old")
    BY <1>4, <1>6, <2>1
  <2> QED BY <2>2 DEF OldIn, Now
<1> QED BY <1>4, <1>8, <1>9, <1>10 DEF PointerTypes


\* A step of a call that is not being blitted: the pointer first.
LEMMA PaintHolds ==
    ASSUME ScreenInv, NEW t \in Painters, job[t] # <<>>, Paint(t, Head(job[t]))
    PROVE  ScreenInv'
<1> DEFINE j == job[t]
           s == j[1]
           k == Tail(j)
<1>1. /\ JobsOK /\ PointerOK /\ DamageOK /\ j \in Jobs /\ Shape(t, j) /\ j # <<>> /\ Head(j) = s
      /\ k \in Jobs /\ Shape(t, k) /\ 1 \in DOMAIN j /\ s \in StepType
  BY TailFacts, TailShape, JobFacts DEF ScreenInv, JobsOK
<1>2. /\ job' = [job EXCEPT ![t] = k]
      /\ \/ s.op = "paint" /\ Outdates(AreaOf(s.windows)) /\ UNCHANGED damage
         \/ s.op = "scene" /\ Outdates(Places) /\ damage' = DamageEach(damage, s.windows)
  BY <1>1 DEF Paint
<1>3. ~Upd(j) /\ ~Upd(k)
  <2>1. s.op \notin UpdateOps /\ s.op \notin {"begin", "blit"}
    BY <1>2 DEF UpdateOps
  <2> QED BY <1>1, <2>1, Updates
<1>4. Neighbours(t, j, 1)
  BY <1>1 DEF Shape
<1>5. PendingOf(j) \subseteq PendingOf(k)
  <2>1. Due(s) = {}
    BY <1>2, <1>4 DEF Due, Neighbours
  <2> QED BY <1>1, <2>1, PendingTail
<1>6. /\ JobsOK' /\ Cardinality(Updaters') = Cardinality(Updaters)
      /\ AllPending \subseteq AllPending' /\ PendingOf(k) \subseteq AllPending'
  <2>1. /\ JobsOK' /\ ((Upd(k) <=> Upd(j)) => Cardinality(Updaters') = Cardinality(Updaters))
        /\ AllPending \subseteq PendingOf(j) \cup AllPending' /\ PendingOf(k) \subseteq AllPending'
    <3> HIDE DEF k
    <3> QED BY <1>1, <1>2, JobStep
  <2> QED BY <1>3, <1>5, <2>1
<1> DEFINE places == IF s.op = "paint" THEN AreaOf(s.windows) ELSE Places
<1>7. Outdates(places)
  BY <1>2
<1>8. /\ PointerTypes' /\ Drawn(Now)' /\ cursor'.visible = cursor.visible
      /\ cursor'.updates = cursor.updates
      /\ OldIn(Now)' \subseteq OldIn(Now) \cup (places \cap Places)
  <2> HIDE DEF places
  <2> QED BY <1>1, <1>7, OutdatesFacts DEF PointerOK
<1>9. places \cap Places \subseteq PendingOf(k)
  <2>1. /\ j[1 + 1].op = (IF s.op = "paint" THEN "damage" ELSE "damage_all") /\ 1 < Len(j)
        /\ s.op = "paint" => j[1 + 1].windows = s.windows
    BY <1>2, <1>4 DEF Neighbours
  <2>2. 1 + 1 \in DOMAIN j /\ 1 + 1 > 1 /\ (1 + 1) - 1 = 1
    BY <1>1, <2>1, JobFacts
  <2>3. 1 \in DOMAIN k /\ k[1] = j[1 + 1]
    BY <1>1, <2>2, TailFacts
  <2>4. Due(k[1]) = places
    BY <1>2, <2>1, <2>3 DEF Due
  <2> HIDE DEF k, places
  <2> QED BY <2>3, <2>4 DEF PendingOf
<1>10. PointerOK'
  BY <1>1, <1>6, <1>8 DEF PointerOK
<1>11. DamageOK'
  <2>1. CASE s.op = "paint"
    <3>1. damage' = damage
      BY <1>2, <2>1
    <3>2. Damaged(damage)' = Damaged(damage)
      BY <3>1
    <3> HIDE DEF k, places
    <3> QED BY <1>1, <1>6, <1>8, <1>9, <3>1, <3>2 DEF DamageOK
  <2>2. CASE s.op = "scene"
    <3>1. damage' \in DamageType
      BY <1>1, <1>2, <2>2, DamageEachType DEF StepType, DamageOK
    <3>2. OldIn(Now)' \subseteq Places /\ places = Places
      BY <2>2 DEF OldIn
    <3> HIDE DEF k, places
    <3> QED BY <1>6, <1>9, <3>1, <3>2 DEF DamageOK
  <2> QED BY <1>2, <2>1, <2>2
<1> QED BY <1>6, <1>10, <1>11 DEF ScreenInv

LEMMA DamageHolds ==
    ASSUME ScreenInv, NEW t \in Painters, job[t] # <<>>, Damage(t, Head(job[t]))
    PROVE  ScreenInv'
<1> DEFINE j == job[t]
           s == j[1]
           k == Tail(j)
<1>1. /\ JobsOK /\ PointerOK /\ DamageOK /\ j \in Jobs /\ Shape(t, j) /\ j # <<>> /\ Head(j) = s
      /\ k \in Jobs /\ Shape(t, k) /\ 1 \in DOMAIN j /\ s \in StepType
  BY TailFacts, TailShape, JobFacts DEF ScreenInv, JobsOK
<1>2. /\ job' = [job EXCEPT ![t] = k] /\ UNCHANGED <<front, cursor>>
      /\ \/ s.op = "damage" /\ damage' = gui_compositor_damage(damage, Bounds[s.windows[1]])
         \/ s.op = "damage_all" /\ damage' = gui_compositor_damage_all
  BY <1>1 DEF Damage
<1>3. ~Upd(j) /\ ~Upd(k)
  <2>1. s.op \notin UpdateOps /\ s.op \notin {"begin", "blit"}
    BY <1>2 DEF UpdateOps
  <2> QED BY <1>1, <2>1, Updates
<1>4. Neighbours(t, j, 1)
  BY <1>1 DEF Shape
<1>5. PendingOf(j) \subseteq Due(s) \cup PendingOf(k)
  BY <1>1, PendingTail
<1>6. /\ JobsOK' /\ Cardinality(Updaters') = Cardinality(Updaters)
      /\ AllPending \subseteq Due(s) \cup AllPending'
  <2>1. /\ JobsOK' /\ ((Upd(k) <=> Upd(j)) => Cardinality(Updaters') = Cardinality(Updaters))
        /\ AllPending \subseteq PendingOf(j) \cup AllPending' /\ PendingOf(k) \subseteq AllPending'
    <3> HIDE DEF k
    <3> QED BY <1>1, <1>2, JobStep
  <2> HIDE DEF j, k, s
  <2> QED BY <1>3, <1>5, <2>1
<1>7. damage' \in DamageType /\ Damaged(damage) \cup Due(s) \subseteq Damaged(damage')
  <2>1. CASE s.op = "damage"
    <3>1. Len(s.windows) = 1 /\ s.windows \in Seq(DOMAIN Bounds)
      BY <1>1, <1>4, <2>1 DEF Neighbours, StepType
    <3>2. s.windows[1] \in DOMAIN Bounds /\ DOMAIN s.windows = {1}
      BY <3>1
    <3>3. Due(s) = Area(s.windows[1])
      BY <2>1, <3>2 DEF Due, AreaOf
    <3> QED BY <1>1, <1>2, <2>1, <3>2, <3>3, DamageCovers DEF DamageOK
  <2>2. CASE s.op = "damage_all"
    <3>1. damage' \in DamageType /\ Damaged(damage') = Places
      <4> DEFINE all == gui_compositor_damage_all
      <4>1. all \in DamageType /\ Damaged(all) = Places /\ damage' = all
        BY <1>2, <2>2 DEF gui_compositor_damage_all, DamageType, Damaged
      <4> HIDE DEF all
      <4> QED BY <4>1
    <3>2. Due(s) = Places
      BY <2>2 DEF Due
    <3> QED BY <1>1, <3>1, <3>2, InDamage DEF DamageOK
  <2> QED BY <1>2, <2>1, <2>2
<1>8. PointerOK'
  BY <1>1, <1>2, <1>6 DEF PointerOK, PointerTypes, Now
<1>9. DamageOK'
  <2>1. OldIn(Now)' = OldIn(Now) /\ Damaged(damage)' = Damaged(damage')
    BY <1>2 DEF Now
  <2> HIDE DEF s
  <2> QED BY <1>1, <1>6, <1>7, <2>1 DEF DamageOK
<1> QED BY <1>6, <1>8, <1>9 DEF ScreenInv


LEMMA TakeHolds ==
    ASSUME ScreenInv, NEW t \in Painters, job[t] # <<>>, Take(t, Head(job[t]))
    PROVE  ScreenInv'
<1> DEFINE j == job[t]
           s == j[1]
           rest == Tail(j)
           k == IF damage = NoDamage THEN rest ELSE UpdateSteps(Damaged(damage)) \o rest
<1>1. /\ JobsOK /\ PointerOK /\ DamageOK /\ j \in Jobs /\ Shape(t, j) /\ j # <<>> /\ Head(j) = s
      /\ rest \in Jobs /\ Shape(t, rest) /\ 1 \in DOMAIN j /\ s \in StepType
  BY TailFacts, TailShape, JobFacts DEF ScreenInv, JobsOK
<1>2. /\ s.op = "take" /\ damage' = NoDamage /\ UNCHANGED <<front, cursor>>
      /\ job' = [job EXCEPT ![t] = (IF damage = NoDamage THEN <<>> ELSE UpdateSteps(Damaged(damage))) \o rest]
  BY <1>1 DEF Take, UpdateSteps
<1>3. ~Upd(j) /\ ~Upd(rest) /\ Calm(rest)
  <2>1. s.op \notin UpdateOps /\ s.op \notin {"begin", "blit"}
    BY <1>2 DEF UpdateOps
  <2> QED BY <1>1, <2>1, Updates
<1>4. (IF damage = NoDamage THEN <<>> ELSE UpdateSteps(Damaged(damage))) \o rest = k
  BY <1>1, ConcatEmptySeq DEF Jobs
<1>5. PendingOf(j) \subseteq PendingOf(rest)
  <2>1. Neighbours(t, j, 1)
    BY <1>1 DEF Shape
  <2>2. Due(s) = {}
    BY <1>2, <2>1 DEF Due, Neighbours
  <2> QED BY <1>1, <2>2, PendingTail
<1>6. /\ k \in Jobs /\ Shape(t, k) /\ ~Upd(k)
      /\ PendingOf(rest) \subseteq PendingOf(k) /\ Damaged(damage) \subseteq PendingOf(k)
  <2>1. CASE damage = NoDamage
    <3>1. Damaged(damage) = {}
      BY <2>1 DEF Damaged, NoDamage
    <3>2. k = rest
      BY <2>1
    <3> HIDE DEF rest, k
    <3> QED BY <1>1, <1>3, <3>1, <3>2
  <2>2. CASE damage # NoDamage
    <3> DEFINE d == Damaged(damage)
               u == UpdateSteps(d)
    <3>1. k = u \o rest /\ d \in SUBSET Places
      BY <1>1, <2>2, InDamage DEF DamageOK
    <3>2. u \in Jobs
      <4>1. <<>> \in Jobs /\ Shape(t, <<>>) /\ Calm(<<>>)
        BY DEF Jobs, Shape, Calm
      <4>2. u \o <<>> \in Jobs
        <5> HIDE DEF d
        <5> QED BY <3>1, <4>1, UpdateShape
      <4>3. u \o <<>> = u
        BY DEF UpdateSteps
      <4> QED BY <4>2, <4>3
    <3>3. k \in Jobs /\ Shape(t, k) /\ ~Upd(k) /\ k[2].at = d /\ k[2].op = "blit" /\ 2 \in DOMAIN k
      <4> HIDE DEF d, rest, k
      <4>1. k \in Jobs /\ Shape(t, k) /\ ~Upd(k) /\ k[2].at = d /\ 2 \in DOMAIN k
        BY <1>1, <1>3, <3>1, UpdateShape
      <4>2. 2 \in DOMAIN u /\ u[2].op = "blit"
        BY <3>2 DEF UpdateSteps, Blit, Plain, Step
      <4>3. k[2] = u[2]
        <5> HIDE DEF u
        <5> QED BY <1>1, <3>1, <3>2, <4>2, ConcatFacts
      <4> QED BY <4>1, <4>2, <4>3
    <3>4. d \subseteq PendingOf(k)
      <4>1. Due(k[2]) = d
        BY <3>3 DEF Due
      <4> HIDE DEF k, d
      <4> QED BY <3>3, <4>1 DEF PendingOf
    <3>5. PendingOf(rest) \subseteq PendingOf(k)
      <4> HIDE DEF rest, u, k, d
      <4> QED BY <1>1, <3>1, <3>2, PendingConcat
    <3> QED BY <3>3, <3>4, <3>5
  <2> QED BY <2>1, <2>2
<1>7. /\ JobsOK' /\ Cardinality(Updaters') = Cardinality(Updaters)
      /\ AllPending \cup Damaged(damage) \subseteq AllPending'
  <2>1. /\ JobsOK' /\ ((Upd(k) <=> Upd(j)) => Cardinality(Updaters') = Cardinality(Updaters))
        /\ AllPending \subseteq PendingOf(j) \cup AllPending' /\ PendingOf(k) \subseteq AllPending'
    <3>1. job' = [job EXCEPT ![t] = k]
      BY <1>2, <1>4
    <3> HIDE DEF k
    <3> QED BY <1>1, <1>6, <3>1, JobStep
  <2> HIDE DEF j, k, rest
  <2> QED BY <1>3, <1>5, <1>6, <2>1
<1>8. PointerOK'
  BY <1>1, <1>2, <1>7 DEF PointerOK, PointerTypes, Now
<1>9. DamageOK'
  <2>1. OldIn(Now)' = OldIn(Now)
    BY <1>2 DEF Now
  <2>2. damage' \in DamageType
    BY <1>2 DEF NoDamage, DamageType
  <2> QED BY <1>1, <1>7, <2>1, <2>2 DEF DamageOK
<1> QED BY <1>7, <1>8, <1>9 DEF ScreenInv


LEMMA BeginHolds ==
    ASSUME ScreenInv, NEW t \in Painters, job[t] # <<>>, BeginUpdate(t, Head(job[t]))
    PROVE  ScreenInv'
<1> DEFINE j == job[t]
           s == j[1]
           k == Tail(j)
           r == begin_framebuffer_update(Now)
<1>1. /\ JobsOK /\ PointerOK /\ DamageOK /\ j \in Jobs /\ Shape(t, j) /\ j # <<>> /\ Head(j) = s
      /\ k \in Jobs /\ Shape(t, k) /\ 1 \in DOMAIN j
  BY TailFacts, TailShape, JobFacts DEF ScreenInv, JobsOK
<1>2. /\ s.op = "begin" /\ job' = [job EXCEPT ![t] = k] /\ UNCHANGED damage
      /\ cursor' = r.c /\ front' = r.f
  BY <1>1 DEF BeginUpdate, Cursor, Now
<1>3. ~Upd(j) /\ Upd(k)
  BY <1>1, <1>2, Updates
<1>4. PendingOf(j) \subseteq PendingOf(k)
  <2>1. Neighbours(t, j, 1)
    BY <1>1 DEF Shape
  <2>2. Due(s) = {}
    BY <1>2, <2>1 DEF Due, Neighbours
  <2> QED BY <1>1, <2>2, PendingTail
<1>5. /\ JobsOK' /\ Cardinality(Updaters') = Cardinality(Updaters) + 1
      /\ AllPending \subseteq AllPending'
  <2>1. /\ JobsOK' /\ (Upd(k) /\ ~Upd(j) => Cardinality(Updaters') = Cardinality(Updaters) + 1)
        /\ AllPending \subseteq PendingOf(j) \cup AllPending' /\ PendingOf(k) \subseteq AllPending'
    <3> HIDE DEF k
    <3> QED BY <1>1, <1>2, JobStep
  <2> QED BY <1>3, <1>4, <2>1
<1>6. /\ r \in Pointer /\ Drawn(r) /\ ~r.c.visible
      /\ r.c.updates = Now.c.updates + 1 /\ OldIn(r) = OldIn(Now)
  BY <1>1, NowTypes, Begins DEF PointerOK
<1>7. Now.c = cursor /\ Now' = [c |-> cursor', f |-> front'] /\ r = [c |-> r.c, f |-> r.f]
  BY <1>6 DEF Now, Pointer
<1>8. Now' = r
  BY <1>2, <1>7
<1> HIDE DEF r, k, j, s
<1>9. PointerOK'
  <2>1. PointerTypes' /\ Drawn(Now)'
    BY <1>2, <1>6, <1>8 DEF PointerTypes, Pointer
  <2>2. cursor.updates \in Nat /\ cursor'.updates = cursor.updates + 1
    BY <1>1, <1>2, <1>6, <1>7 DEF PointerOK, PointerTypes, CursorType
  <2> QED BY <1>1, <1>2, <1>5, <1>6, <2>1, <2>2 DEF PointerOK
<1>10. DamageOK'
  BY <1>1, <1>2, <1>5, <1>6, <1>8 DEF DamageOK
<1> QED BY <1>5, <1>9, <1>10 DEF ScreenInv

LEMMA EndHolds ==
    ASSUME ScreenInv, NEW t \in Painters, job[t] # <<>>, EndUpdate(t, Head(job[t]))
    PROVE  ScreenInv'
<1> DEFINE j == job[t]
           s == j[1]
           k == Tail(j)
           r == end_framebuffer_update(Now)
<1>1. /\ JobsOK /\ PointerOK /\ DamageOK /\ j \in Jobs /\ Shape(t, j) /\ j # <<>> /\ Head(j) = s
      /\ k \in Jobs /\ Shape(t, k) /\ 1 \in DOMAIN j
  BY TailFacts, TailShape, JobFacts DEF ScreenInv, JobsOK
<1>2. /\ s.op = "end" /\ job' = [job EXCEPT ![t] = k] /\ UNCHANGED damage
      /\ cursor' = r.c /\ front' = r.f
  BY <1>1 DEF EndUpdate, Cursor, Now
<1>3. Upd(j) /\ ~Upd(k)
  <2>1. s.op \notin {"begin", "blit"}
    BY <1>2
  <2> QED BY <1>1, <1>2, <2>1, Updates
<1>4. PendingOf(j) \subseteq PendingOf(k)
  <2>1. Neighbours(t, j, 1)
    BY <1>1 DEF Shape
  <2>2. Due(s) = {}
    BY <1>2, <2>1 DEF Due, Neighbours
  <2> QED BY <1>1, <2>2, PendingTail
<1>5. /\ JobsOK' /\ Cardinality(Updaters') = Cardinality(Updaters) - 1
      /\ AllPending \subseteq AllPending' /\ Cardinality(Updaters) > 0
  <2>1. /\ JobsOK' /\ (~Upd(k) /\ Upd(j) => Cardinality(Updaters') = Cardinality(Updaters) - 1)
        /\ AllPending \subseteq PendingOf(j) \cup AllPending' /\ PendingOf(k) \subseteq AllPending'
        /\ (Upd(j) => Cardinality(Updaters) > 0)
    <3> HIDE DEF k
    <3> QED BY <1>1, <1>2, JobStep
  <2> QED BY <1>3, <1>4, <2>1
<1>6. cursor.updates \in Nat /\ cursor.updates > 0 /\ ~cursor.visible
  BY <1>1, <1>5 DEF PointerOK, PointerTypes, CursorType
<1>7. /\ r \in Pointer /\ Drawn(r) /\ (r.c.visible <=> r.c.updates = 0)
      /\ r.c.updates = Now.c.updates - 1 /\ OldIn(r) = OldIn(Now)
  <2>1. Now \in Pointer /\ Drawn(Now) /\ ~Now.c.visible /\ Now.c.updates > 0
    <3>1. Now.c = cursor
      BY DEF Now
    <3> QED BY <1>1, <1>6, <3>1, NowTypes DEF PointerOK
  <2> QED BY <2>1, Ends
<1>8. Now.c = cursor /\ Now' = r
  <2>1. Now.c = cursor /\ Now' = [c |-> cursor', f |-> front'] /\ r = [c |-> r.c, f |-> r.f]
    BY <1>7 DEF Now, Pointer
  <2> QED BY <1>2, <2>1
<1> HIDE DEF r, k, j, s
<1>9. PointerOK'
  <2>1. PointerTypes' /\ Drawn(Now)'
    BY <1>2, <1>7, <1>8 DEF PointerTypes, Pointer
  <2> QED BY <1>1, <1>2, <1>5, <1>7, <1>8, <2>1 DEF PointerOK
<1>10. DamageOK'
  BY <1>1, <1>2, <1>5, <1>7, <1>8 DEF DamageOK
<1> QED BY <1>5, <1>9, <1>10 DEF ScreenInv

\* The blit: the pointer is off, so nothing older is saved under it.
LEMMA BlitHolds ==
    ASSUME ScreenInv, NEW t \in Painters, job[t] # <<>>, BlitDamage(t, Head(job[t]))
    PROVE  ScreenInv'
<1> DEFINE j == job[t]
           s == j[1]
           k == Tail(j)
<1>1. /\ JobsOK /\ PointerOK /\ DamageOK /\ j \in Jobs /\ Shape(t, j) /\ j # <<>> /\ Head(j) = s
      /\ k \in Jobs /\ Shape(t, k) /\ 1 \in DOMAIN j
  BY TailFacts, TailShape, JobFacts DEF ScreenInv, JobsOK
<1>2. /\ s.op = "blit" /\ job' = [job EXCEPT ![t] = k] /\ UNCHANGED <<damage, cursor>>
      /\ front' = [p \in Places |-> IF p \in s.at THEN "fresh" ELSE front[p]]
  BY <1>1 DEF BlitDamage
<1>3. Upd(j) /\ Upd(k)
  BY <1>1, <1>2, Updates
<1>4. PendingOf(j) \subseteq s.at \cup PendingOf(k)
  <2>1. Due(s) = s.at
    BY <1>2 DEF Due
  <2> QED BY <1>1, <2>1, PendingTail
<1>5. /\ JobsOK' /\ Cardinality(Updaters') = Cardinality(Updaters)
      /\ AllPending \subseteq s.at \cup AllPending' /\ Cardinality(Updaters) > 0
  <2>1. /\ JobsOK' /\ ((Upd(k) <=> Upd(j)) => Cardinality(Updaters') = Cardinality(Updaters))
        /\ AllPending \subseteq PendingOf(j) \cup AllPending' /\ PendingOf(k) \subseteq AllPending'
        /\ (Upd(j) => Cardinality(Updaters) > 0)
    <3> HIDE DEF k
    <3> QED BY <1>1, <1>2, JobStep
  <2> HIDE DEF j, k, s
  <2> QED BY <1>3, <1>4, <2>1
<1>6. cursor.updates \in Nat /\ cursor.updates > 0 /\ ~cursor.visible /\ DOMAIN cursor.backing = {}
  <2>1. cursor.updates \in Nat /\ cursor.updates > 0 /\ ~cursor.visible
    BY <1>1, <1>5 DEF PointerOK, PointerTypes, CursorType
  <2> QED BY <1>1, <2>1 DEF PointerOK, Drawn, Now
<1> HIDE DEF j, k, s
<1>7. /\ front \in [Places -> Shades] /\ front' \in [Places -> Shades]
      /\ \A p \in Places : front[p] # "cursor" /\ front'[p] # "cursor"
      /\ \A p \in Places \cap s.at : front'[p] = "fresh"
      /\ \A p \in Places \ s.at : front'[p] = front[p]
  <2>1. front \in [Places -> Shades]
    BY <1>1 DEF PointerOK, PointerTypes
  <2>2. \A p \in Places : front[p] # "cursor"
    BY <1>1, <1>6 DEF PointerOK, Drawn, Now
  <2> QED BY <1>2, <2>1, <2>2 DEF Shades
<1>8. PointerOK'
  <2>1. PointerTypes'
    BY <1>1, <1>2, <1>7 DEF PointerOK, PointerTypes
  <2>2. Drawn(Now)'
    BY <1>2, <1>6, <1>7 DEF Drawn, Now
  <2> QED BY <1>1, <1>2, <1>5, <2>1, <2>2 DEF PointerOK
<1>9. OldIn(Now)' \subseteq OldIn(Now) \ s.at
  <2> SUFFICES ASSUME NEW p \in Places, p \in OldIn(Now)' PROVE p \in OldIn(Now) /\ p \notin s.at
    BY DEF OldIn
  <2>1. front'[p] = "old"
    BY <1>2, <1>6 DEF OldIn, Now
  <2>2. p \notin s.at /\ front[p] = "old"
    BY <1>7, <2>1
  <2> QED BY <2>2 DEF OldIn, Now
<1>10. DamageOK'
  <2>1. Damaged(damage)' = Damaged(damage)
    BY <1>2
  <2> QED BY <1>1, <1>2, <1>5, <1>9, <2>1 DEF DamageOK
<1> QED BY <1>5, <1>8, <1>10 DEF ScreenInv

\* mouse_cursor_flush_movement: the pointer moves while others update.
LEMMA MoveHolds ==
    ASSUME ScreenInv, NEW dx \in Int, Cursor(LAMBDA s : apply_movement_locked(s, dx)),
           UNCHANGED <<damage, job>>
    PROVE  ScreenInv'
<1> DEFINE r == apply_movement_locked(Now, dx)
<1>1. JobsOK /\ PointerOK /\ DamageOK /\ cursor' = r.c /\ front' = r.f
  BY DEF ScreenInv, Cursor, Now
<1>2. /\ r \in Pointer /\ Drawn(r) /\ (r.c.visible <=> r.c.updates = 0)
      /\ r.c.updates = Now.c.updates /\ OldIn(r) = OldIn(Now)
  BY <1>1, NowTypes, Moves DEF PointerOK
<1>3. Now.c = cursor /\ Now' = r
  <2>1. Now.c = cursor /\ Now' = [c |-> cursor', f |-> front'] /\ r = [c |-> r.c, f |-> r.f]
    BY <1>2 DEF Now, Pointer
  <2> QED BY <1>1, <2>1
<1> HIDE DEF r
<1>4. JobsOK' /\ Updaters' = Updaters /\ AllPending' = AllPending
  BY <1>1 DEF JobsOK, Updaters, AllPending
<1>5. PointerTypes'
  BY <1>1, <1>2 DEF PointerTypes, Pointer
<1>6. PointerOK'
  BY <1>1, <1>2, <1>3, <1>4, <1>5 DEF PointerOK
<1>7. DamageOK'
  BY <1>1, <1>2, <1>3, <1>4 DEF DamageOK
<1> QED BY <1>4, <1>6, <1>7 DEF ScreenInv

LEMMA ScreenStepHolds ==
    ASSUME ScreenInv, NEW t \in Painters, ScreenStep(t)
    PROVE  ScreenInv'
BY PaintHolds, DamageHolds, TakeHolds, BeginHolds, BlitHolds, EndHolds DEF ScreenStep

LEMMA ScreenFollows == ASSUME ScreenInv PROVE ScreenExact
<1>1. JobsOK /\ PointerOK /\ DamageOK
  BY DEF ScreenInv
<1>2. OldPlaces = OldIn(Now)
  BY DEF OldPlaces, OldIn, Now
<1>3. AllPending = UNION {Pending(t) : t \in Painters}
  BY PendingIs DEF AllPending
<1>4. Covered
  BY <1>1, <1>2, <1>3 DEF DamageOK, Covered
<1>5. {t \in Painters : Updating(t)} = Updaters
  BY DEF Updating, Updaters, Upd
<1>6. {p \in Places : front[p] = "cursor"} = (IF cursor.visible THEN Span(cursor.x) ELSE {})
  <2>1. cursor.x \in Places /\ Span(cursor.x) \subseteq Places
    BY <1>1, SpanPlaces DEF PointerOK, PointerTypes, CursorType
  <2>2. \A p \in Places : front[p] = "cursor" <=> cursor.visible /\ p \in Span(cursor.x)
    BY <1>1 DEF PointerOK, Drawn, Now
  <2> QED BY <2>1, <2>2
<1>7. CursorClean
  BY <1>1, <1>5, <1>6 DEF CursorClean, PointerOK, Drawn, Now
<1> QED BY <1>4, <1>7 DEF ScreenExact


-----------------------------------------------------------------------------
(* The registry of windows.                                                *)
Distinct(s) == \A i, k \in DOMAIN s : s[i] = s[k] => i = k
Orders == Seq(Titles)
Good(r) == r \in Registry /\ Distinct(r.order) /\ r.active = Topmost(r.order)

LEMMA OrderFacts ==
    ASSUME NEW s \in Orders
    PROVE  /\ Len(s) \in Nat /\ DOMAIN s = 1..Len(s) /\ (s = <<>> <=> Len(s) = 0)
           /\ \A i \in DOMAIN s : s[i] \in Titles /\ i \in Nat /\ i >= 1 /\ i <= Len(s)
           /\ \A w : w \in ToSet(s) <=> \E i \in DOMAIN s : s[i] = w
<1>1. Len(s) \in Nat /\ DOMAIN s = 1..Len(s) /\ (s = <<>> <=> Len(s) = 0)
  BY LenProperties, EmptySeq DEF Orders
<1>2. \A i \in DOMAIN s : s[i] \in Titles
  BY <1>1, ElementOfSeq DEF Orders
<1>3. \A w : w \in ToSet(s) <=> \E i \in DOMAIN s : s[i] = w
  BY DEF ToSet
<1> QED BY <1>1, <1>2, <1>3

LEMMA OrderTop ==
    ASSUME NEW s \in Orders
    PROVE  /\ s # <<>> => Topmost(s) = s[Len(s)] /\ Len(s) \in DOMAIN s
           /\ s = <<>> => Topmost(s) = "none"
           /\ Topmost(s) \in Titles \cup {"none"}
<1>1. s # <<>> => Len(s) \in DOMAIN s
  BY OrderFacts
<1>2. s # <<>> => Topmost(s) = s[Len(s)]
  BY DEF Topmost, Last
<1> QED BY <1>1, <1>2, OrderFacts DEF Topmost

LEMMA RemoveFacts ==
    ASSUME NEW s \in Orders, NEW i \in DOMAIN s
    PROVE  LET u == RemoveAt(s, i)
           IN  /\ u \in Orders /\ Len(u) = Len(s) - 1
               /\ \A k \in DOMAIN u : /\ u[k] = IF k < i THEN s[k] ELSE s[k + 1]
                                      /\ k \in DOMAIN s /\ k + 1 \in DOMAIN s
<1> DEFINE n == Len(s)
           a == SubSeq(s, 1, i - 1)
           b == SubSeq(s, i + 1, n)
           u == RemoveAt(s, i)
<1>1. n \in Nat /\ i \in Nat /\ i >= 1 /\ i <= n /\ \A k \in 1..n : s[k] \in Titles
  BY OrderFacts
<1>2. a \in Seq(Titles) /\ Len(a) = i - 1 /\ \A k \in 1..(i - 1) : a[k] = s[k]
  <2>1. /\ a \in Seq(Titles)
        /\ Len(a) = (IF 1 <= i - 1 THEN i - 1 - 1 + 1 ELSE 0)
        /\ \A k \in 1..(i - 1 - 1 + 1) : a[k] = s[1 + k - 1]
    <3>1. 1 \in Int /\ i - 1 \in Int /\ \A k \in 1..(i - 1) : s[k] \in Titles
      BY <1>1
    <3> QED BY <3>1, SubSeqProperties
  <2>2. \A k \in 1..(i - 1) : k \in 1..(i - 1 - 1 + 1) /\ 1 + k - 1 = k
    BY <1>1
  <2> HIDE DEF a
  <2> QED BY <1>1, <2>1, <2>2
<1>3. b \in Seq(Titles) /\ Len(b) = n - i /\ \A k \in 1..(n - i) : b[k] = s[i + k]
  <2>1. /\ b \in Seq(Titles)
        /\ Len(b) = (IF i + 1 <= n THEN n - (i + 1) + 1 ELSE 0)
        /\ \A k \in 1..(n - (i + 1) + 1) : b[k] = s[i + 1 + k - 1]
    <3>1. i + 1 \in Int /\ n \in Int /\ \A k \in (i + 1)..n : s[k] \in Titles
      BY <1>1
    <3> HIDE DEF n
    <3> QED BY <3>1, SubSeqProperties
  <2>2. \A k \in 1..(n - i) : k \in 1..(n - (i + 1) + 1) /\ i + 1 + k - 1 = i + k
    BY <1>1
  <2> HIDE DEF b, n
  <2> QED BY <1>1, <2>1, <2>2
<1>4. u = a \o b
  BY DEF RemoveAt
<1> HIDE DEF a, b, u, n
<1>5. /\ u \in Seq(Titles) /\ Len(u) = Len(a) + Len(b)
      /\ \A k \in 1..(Len(a) + Len(b)) : u[k] = IF k <= Len(a) THEN a[k] ELSE b[k - Len(a)]
  BY <1>2, <1>3, <1>4, ConcatProperties
<1>6. u \in Orders /\ Len(u) = n - 1 /\ DOMAIN u = 1..(n - 1)
  BY <1>1, <1>2, <1>3, <1>5, LenProperties DEF Orders
<1>7. ASSUME NEW k \in DOMAIN u
      PROVE  /\ u[k] = IF k < i THEN s[k] ELSE s[k + 1]
             /\ k \in 1..n /\ k + 1 \in 1..n
  <2>1. k \in Nat /\ k >= 1 /\ k <= n - 1
    BY <1>1, <1>6
  <2>2. u[k] = IF k <= i - 1 THEN a[k] ELSE b[k - (i - 1)]
    BY <1>1, <1>2, <1>3, <1>5, <2>1
  <2>3. CASE k < i
    BY <1>1, <1>2, <2>1, <2>2, <2>3
  <2>4. CASE ~(k < i)
    <3>1. k - (i - 1) \in 1..(n - i) /\ i + (k - (i - 1)) = k + 1
      BY <1>1, <2>1, <2>4
    <3>2. b[k - (i - 1)] = s[k + 1]
      BY <1>3, <3>1
    <3> QED BY <1>1, <2>1, <2>2, <2>4, <3>2
  <2> QED BY <2>3, <2>4
<1> QED BY <1>6, <1>7, OrderFacts DEF u, n

\* Taking a window out of the order.
LEMMA RemoveGood ==
    ASSUME NEW s \in Orders, Distinct(s), NEW i \in DOMAIN s
    PROVE  LET u == RemoveAt(s, i)
           IN  /\ Distinct(u) /\ ToSet(u) = ToSet(s) \ {s[i]}
               /\ i # Len(s) => Topmost(u) = Topmost(s)
<1> DEFINE u == RemoveAt(s, i)
           n == Len(s)
<1>1. /\ u \in Orders /\ Len(u) = n - 1 /\ DOMAIN s = 1..n /\ DOMAIN u = 1..(n - 1)
      /\ n \in Nat /\ i \in Nat /\ i >= 1 /\ i <= n
      /\ \A k \in DOMAIN u : /\ u[k] = IF k < i THEN s[k] ELSE s[k + 1]
                             /\ k \in DOMAIN s /\ k + 1 \in DOMAIN s
  BY RemoveFacts, OrderFacts
<1> HIDE DEF u, n
<1>2. ASSUME NEW k \in DOMAIN u, NEW m \in DOMAIN u, u[k] = u[m] PROVE k = m
  <2> DEFINE kk == IF k < i THEN k ELSE k + 1
             mm == IF m < i THEN m ELSE m + 1
  <2>1. kk \in DOMAIN s /\ mm \in DOMAIN s /\ u[k] = s[kk] /\ u[m] = s[mm]
    BY <1>1
  <2>2. kk = mm
    BY <1>2, <2>1 DEF Distinct
  <2>3. k \in Nat /\ m \in Nat
    BY <1>1
  <2> QED BY <1>1, <2>2, <2>3
<1>3. ASSUME NEW w, w \in ToSet(u) PROVE w \in ToSet(s) /\ w # s[i]
  <2>1. PICK k \in DOMAIN u : u[k] = w
    BY <1>1, <1>3, OrderFacts
  <2> DEFINE kk == IF k < i THEN k ELSE k + 1
  <2>2. kk \in DOMAIN s /\ s[kk] = w
    BY <1>1, <2>1
  <2>3. kk # i
    BY <1>1
  <2> HIDE DEF kk
  <2>4. w # s[i]
    BY <2>2, <2>3 DEF Distinct
  <2> QED BY <2>2, <2>4, OrderFacts
<1>4. ASSUME NEW w, w \in ToSet(s), w # s[i] PROVE w \in ToSet(u)
  <2>1. PICK k \in DOMAIN s : s[k] = w
    BY <1>4, OrderFacts
  <2>2. k # i /\ k \in Nat /\ k >= 1 /\ k <= n
    BY <1>1, <1>4, <2>1
  <2>3. CASE k < i
    <3>1. k \in DOMAIN u /\ u[k] = s[k]
      BY <1>1, <2>2, <2>3
    <3> QED BY <1>1, <2>1, <3>1, OrderFacts
  <2>4. CASE k > i
    <3>1. k - 1 \in DOMAIN u /\ ~(k - 1 < i) /\ (k - 1) + 1 = k
      BY <1>1, <2>2, <2>4
    <3>2. u[k - 1] = s[k]
      BY <1>1, <3>1
    <3> QED BY <1>1, <2>1, <3>1, <3>2, OrderFacts
  <2> QED BY <1>1, <2>2, <2>3, <2>4
<1>5. ASSUME i # n PROVE Topmost(u) = Topmost(s)
  <2>1. s # <<>> /\ u # <<>> /\ n - 1 \in DOMAIN u /\ ~(n - 1 < i) /\ (n - 1) + 1 = n
    BY <1>1, <1>5, OrderFacts DEF n
  <2>2. u[n - 1] = s[n]
    BY <1>1, <2>1
  <2> QED BY <1>1, <2>1, <2>2, OrderTop DEF n
<1>6. Distinct(u)
  BY <1>2 DEF Distinct
<1>7. ToSet(u) = ToSet(s) \ {s[i]}
  BY <1>3, <1>4
<1> QED BY <1>5, <1>6, <1>7 DEF u, n


\* Putting a window that is not there in front of the others.
LEMMA AppendGood ==
    ASSUME NEW s \in Orders, Distinct(s), NEW w \in Titles, w \notin ToSet(s)
    PROVE  LET u == Append(s, w)
           IN  /\ u \in Orders /\ Distinct(u) /\ ToSet(u) = ToSet(s) \cup {w}
               /\ Topmost(u) = w /\ u # <<>> /\ Len(u) = Len(s) + 1
<1> DEFINE u == Append(s, w)
           n == Len(s)
<1>1. /\ u \in Seq(Titles) /\ u # <<>> /\ Len(u) = n + 1
      /\ \A i \in 1..n : u[i] = s[i]
      /\ u[n + 1] = w
  BY AppendProperties DEF Orders
<1>2. n \in Nat /\ DOMAIN s = 1..n /\ DOMAIN u = 1..(n + 1) /\ u \in Orders
  BY <1>1, OrderFacts, LenProperties DEF Orders
<1> HIDE DEF u, n
<1>3. ASSUME NEW i \in DOMAIN u PROVE (i \in DOMAIN s /\ u[i] = s[i] /\ u[i] # w) \/ (i = n + 1 /\ u[i] = w)
  <2>1. CASE i = n + 1
    BY <1>1, <2>1
  <2>2. CASE i # n + 1
    <3>1. i \in 1..n
      BY <1>2, <2>2
    <3>2. u[i] = s[i] /\ s[i] # w
      BY <1>1, <1>2, <3>1, OrderFacts
    <3> QED BY <1>2, <3>1, <3>2
  <2> QED BY <2>1, <2>2
<1>4. Distinct(u)
  BY <1>3 DEF Distinct
<1>5. \A v : v \in ToSet(u) <=> v \in ToSet(s) \/ v = w
  <2>1. \A v : v \in ToSet(u) => v \in ToSet(s) \/ v = w
    BY <1>2, <1>3, OrderFacts
  <2>2. ASSUME NEW v, v \in ToSet(s) PROVE v \in ToSet(u)
    <3>1. PICK i \in DOMAIN s : s[i] = v
      BY <2>2, OrderFacts
    <3>2. i \in DOMAIN u /\ u[i] = v
      BY <1>1, <1>2, <3>1
    <3> QED BY <1>2, <3>2, OrderFacts
  <2>3. w \in ToSet(u)
    <3>1. n + 1 \in DOMAIN u
      BY <1>2
    <3> QED BY <1>1, <1>2, <3>1, OrderFacts
  <2> QED BY <2>1, <2>2, <2>3
<1>6. Topmost(u) = w
  BY <1>1, <1>2, OrderTop
<1> QED BY <1>1, <1>2, <1>4, <1>5, <1>6 DEF u, n

LEMMA GoodFacts ==
    ASSUME NEW r, Good(r)
    PROVE  /\ r.order \in Orders /\ Distinct(r.order) /\ r.active = Topmost(r.order)
           /\ r = [order |-> r.order, active |-> r.active]
           /\ Len(r.order) \in Nat
BY OrderFacts DEF Good, Registry, Orders

LEMMA MakeGood ==
    ASSUME NEW s \in Orders, Distinct(s), NEW a, a = Topmost(s)
    PROVE  Good([order |-> s, active |-> a])
BY OrderTop DEF Good, Registry, Orders

\* focus_index_locked brings the window to the front and moves no other past another.
LEMMA FocusGood ==
    ASSUME NEW r, Good(r), NEW index \in Nat
    PROVE  LET q == focus_index_locked(r, index)
           IN  Good(q) /\ ToSet(q.order) = ToSet(r.order)
<1> DEFINE q == focus_index_locked(r, index)
           s == r.order
<1>1. s \in Orders /\ Distinct(s) /\ Len(s) \in Nat /\ DOMAIN s = 1..Len(s)
  BY GoodFacts, OrderFacts
<1>2. CASE index >= Len(s)
  <2>1. q = r
    BY <1>2 DEF focus_index_locked
  <2> QED BY <2>1
<1>3. CASE ~(index >= Len(s))
  <2> DEFINE i == index + 1
             w == s[i]
             rest == RemoveAt(s, i)
             u == Append(rest, w)
  <2>1. i \in DOMAIN s
    BY <1>1, <1>3
  <2>2. w \in Titles /\ w \in ToSet(s)
    BY <1>1, <2>1, OrderFacts
  <2>3. rest \in Orders /\ Distinct(rest) /\ ToSet(rest) = ToSet(s) \ {w}
    BY <1>1, <2>1, RemoveFacts, RemoveGood
  <2>4. q = [order |-> u, active |-> w]
    BY <1>3 DEF focus_index_locked
  <2> HIDE DEF w, rest, i, s, q
  <2>5. /\ u \in Orders /\ Distinct(u) /\ ToSet(u) = ToSet(rest) \cup {w}
        /\ Topmost(u) = w
    BY <2>2, <2>3, AppendGood
  <2> HIDE DEF u
  <2>6. Good(q)
    BY <2>4, <2>5, MakeGood
  <2>7. ToSet(q.order) = ToSet(s)
    BY <2>2, <2>3, <2>4, <2>5
  <2> QED BY <2>6, <2>7 DEF q, s
<1> QED BY <1>2, <1>3

LEMMA IndexFacts ==
    ASSUME NEW r, Good(r), NEW w
    PROVE  LET i == IndexOf(r, w)
           IN  /\ i \in 0..Len(r.order)
               /\ i = Len(r.order) <=> w \notin ToSet(r.order)
               /\ i < Len(r.order) => i + 1 \in DOMAIN r.order /\ r.order[i + 1] = w
<1> DEFINE n == Len(r.order)
           X == {i \in 0..(n - 1) : r.order[i + 1] = w}
           i == IndexOf(r, w)
<1>1. n \in Nat /\ r.order \in Orders /\ DOMAIN r.order = 1..n
  BY GoodFacts, OrderFacts
<1>2. i = IF X = {} THEN n ELSE CHOOSE x \in X : \A y \in X : x <= y
  BY DEF IndexOf, FirstIndex
<1>3. X # {} <=> w \in ToSet(r.order)
  <2>1. ASSUME NEW k \in DOMAIN r.order, r.order[k] = w PROVE k - 1 \in X
    BY <1>1, <2>1
  <2>2. ASSUME NEW x \in X PROVE x + 1 \in DOMAIN r.order /\ r.order[x + 1] = w
    BY <1>1, <2>2
  <2> HIDE DEF X
  <2> QED BY <1>1, <2>1, <2>2, OrderFacts
<1>4. ASSUME X # {} PROVE i \in X
  <2>1. X \in SUBSET Nat
    BY <1>1
  <2>2. \E x \in X : \A y \in X : x <= y
    <3> HIDE DEF X
    <3> QED BY <1>4, <2>1, Least
  <2> HIDE DEF X
  <2> QED BY <1>2, <1>4, <2>2
<1>5. \A x \in X : x \in 0..n /\ x < n /\ x + 1 \in DOMAIN r.order /\ r.order[x + 1] = w
  BY <1>1
<1> HIDE DEF X, i
<1>6. CASE X = {}
  <2>1. i = n /\ w \notin ToSet(r.order)
    BY <1>2, <1>3, <1>6
  <2> HIDE DEF n
  <2>2. i \in 0..n /\ ~(i < n)
    BY <1>1, <2>1
  <2> QED BY <2>1, <2>2 DEF n, i
<1>7. CASE X # {}
  <2>1. i \in X /\ w \in ToSet(r.order)
    BY <1>3, <1>4, <1>7
  <2>2. i \in 0..n /\ i < n /\ i + 1 \in DOMAIN r.order /\ r.order[i + 1] = w
    BY <1>5, <2>1
  <2> HIDE DEF n
  <2>3. i # n
    BY <1>1, <2>2
  <2> QED BY <2>1, <2>2, <2>3 DEF n, i
<1> QED BY <1>6, <1>7

\* gui_window_focus, focus_at_point, focus_next and focus_previous are each one
\* focus_index_locked.
LEMMA FocusedGood ==
    ASSUME NEW r, Good(r), NEW w
    PROVE  Good(gui_window_focus(r, w)) /\ ToSet(gui_window_focus(r, w).order) = ToSet(r.order)
<1>1. IndexOf(r, w) \in Nat
  BY IndexFacts, GoodFacts
<1> QED BY <1>1, FocusGood DEF gui_window_focus

LEMMA PointGood ==
    ASSUME NEW r, Good(r), NEW windowsAt
    PROVE  LET q == focus_at_point(r, windowsAt) IN Good(q) /\ ToSet(q.order) = ToSet(r.order)
<1> DEFINE n == Len(r.order)
           hit == {i \in 0..(n - 1) : r.order[i + 1] \in windowsAt}
           index == IF hit = {} THEN n ELSE CHOOSE i \in hit : \A j \in hit : i >= j
<1>1. n \in Nat
  BY GoodFacts
<1>2. index \in Nat
  <2>1. CASE hit = {}
    BY <1>1, <2>1
  <2>2. CASE hit # {}
    <3>1. hit \in SUBSET Nat /\ \A i \in hit : i <= n
      BY <1>1
    <3>2. \E i \in hit : \A j \in hit : i >= j
      <4> HIDE DEF hit, n
      <4> QED BY <1>1, <2>2, <3>1, Greatest
    <3> HIDE DEF hit
    <3> QED BY <2>2, <3>1, <3>2
  <2> QED BY <2>1, <2>2
<1>3. focus_at_point(r, windowsAt) = focus_index_locked(r, index)
  BY DEF focus_at_point
<1> HIDE DEF index
<1> QED BY <1>2, <1>3, FocusGood

LEMMA TraverseGood ==
    ASSUME NEW r, Good(r), NEW candidate \in [1..Len(r.order) -> Nat]
    PROVE  LET q == Traverse(r, candidate) IN Good(q) /\ ToSet(q.order) = ToSet(r.order)
<1> DEFINE n == Len(r.order)
           steps == {s \in DOMAIN candidate : r.order[candidate[s] + 1] # r.active}
           index == IF steps = {} THEN IndexOf(r, r.active)
                    ELSE candidate[CHOOSE s \in steps : \A u \in steps : s <= u]
<1>1. n \in Nat /\ IndexOf(r, r.active) \in Nat
  BY GoodFacts, IndexFacts
<1>2. index \in Nat
  <2>1. ASSUME steps # {} PROVE (CHOOSE s \in steps : \A u \in steps : s <= u) \in 1..n
    <3>1. steps \in SUBSET Nat /\ \A i \in steps : i \in 1..n
      BY <1>1
    <3>2. \E s \in steps : \A u \in steps : s <= u
      <4> HIDE DEF steps
      <4> QED BY <2>1, <3>1, Least
    <3> HIDE DEF steps
    <3> QED BY <3>1, <3>2
  <2> HIDE DEF steps
  <2> QED BY <1>1, <2>1
<1>3. Traverse(r, candidate) = IF n < 2 THEN r ELSE focus_index_locked(r, index)
  BY DEF Traverse
<1> HIDE DEF index, n
<1> QED BY <1>2, <1>3, FocusGood

LEMMA NextGood ==
    ASSUME NEW r, Good(r)
    PROVE  /\ Good(focus_next(r)) /\ ToSet(focus_next(r).order) = ToSet(r.order)
           /\ Good(focus_previous(r)) /\ ToSet(focus_previous(r).order) = ToSet(r.order)
<1> DEFINE n == Len(r.order)
           a == IndexOf(r, r.active)
           c == [s \in 1..n |-> IF a = n THEN s - 1 ELSE (a + s) % n]
           d == [s \in 1..n |-> IF a = n THEN n - s ELSE (a + n - (s % n)) % n]
<1>1. n \in Nat /\ a \in Nat
  BY GoodFacts, IndexFacts
<1>2. ASSUME NEW x \in Int, NEW m \in Nat, m > 0 PROVE x % m \in Nat
  BY <1>2
<1> HIDE DEF n, a
<1>3. c \in [1..n -> Nat]
  <2>1. ASSUME NEW s \in 1..n PROVE s - 1 \in Nat /\ (a + s) % n \in Nat
    BY <1>1, <1>2
  <2> QED BY <2>1
<1>4. d \in [1..n -> Nat]
  <2>1. ASSUME NEW s \in 1..n PROVE n - s \in Nat /\ (a + n - (s % n)) % n \in Nat
    <3>1. s % n \in Nat /\ n > 0
      BY <1>1, <1>2
    <3>2. a + n - (s % n) \in Int
      BY <1>1, <3>1
    <3> QED BY <1>1, <1>2, <3>1, <3>2
  <2> QED BY <2>1
<1>5. focus_next(r) = Traverse(r, c) /\ focus_previous(r) = Traverse(r, d)
  BY DEF focus_next, focus_previous, n, a
<1> HIDE DEF c, d
<1> QED BY <1>3, <1>4, <1>5, TraverseGood DEF n

\* gui_window_registry_add and _remove.
LEMMA AddGood ==
    ASSUME NEW r, Good(r), NEW w \in Titles, w \notin ToSet(r.order)
    PROVE  LET q == gui_window_registry_add(r, w)
           IN  /\ Good(q) /\ ToSet(q.order) = ToSet(r.order) \cup {w}
               /\ gui_window_registry_remove(q, w) = r
<1> DEFINE s == r.order
           u == Append(s, w)
           q == gui_window_registry_add(r, w)
           n == Len(s)
<1>1. /\ s \in Orders /\ Distinct(s) /\ n \in Nat /\ r = [order |-> s, active |-> Topmost(s)]
  BY GoodFacts
<1>2. /\ u \in Orders /\ Distinct(u) /\ ToSet(u) = ToSet(s) \cup {w} /\ Topmost(u) = w
      /\ Len(u) = n + 1
  BY <1>1, AppendGood
<1>3. q = [order |-> u, active |-> w]
  BY DEF gui_window_registry_add
<1>4. Good(q)
  <2> HIDE DEF u
  <2> QED BY <1>2, <1>3, MakeGood
<1>5. n + 1 \in DOMAIN u /\ u[n + 1] = w /\ DOMAIN u = 1..(n + 1)
  <2>1. Topmost(u) = u[Len(u)] /\ Len(u) \in DOMAIN u
    <3>1. u # <<>>
      BY <1>1, <1>2, OrderFacts
    <3> HIDE DEF u
    <3> QED BY <1>2, <3>1, OrderTop
  <2>2. DOMAIN u = 1..Len(u)
    <3> HIDE DEF u
    <3> QED BY <1>2, OrderFacts
  <2> QED BY <1>2, <2>1, <2>2
<1>6. RemoveAt(u, n + 1) = s
  <2> DEFINE v == RemoveAt(u, n + 1)
  <2>1. /\ v \in Orders /\ Len(v) = n
        /\ \A k \in DOMAIN v : v[k] = IF k < n + 1 THEN u[k] ELSE u[k + 1]
    <3>1. /\ v \in Orders /\ Len(v) = Len(u) - 1
          /\ \A k \in DOMAIN v : v[k] = IF k < n + 1 THEN u[k] ELSE u[k + 1]
      <4> HIDE DEF u
      <4> QED BY <1>2, <1>5, RemoveFacts
    <3> QED BY <1>1, <1>2, <3>1
  <2>2. DOMAIN v = 1..n /\ DOMAIN s = 1..n
    <3> HIDE DEF v
    <3> QED BY <1>1, <2>1, OrderFacts
  <2>3. \A k \in 1..n : u[k] = s[k]
    BY <1>1, AppendProperties DEF Orders
  <2>4. \A k \in 1..n : v[k] = s[k]
    <3> HIDE DEF v, u
    <3> QED BY <1>1, <2>1, <2>2, <2>3
  <2>5. v \in Seq(Titles) /\ s \in Seq(Titles)
    BY <1>1, <2>1 DEF Orders
  <2> HIDE DEF v, s, u
  <2>6. v = s
    BY <2>1, <2>4, <2>5, SeqEqual DEF n
  <2> QED BY <2>6 DEF v
<1>7. IndexOf(q, w) = n
  <2>1. q.order = u
    BY <1>3
  <2> DEFINE i == IndexOf(q, w)
  <2>2. i \in 0..(n + 1) /\ i # n + 1 /\ i + 1 \in DOMAIN u /\ u[i + 1] = w
    <3>1. /\ i \in 0..Len(q.order) /\ (i = Len(q.order) <=> w \notin ToSet(q.order))
          /\ (i < Len(q.order) => i + 1 \in DOMAIN q.order /\ q.order[i + 1] = w)
      <4> HIDE DEF q
      <4> QED BY <1>4, IndexFacts
    <3> HIDE DEF u, q, i
    <3> QED BY <1>1, <1>2, <2>1, <3>1
  <2>3. i + 1 = n + 1
    <3> HIDE DEF u, i
    <3> QED BY <1>2, <1>5, <2>2 DEF Distinct
  <2> HIDE DEF i
  <2>4. i = n
    BY <1>1, <2>2, <2>3
  <2> QED BY <2>4 DEF i
<1>8. gui_window_registry_remove(q, w) = [order |-> s, active |-> Topmost(s)]
  <2>1. q.order = u /\ q.active = w /\ n # Len(u)
    BY <1>1, <1>2, <1>3
  <2> HIDE DEF q, u, s, n
  <2> QED BY <1>6, <1>7, <2>1 DEF gui_window_registry_remove
<1>9. ToSet(q.order) = ToSet(s) \cup {w}
  <2>1. q.order = u
    BY <1>3
  <2> QED BY <1>2, <2>1
<1> QED BY <1>1, <1>4, <1>8, <1>9

LEMMA RegistryRemoveGood ==
    ASSUME NEW r, Good(r), NEW w
    PROVE  LET q == gui_window_registry_remove(r, w)
           IN  Good(q) /\ ToSet(q.order) = ToSet(r.order) \ {w}
<1> DEFINE s == r.order
           i == IndexOf(r, w)
           rest == RemoveAt(s, i + 1)
           a == IF r.active = w THEN Topmost(rest) ELSE r.active
           q == gui_window_registry_remove(r, w)
<1>1. /\ s \in Orders /\ Distinct(s) /\ Len(s) \in Nat /\ r.active = Topmost(s)
      /\ i \in 0..Len(s) /\ (i = Len(s) <=> w \notin ToSet(s))
      /\ (i < Len(s) => i + 1 \in DOMAIN s /\ s[i + 1] = w)
  BY GoodFacts, IndexFacts
<1>2. q = IF i = Len(s) THEN r ELSE [order |-> rest, active |-> a]
  BY DEF gui_window_registry_remove
<1>3. CASE i = Len(s)
  <2>1. q = r /\ w \notin ToSet(s)
    BY <1>1, <1>2, <1>3
  <2> HIDE DEF q
  <2> QED BY <2>1 DEF q
<1>4. CASE i # Len(s)
  <2>1. i + 1 \in DOMAIN s /\ s[i + 1] = w
    <3> HIDE DEF i, s
    <3> QED BY <1>1, <1>4
  <2>2. /\ rest \in Orders /\ Distinct(rest) /\ ToSet(rest) = ToSet(s) \ {w}
        /\ i + 1 # Len(s) => Topmost(rest) = Topmost(s)
    <3> HIDE DEF i, s
    <3> QED BY <1>1, <2>1, RemoveFacts, RemoveGood
  <2>3. a = Topmost(rest)
    <3>1. CASE r.active = w
      BY <3>1
    <3>2. CASE r.active # w
      <4>1. Topmost(s) = s[Len(s)]
        <5>1. s # <<>>
          BY <1>1, <2>1, OrderFacts
        <5> QED BY <1>1, <5>1, OrderTop
      <4>2. i + 1 # Len(s)
        BY <1>1, <2>1, <3>2, <4>1
      <4> QED BY <1>1, <2>2, <3>2, <4>2
    <3> QED BY <3>1, <3>2
  <2> HIDE DEF rest, a, q, s, i
  <2>4. Good(q) /\ q.order = rest
    BY <1>2, <1>4, <2>2, <2>3, MakeGood
  <2> QED BY <2>2, <2>4 DEF q, s
<1> QED BY <1>3, <1>4


-----------------------------------------------------------------------------
(* The calls that tasks begin.                                             *)
NoOp(j, op) == \A i \in DOMAIN j : j[i].op # op
WillShow(j, windows) == \E i \in DOMAIN j : /\ j[i].op = "scene" /\ j[i].windows = windows
                                            /\ \A k \in DOMAIN j : k > i => j[k].op # "scene"
Call(t, k) == k \in Jobs /\ Shape(t, k) /\ Calm(k)

LEMMA ThreeSteps ==
    ASSUME NEW S, NEW a \in S, NEW b \in S, NEW c \in S
    PROVE  /\ <<a, b>> \o <<c>> = <<a, b, c>> /\ <<a, b, c>> \in Seq(S)
           /\ DOMAIN <<a, b, c>> = 1..3 /\ Len(<<a, b, c>>) = 3
           /\ <<a, b, c>>[1] = a /\ <<a, b, c>>[2] = b /\ <<a, b, c>>[3] = c
<1>1. /\ DOMAIN <<a, b, c>> = 1..3 /\ Len(<<a, b, c>>) = 3
      /\ <<a, b, c>>[1] = a /\ <<a, b, c>>[2] = b /\ <<a, b, c>>[3] = c
  OBVIOUS
<1>2. <<a, b, c>> \in Seq(S)
  OBVIOUS
<1>3. <<a, b>> \o <<c>> = <<a, b, c>>
  <2> DEFINE j == <<a, b>>
             k == <<c>>
             u == <<a, b, c>>
  <2>1. /\ j \in Seq(S) /\ Len(j) = 2 /\ j[1] = a /\ j[2] = b
        /\ k \in Seq(S) /\ Len(k) = 1 /\ k[1] = c
    OBVIOUS
  <2>2. u \in Seq(S) /\ Len(u) = 3 /\ u[1] = a /\ u[2] = b /\ u[3] = c
    BY <1>1, <1>2
  <2> HIDE DEF j, k, u
  <2>3. /\ j \o k \in Seq(S) /\ Len(j \o k) = Len(j) + Len(k)
        /\ \A i \in 1..Len(j) + Len(k) : (j \o k)[i] = IF i <= Len(j) THEN j[i] ELSE k[i - Len(j)]
    BY <2>1, ConcatProperties
  <2>4. (j \o k)[1] = a /\ (j \o k)[2] = b /\ (j \o k)[3] = c /\ Len(j \o k) = 3
    BY <2>1, <2>3
  <2>5. \A i \in 1..3 : i = 1 \/ i = 2 \/ i = 3
    OBVIOUS
  <2>6. \A i \in 1..Len(u) : (j \o k)[i] = u[i]
    BY <2>2, <2>4, <2>5
  <2>7. j \o k = u
    BY <2>2, <2>3, <2>4, <2>6, SeqEqual
  <2> QED BY <2>7 DEF j, k, u
<1> QED BY <1>1, <1>2, <1>3

\* A window composited by itself and presented (gui_terminal_present, the clock).
LEMMA CompositeCall ==
    ASSUME NEW t, NEW w \in DOMAIN Bounds, NEW direct \in BOOLEAN, direct \/ w = "topbar"
    PROVE  LET k == gui_window_composite(w, direct) \o gui_compositor_present
           IN  Call(t, k) /\ NoOp(k, "scene") /\ NoOp(k, "spawn")
<1> DEFINE a == Step("paint", <<w>>, direct)
           b == Step("damage", <<w>>, direct)
           c == Plain("take")
           k == <<a, b, c>>
<1>1. <<w>> \in Seq(DOMAIN Bounds) /\ Len(<<w>>) = 1 /\ <<w>>[1] = w
  OBVIOUS
<1>2. /\ a \in StepType /\ a.op = "paint" /\ a.windows = <<w>> /\ a.direct = direct /\ a.at = {}
      /\ b \in StepType /\ b.op = "damage" /\ b.windows = <<w>> /\ b.at = {}
  <2>1. "paint" \in Ops /\ "damage" \in Ops
    BY DEF Ops
  <2>2. a \in StepType /\ a.op = "paint" /\ a.windows = <<w>> /\ a.direct = direct /\ a.at = {}
    BY <1>1, <2>1 DEF Step, StepType
  <2>3. b \in StepType /\ b.op = "damage" /\ b.windows = <<w>> /\ b.at = {}
    BY <1>1, <2>1 DEF Step, StepType
  <2> QED BY <2>2, <2>3
<1>3. c \in StepType /\ c.op = "take" /\ c.at = {}
  BY PlainFacts DEF Ops
<1>4. gui_window_composite(w, direct) \o gui_compositor_present = k
  <2> HIDE DEF a, b, c
  <2>1. gui_window_composite(w, direct) = <<a, b>> /\ gui_compositor_present = <<c>>
    BY DEF gui_window_composite, gui_compositor_present, a, b, c
  <2> QED BY <1>2, <1>3, <2>1, ThreeSteps
<1> HIDE DEF a, b, c
<1>5. k \in Jobs /\ DOMAIN k = 1..3 /\ Len(k) = 3 /\ k[1] = a /\ k[2] = b /\ k[3] = c
  BY <1>2, <1>3, ThreeSteps DEF Jobs
<1> HIDE DEF k
<1>6. \A i \in DOMAIN k : i = 1 \/ i = 2 \/ i = 3
  BY <1>5
<1>7. Neighbours(t, k, 1) /\ Neighbours(t, k, 2) /\ Neighbours(t, k, 3)
  <2>1. Neighbours(t, k, 1)
    BY <1>1, <1>2, <1>5 DEF Neighbours
  <2>2. Neighbours(t, k, 2)
    BY <1>1, <1>2, <1>5 DEF Neighbours
  <2>3. Neighbours(t, k, 3)
    BY <1>3, <1>5 DEF Neighbours
  <2> QED BY <2>1, <2>2, <2>3
<1>8. Shape(t, k)
  BY <1>6, <1>7 DEF Shape
<1>9. Calm(k) /\ NoOp(k, "scene") /\ NoOp(k, "spawn")
  BY <1>2, <1>3, <1>5, <1>6 DEF Calm, NoOp, UpdateOps
<1> QED BY <1>4, <1>5, <1>8, <1>9 DEF Call

\* gui_desktop_render.
LEMMA RenderCall ==
    ASSUME NEW windows \in Seq(DOMAIN Bounds)
    PROVE  LET k == gui_desktop_render(windows)
           IN  Call("gui", k) /\ NoOp(k, "spawn") /\ WillShow(k, windows)
<1> DEFINE a == Step("scene", windows, FALSE)
           b == Plain("damage_all")
           c == Plain("take")
           k == <<a, b, c>>
<1>1. a \in StepType /\ a.op = "scene" /\ a.windows = windows /\ a.at = {}
  <2>1. "scene" \in Ops /\ FALSE \in BOOLEAN
    BY DEF Ops
  <2> QED BY <2>1 DEF Step, StepType
<1>2. b \in StepType /\ b.op = "damage_all" /\ b.at = {} /\ c \in StepType /\ c.op = "take" /\ c.at = {}
  BY PlainFacts DEF Ops
<1>3. gui_desktop_render(windows) = k
  <2> HIDE DEF a, b, c
  <2>1. gui_desktop_render(windows) = <<a, b>> \o <<c>>
    BY DEF gui_desktop_render, gui_compositor_present, a, b, c
  <2> QED BY <1>1, <1>2, <2>1, ThreeSteps
<1> HIDE DEF a, b, c
<1>4. k \in Jobs /\ DOMAIN k = 1..3 /\ Len(k) = 3 /\ k[1] = a /\ k[2] = b /\ k[3] = c
  BY <1>1, <1>2, ThreeSteps DEF Jobs
<1> HIDE DEF k
<1>5. \A i \in DOMAIN k : i = 1 \/ i = 2 \/ i = 3
  BY <1>4
<1>6. Neighbours("gui", k, 1) /\ Neighbours("gui", k, 2) /\ Neighbours("gui", k, 3)
  <2>1. Neighbours("gui", k, 1)
    BY <1>1, <1>2, <1>4 DEF Neighbours
  <2>2. Neighbours("gui", k, 2)
    BY <1>2, <1>4 DEF Neighbours
  <2>3. Neighbours("gui", k, 3)
    BY <1>2, <1>4 DEF Neighbours
  <2> QED BY <2>1, <2>2, <2>3
<1>7. Shape("gui", k)
  BY <1>5, <1>6 DEF Shape
<1>8. Calm(k) /\ NoOp(k, "spawn")
  BY <1>1, <1>2, <1>4, <1>5 DEF Calm, NoOp, UpdateOps
<1>9. WillShow(k, windows)
  <2>1. 1 \in DOMAIN k /\ k[1].op = "scene" /\ k[1].windows = windows
    BY <1>1, <1>4
  <2>2. \A i \in DOMAIN k : i > 1 => k[i].op # "scene"
    BY <1>2, <1>4, <1>5
  <2> QED BY <2>1, <2>2 DEF WillShow
<1> QED BY <1>3, <1>4, <1>7, <1>8, <1>9 DEF Call

\* One call after another: the scene shown in the end is the last one's.
LEMMA CallAfter ==
    ASSUME NEW t, NEW j, Call(t, j), NoOp(j, "spawn"), NEW k, Call(t, k)
    PROVE  /\ Call(t, j \o k)
           /\ \A windows : WillShow(k, windows) => WillShow(j \o k, windows)
           /\ \A windows : WillShow(j, windows) /\ NoOp(k, "scene") => WillShow(j \o k, windows)
           /\ \A op : NoOp(j, op) /\ NoOp(k, op) => NoOp(j \o k, op)
           /\ \A op : NoOp(k, op) => \A i \in DOMAIN (j \o k) : (j \o k)[i].op = op => i \in DOMAIN j
<1> DEFINE c == j \o k
<1>1. j \in Jobs /\ k \in Jobs /\ Len(j) \in Nat /\ DOMAIN j = 1..Len(j) /\ Len(k) \in Nat /\ DOMAIN k = 1..Len(k)
  BY JobFacts DEF Call
<1>2. /\ c \in Jobs /\ Len(c) = Len(j) + Len(k)
      /\ \A i \in DOMAIN j : i \in DOMAIN c /\ c[i] = j[i]
      /\ \A i \in DOMAIN k : Len(j) + i \in DOMAIN c /\ c[Len(j) + i] = k[i]
      /\ \A i \in DOMAIN c : i \in DOMAIN j \/ (i - Len(j) \in DOMAIN k /\ i > Len(j))
  BY <1>1, ConcatFacts
<1>3. Shape(t, c) /\ Calm(c)
  BY <1>1, ConcatShape DEF Call, NoOp
<1> HIDE DEF c
<1>4. \A i \in DOMAIN c : i \in Int
  BY <1>2, JobFacts
<1>5. \A i \in DOMAIN c : i \in DOMAIN j \/ (i - Len(j) \in DOMAIN k /\ c[i] = k[i - Len(j)] /\ i > Len(j))
  BY <1>1, <1>2, <1>4
<1>6. \A op : NoOp(k, op) => \A i \in DOMAIN c : c[i].op = op => i \in DOMAIN j
  BY <1>5 DEF NoOp
<1>7. \A op : NoOp(j, op) /\ NoOp(k, op) => NoOp(c, op)
  BY <1>2, <1>5 DEF NoOp
<1>8. ASSUME NEW windows, WillShow(k, windows) PROVE WillShow(c, windows)
  <2>1. PICK i \in DOMAIN k : /\ k[i].op = "scene" /\ k[i].windows = windows
                              /\ \A l \in DOMAIN k : l > i => k[l].op # "scene"
    BY <1>8 DEF WillShow
  <2>2. Len(j) + i \in DOMAIN c /\ c[Len(j) + i].op = "scene" /\ c[Len(j) + i].windows = windows
    BY <1>2, <2>1
  <2>3. ASSUME NEW l \in DOMAIN c, l > Len(j) + i PROVE c[l].op # "scene"
    <3>1. l - Len(j) \in DOMAIN k /\ c[l] = k[l - Len(j)] /\ l - Len(j) > i
      BY <1>1, <1>4, <1>5, <2>3
    <3> QED BY <2>1, <3>1
  <2> QED BY <2>2, <2>3 DEF WillShow
<1>9. ASSUME NEW windows, WillShow(j, windows), NoOp(k, "scene") PROVE WillShow(c, windows)
  <2>1. PICK i \in DOMAIN j : /\ j[i].op = "scene" /\ j[i].windows = windows
                              /\ \A l \in DOMAIN j : l > i => j[l].op # "scene"
    BY <1>9 DEF WillShow
  <2>2. i \in DOMAIN c /\ c[i].op = "scene" /\ c[i].windows = windows
    BY <1>2, <2>1
  <2>3. ASSUME NEW l \in DOMAIN c, l > i PROVE c[l].op # "scene"
    BY <1>2, <1>6, <1>9, <2>1, <2>3
  <2> QED BY <2>2, <2>3 DEF WillShow
<1>10. Call(t, c)
  BY <1>2, <1>3 DEF Call
<1> QED BY <1>6, <1>7, <1>8, <1>9, <1>10 DEF c

\* The start of a shell.
LEMMA SpawnCall ==
    ASSUME NEW w \in ToSet(Terminals)
    PROVE  LET k == <<Spawn(w)>>
           IN  Call("gui", k) /\ NoOp(k, "scene") /\ DOMAIN k = {1} /\ k[1].op = "spawn" /\ k[1].windows[1] = w
<1> DEFINE s == Spawn(w)
           k == <<s>>
<1>1. w \in DOMAIN Bounds
  BY Consts DEF Titles
<1>2. <<w>> \in Seq(DOMAIN Bounds) /\ Len(<<w>>) = 1 /\ <<w>>[1] = w
  BY <1>1
<1>3. s \in StepType /\ s.op = "spawn" /\ s.windows = <<w>> /\ s.at = {}
  BY <1>2, StepFacts DEF Ops, Spawn
<1> HIDE DEF s
<1>4. k \in Jobs /\ DOMAIN k = {1} /\ Len(k) = 1 /\ k[1] = s
  BY <1>3 DEF Jobs
<1> HIDE DEF k
<1>5. Neighbours("gui", k, 1)
  BY <1>2, <1>3, <1>4 DEF Neighbours
<1>6. Shape("gui", k)
  BY <1>4, <1>5 DEF Shape
<1>7. Calm(k) /\ NoOp(k, "scene")
  BY <1>3, <1>4 DEF Calm, NoOp, UpdateOps
<1> QED BY <1>2, <1>3, <1>4, <1>6, <1>7 DEF Call, k, s

LEMMA NoCall ==
    ASSUME NEW t
    PROVE  /\ Call(t, <<>>) /\ PendingOf(<<>>) = {} /\ \A op : NoOp(<<>>, op)
           /\ \A k \in Jobs : <<>> \o k = k /\ k \o <<>> = k
BY DEF Call, Shape, Calm, PendingOf, NoOp, Jobs

-----------------------------------------------------------------------------
(* The bars and the scene.                                                 *)
\* The pointer opens and closes menus; what it leaves unrendered shows no other menu.
LEMMA PopupPanel ==
    ASSUME NEW p \in Panel, NEW v \in Menus
    PROVE  set_popup(p, v) \in Panel /\ set_popup(p, v).popup = v
<1>1. "none" \in Buttons
  BY DEF Buttons
<1>2. p.lit \ {p.pressed} \in SUBSET Buttons
  BY DEF Panel
<1> QED BY <1>1, <1>2 DEF set_popup, Panel

\* A button is held, or let go, and drawn so.
LEMMA HeldPanel ==
    ASSUME NEW p \in Panel, NEW v \in Buttons, NEW l
    PROVE  LET q == [p EXCEPT !.pressed = v, !.lit = l]
               u == [p EXCEPT !.pressed = v]
           IN  /\ q.popup = p.popup /\ (l \in SUBSET Buttons => q \in Panel)
               /\ u.lit = p.lit /\ q = [u EXCEPT !.lit = l]
<1> DEFINE a == p.popup
           b == p.pressed
           c == p.lit
           u == [p EXCEPT !.pressed = v]
<1>1. p = [popup |-> a, pressed |-> b, lit |-> c] /\ a \in Menus /\ c \in SUBSET Buttons
  BY DEF Panel
<1> HIDE DEF a, b, c
<1>2. u = [popup |-> a, pressed |-> v, lit |-> c]
  BY <1>1
<1>3. [p EXCEPT !.pressed = v, !.lit = l] = [u EXCEPT !.lit = l]
  OBVIOUS
<1>4. [u EXCEPT !.lit = l] = [popup |-> a, pressed |-> v, lit |-> l]
  <2> HIDE DEF u
  <2> QED BY <1>2
<1>5. u.lit = c
  <2> HIDE DEF u
  <2> QED BY <1>2
<1> HIDE DEF u
<1> QED BY <1>1, <1>3, <1>4, <1>5 DEF Panel, a, c, u

LEMMA ButtonFacts ==
    ASSUME NEW p \in Panel, NEW at, NEW x
    PROVE  button_from_widget(Hit(p, at), x) \in Buttons /\ "none" \in Buttons
<1> DEFINE w == Hit(p, at)
<1>1. w \in {"none", "topbar", "start", "power"}
  BY DEF Hit, Panel, Menus
<1> HIDE DEF w
<1>2. CASE w # "none" /\ x \in DOMAIN ButtonAt[w]
  <2>1. ButtonAt[w][x] \in {ButtonAt[w][y] : y \in DOMAIN ButtonAt[w]} /\ w \in {"topbar", "start", "power"}
    BY <1>1, <1>2
  <2>2. ButtonAt[w][x] \in Buttons
    BY <2>1 DEF Buttons
  <2> QED BY <1>2, <2>2 DEF button_from_widget, w, Buttons
<1>3. CASE ~(w # "none" /\ x \in DOMAIN ButtonAt[w])
  BY <1>3 DEF button_from_widget, w, Buttons
<1> QED BY <1>2, <1>3

LEMMA ClickPanel ==
    ASSUME NEW p \in Panel, NEW b
    PROVE  click(p, b) \in Panel
<1> DEFINE menu == CASE b = "meaty" -> "start" [] b = "power_button" -> "power" [] OTHER -> "none"
           v == IF p.popup = menu THEN "none" ELSE menu
<1>1. menu \in Menus
  BY DEF Menus
<1>2. v \in Menus
  <2> HIDE DEF menu
  <2> QED BY <1>1 DEF Menus
<1>3. click(p, b) = set_popup(p, v)
  BY DEF click
<1> HIDE DEF v
<1> QED BY <1>2, <1>3, PopupPanel

LEMMA PanelKept ==
    ASSUME NEW p \in Panel, NEW e, NEW at
    PROVE  LET a == gui_topbar_handle_pointer(p, e, at)
           IN  a.panel \in Panel /\ (~a.render => a.panel.popup = p.popup)
<1> DEFINE hit == Hit(p, at)
           b == button_from_widget(hit, e.x)
           a == gui_topbar_handle_pointer(p, e, at)
<1>1. b \in Buttons /\ "none" \in Buttons
  BY ButtonFacts
<1>2. /\ p.popup \in Menus /\ p.pressed \in Buttons /\ p.lit \in SUBSET Buttons /\ "none" \in Menus
      /\ p = [popup |-> p.popup, pressed |-> p.pressed, lit |-> p.lit]
  BY DEF Panel, Menus
<1>3. a = IF e.type = "down" /\ e.button = "left" THEN press(p, hit, b)
          ELSE IF e.type = "up" /\ e.button = "left" THEN release(p, hit, b)
          ELSE Answer(p, hit # "none", FALSE)
  BY DEF gui_topbar_handle_pointer
<1> HIDE DEF hit, b, a
<1>4. LET c == press(p, hit, b) IN c.panel \in Panel /\ (~c.render => c.panel.popup = p.popup)
  <2>1. CASE p.popup # "none" /\ hit = "none"
    <3>1. press(p, hit, b) = [panel |-> set_popup(p, "none"), handled |-> FALSE, render |-> TRUE]
      BY <2>1 DEF press, Answer
    <3> QED BY <1>2, <3>1, PopupPanel
  <2>2. CASE ~(p.popup # "none" /\ hit = "none")
    <3> DEFINE q == [p EXCEPT !.pressed = b, !.lit = @ \cup ({b} \ {"none"})]
    <3>1. p.lit \cup ({b} \ {"none"}) \in SUBSET Buttons
      BY <1>1, <1>2
    <3>2. q \in Panel /\ q.popup = p.popup
      BY <1>1, <3>1, HeldPanel
    <3>3. press(p, hit, b).panel = q
      BY <2>2 DEF press, Answer
    <3> HIDE DEF q
    <3> QED BY <3>2, <3>3
  <2> QED BY <2>1, <2>2
<1>5. LET c == release(p, hit, b) IN c.panel \in Panel /\ (~c.render => c.panel.popup = p.popup)
  <2>1. CASE p.pressed = "none"
    <3>1. release(p, hit, b).panel = p
      BY <2>1 DEF release, Answer
    <3> QED BY <3>1
  <2>2. CASE p.pressed # "none"
    <3> DEFINE q == [p EXCEPT !.pressed = "none", !.lit = @ \ {p.pressed}]
    <3>1. p.lit \ {p.pressed} \in SUBSET Buttons
      BY <1>2
    <3>2. q \in Panel
      BY <1>1, <3>1, HeldPanel
    <3>3. /\ release(p, hit, b).panel = (IF p.pressed = b THEN click(q, b) ELSE q)
          /\ release(p, hit, b).render
      BY <2>2 DEF release, Answer
    <3> HIDE DEF q
    <3> QED BY <3>2, <3>3, ClickPanel
  <2> QED BY <2>1, <2>2
<1>6. LET c == Answer(p, hit # "none", FALSE) IN c.panel \in Panel /\ (~c.render => c.panel.popup = p.popup)
  BY DEF Answer
<1> QED BY <1>3, <1>4, <1>5, <1>6 DEF a

\* The windows of a scene, and which of them the top bar is.
LEMMA SceneFacts ==
    ASSUME NEW r \in Registry, NEW p \in Panel
    PROVE  LET s == Scene(r, p)
               n == Len(r.order) + 1
           IN  /\ s \in Seq(DOMAIN Bounds) /\ n \in DOMAIN s /\ s[n] = "topbar" /\ n \in Nat
               /\ \A i \in DOMAIN s : i > n => s[i] \in {"start", "power", "taskbar"}
               /\ DOMAIN s \subseteq Nat
<1> DEFINE n == Len(r.order) + 1
           bar == <<"topbar">>
           menu == IF p.popup = "none" THEN <<>> ELSE <<p.popup>>
           task == <<"taskbar">>
           a == r.order \o bar
           b == a \o menu
           s == b \o task
           S == DOMAIN Bounds
<1>1. r.order \in Seq(S) /\ Len(r.order) \in Nat
  <2>1. r.order \in Orders
    BY DEF Registry, Orders
  <2> QED BY <2>1, Consts, OrderFacts DEF Orders
<1>2. /\ {"topbar", "start", "power", "taskbar"} \subseteq S
  BY Consts
<1>3. /\ bar \in Seq(S) /\ Len(bar) = 1 /\ bar[1] = "topbar"
      /\ task \in Seq(S) /\ Len(task) = 1 /\ task[1] = "taskbar"
  BY <1>2
<1>4. /\ menu \in Seq(S) /\ Len(menu) \in {0, 1} /\ (Len(menu) = 1 => menu[1] \in {"start", "power"})
  <2>1. p.popup \in {"none", "start", "power"}
    BY DEF Panel, Menus
  <2>2. CASE p.popup = "none"
    <3>1. menu = <<>> /\ Len(<<>>) = 0 /\ <<>> \in Seq(S)
      BY <2>2
    <3> HIDE DEF menu
    <3> QED BY <3>1
  <2>3. CASE p.popup # "none"
    <3>1. menu = <<p.popup>> /\ Len(<<p.popup>>) = 1 /\ <<p.popup>>[1] = p.popup
      BY <2>3
    <3>2. p.popup \in S /\ p.popup \in {"start", "power"}
      BY <1>2, <2>1, <2>3
    <3> HIDE DEF S
    <3>3. <<p.popup>> \in Seq(S)
      BY <3>2
    <3> HIDE DEF menu
    <3> QED BY <3>1, <3>2, <3>3
  <2> QED BY <2>2, <2>3
<1>5. Scene(r, p) = s
  BY DEF Scene
<1> HIDE DEF bar, menu, task, S
<1>6. /\ a \in Seq(S) /\ Len(a) = n /\ a[n] = "topbar" /\ n \in Nat /\ n >= 1
  <2>1. a \in Seq(S) /\ Len(a) = Len(r.order) + Len(bar)
    BY <1>1, <1>3, ConcatProperties
  <2>2. \A i \in 1..Len(r.order) + Len(bar) : a[i] = IF i <= Len(r.order) THEN r.order[i] ELSE bar[i - Len(r.order)]
    BY <1>1, <1>3, ConcatProperties
  <2>3. n \in 1..Len(r.order) + Len(bar) /\ ~(n <= Len(r.order)) /\ n - Len(r.order) = 1
    BY <1>1, <1>3
  <2> QED BY <1>1, <1>3, <2>1, <2>2, <2>3
<1> HIDE DEF a
<1>7. /\ b \in Seq(S) /\ Len(b) = n + Len(menu)
      /\ \A i \in 1..n + Len(menu) : b[i] = IF i <= n THEN a[i] ELSE menu[i - n]
  <2>1. /\ b \in Seq(S) /\ Len(b) = Len(a) + Len(menu)
        /\ \A i \in 1..Len(a) + Len(menu) : b[i] = IF i <= Len(a) THEN a[i] ELSE menu[i - Len(a)]
    BY <1>4, <1>6, ConcatProperties
  <2> HIDE DEF b
  <2> QED BY <1>6, <2>1
<1> HIDE DEF b
<1>8. /\ s \in Seq(S) /\ Len(s) = n + Len(menu) + 1 /\ DOMAIN s = 1..n + Len(menu) + 1
      /\ \A i \in 1..n + Len(menu) + 1 : s[i] = IF i <= n + Len(menu) THEN b[i] ELSE task[i - (n + Len(menu))]
  <2>1. s \in Seq(S) /\ Len(s) = Len(b) + Len(task)
    BY <1>3, <1>7, ConcatProperties
  <2>2. \A i \in 1..Len(b) + Len(task) : s[i] = IF i <= Len(b) THEN b[i] ELSE task[i - Len(b)]
    BY <1>3, <1>7, ConcatProperties
  <2>3. DOMAIN s = 1..Len(s)
    BY <2>1
  <2> QED BY <1>3, <1>7, <2>1, <2>2, <2>3
<1> HIDE DEF s
<1>9. n \in DOMAIN s /\ s[n] = "topbar"
  <2> HIDE DEF n
  <2>1. n \in 1..n + Len(menu) + 1 /\ n <= n + Len(menu) /\ n \in 1..n + Len(menu) /\ n <= n
    BY <1>4, <1>6
  <2> QED BY <1>6, <1>7, <1>8, <2>1
<1>10. ASSUME NEW i \in DOMAIN s, i > n PROVE s[i] \in {"start", "power", "taskbar"}
  <2> HIDE DEF n
  <2>1. CASE i <= n + Len(menu)
    <3> DEFINE m == Len(menu)
    <3>0. i \in 1..n + m + 1 /\ n \in Nat /\ m \in {0, 1} /\ i > n /\ i <= n + m
      BY <1>4, <1>6, <1>8, <1>10, <2>1
    <3>1. Len(menu) = 1 /\ i = n + 1 /\ i \in 1..n + Len(menu)
      <4> HIDE DEF m
      <4>1. m = 1 /\ i = n + 1 /\ i \in 1..n + m
        BY <3>0
      <4> QED BY <4>1 DEF m
    <3>2. s[i] = menu[1]
      BY <1>6, <1>7, <1>8, <2>1, <3>1
    <3> QED BY <1>4, <3>1, <3>2
  <2>2. CASE ~(i <= n + Len(menu))
    <3> DEFINE m == Len(menu)
    <3>0. i \in 1..n + m + 1 /\ n \in Nat /\ m \in {0, 1} /\ ~(i <= n + m)
      BY <1>4, <1>6, <1>8, <2>2
    <3>1. i = n + Len(menu) + 1 /\ i - (n + Len(menu)) = 1
      <4> HIDE DEF m
      <4>1. i = n + m + 1 /\ i - (n + m) = 1
        BY <3>0
      <4> QED BY <4>1 DEF m
    <3> QED BY <1>3, <1>8, <2>2, <3>1
  <2> QED BY <2>1, <2>2
<1>11. DOMAIN s \subseteq Nat
  BY <1>8
<1> QED BY <1>5, <1>6, <1>8, <1>9, <1>10, <1>11 DEF n, S

LEMMA WindowsHere ==
    ASSUME NEW s \in Seq(DOMAIN Bounds), NEW x \in Places
    PROVE  {i \in DOMAIN s : x \in Area(s[i])} = {i \in DOMAIN s : s[i] \in WindowsAt(x)}
<1>1. ASSUME NEW i \in DOMAIN s PROVE x \in Area(s[i]) <=> s[i] \in WindowsAt(x)
  <2>1. s[i] \in DOMAIN Bounds
    BY ElementOfSeq
  <2>2. x \in Area(s[i]) <=> x \in PlacesOf(Bounds[s[i]])
    BY <2>1, ClippedPlaces
  <2> QED BY <2>1, <2>2 DEF WindowsAt
<1> QED BY <1>1

\* A rendered scene shows at each place the window in front.
LEMMA RenderedTop ==
    ASSUME NEW r \in Registry, NEW p \in Panel, NEW x \in Places
    PROVE  PaintedOver(x, [w |-> "desktop", direct |-> FALSE], Scene(r, p), FALSE).w = Top(x, r, p)
<1> DEFINE s == Scene(r, p)
           on == {i \in DOMAIN s : x \in Area(s[i])}
<1>1. s \in Seq(DOMAIN Bounds)
  BY SceneFacts
<1>2. on = {i \in DOMAIN s : s[i] \in WindowsAt(x)}
  <2> HIDE DEF s
  <2> QED BY <1>1, WindowsHere
<1>3. Top(x, r, p) = IF on = {} THEN "desktop" ELSE Frontmost(s, on)
  BY <1>2 DEF Top
<1>4. PaintedOver(x, [w |-> "desktop", direct |-> FALSE], s, FALSE).w
         = IF on = {} THEN "desktop" ELSE Frontmost(s, on)
  BY DEF PaintedOver
<1> QED BY <1>3, <1>4

\* Nothing is in front of the top bar.
LEMMA BarOnTop ==
    ASSUME NEW r \in Registry, NEW p \in Panel, NEW x \in Places, x \in Area("topbar")
    PROVE  Top(x, r, p) = "topbar"
<1> DEFINE s == Scene(r, p)
           n == Len(r.order) + 1
           on == {i \in DOMAIN s : s[i] \in WindowsAt(x)}
<1>1. /\ n \in DOMAIN s /\ s[n] = "topbar" /\ n \in Nat /\ DOMAIN s \subseteq Nat
      /\ \A i \in DOMAIN s : i > n => s[i] \in {"start", "power", "taskbar"}
  BY SceneFacts
<1>2. "topbar" \in DOMAIN Bounds /\ x \in PlacesOf(Bounds["topbar"])
  BY Consts, ClippedPlaces
<1>3. \A w \in {"start", "power", "taskbar"} : w \notin WindowsAt(x)
  BY <1>2, DesktopAssumption DEF WindowsAt
<1>4. Top(x, r, p) = IF on = {} THEN "desktop" ELSE Frontmost(s, on)
  BY DEF Top
<1> HIDE DEF s, n
<1>5. n \in on
  BY <1>1, <1>2 DEF WindowsAt
<1>6. \A i \in on : i <= n
  BY <1>1, <1>3
<1>7. on \subseteq Nat
  BY <1>1
<1> HIDE DEF on
<1>8. (CHOOSE i \in on : \A j \in on : j <= i) = n
  <2>1. \A i \in on : (\A j \in on : j <= i) => i = n
    BY <1>1, <1>5, <1>6, <1>7
  <2> QED BY <1>5, <1>6, <2>1
<1> QED BY <1>1, <1>4, <1>5, <1>8 DEF Frontmost

-----------------------------------------------------------------------------
(* What the GUI task still has to do, as its call goes on.                 *)
Starts(j, w) == \E i \in DOMAIN j : j[i].op = "spawn" /\ j[i].windows[1] = w
Later(j, k) == /\ NoOp(j, "scene") => NoOp(k, "scene")
               /\ \A windows : WillShow(j, windows) => WillShow(k, windows)
               /\ \A w : Starts(j, w) => Starts(k, w)

LEMMA TailLater ==
    ASSUME NEW j \in Jobs, j # <<>>
    PROVE  /\ NoOp(j, "scene") => NoOp(Tail(j), "scene")
           /\ \A windows : WillShow(j, windows) =>
                 \/ WillShow(Tail(j), windows)
                 \/ j[1].op = "scene" /\ j[1].windows = windows /\ NoOp(Tail(j), "scene")
           /\ \A w : Starts(j, w) => Starts(Tail(j), w) \/ (j[1].op = "spawn" /\ j[1].windows[1] = w)
<1> DEFINE k == Tail(j)
<1>1. /\ \A i \in DOMAIN k : i + 1 \in DOMAIN j /\ k[i] = j[i + 1]
      /\ \A i \in DOMAIN j : i > 1 => i - 1 \in DOMAIN k /\ j[i] = k[i - 1]
      /\ k \in Jobs
  BY TailFacts
<1>2. /\ \A i \in DOMAIN j : i \in Nat /\ i >= 1
      /\ \A i \in DOMAIN k : i \in Nat /\ i >= 1
  BY <1>1, JobFacts
<1> HIDE DEF k
<1>3. NoOp(j, "scene") => NoOp(k, "scene")
  BY <1>1 DEF NoOp
<1>4. ASSUME NEW windows, WillShow(j, windows)
      PROVE  \/ WillShow(k, windows)
             \/ j[1].op = "scene" /\ j[1].windows = windows /\ NoOp(k, "scene")
  <2>1. PICK i \in DOMAIN j : /\ j[i].op = "scene" /\ j[i].windows = windows
                              /\ \A l \in DOMAIN j : l > i => j[l].op # "scene"
    BY <1>4 DEF WillShow
  <2>2. CASE i = 1
    <3>1. ASSUME NEW l \in DOMAIN k PROVE k[l].op # "scene"
      <4>1. l + 1 \in DOMAIN j /\ l + 1 > 1 /\ k[l] = j[l + 1]
        BY <1>1, <1>2
      <4> QED BY <2>1, <2>2, <4>1
    <3> QED BY <2>1, <2>2, <3>1 DEF NoOp
  <2>3. CASE i # 1
    <3>1. i > 1 /\ i - 1 \in DOMAIN k /\ k[i - 1] = j[i]
      BY <1>1, <1>2, <2>3
    <3>2. ASSUME NEW l \in DOMAIN k, l > i - 1 PROVE k[l].op # "scene"
      <4>1. l + 1 \in DOMAIN j /\ l + 1 > i /\ k[l] = j[l + 1]
        BY <1>1, <1>2, <3>2
      <4> QED BY <2>1, <4>1
    <3> QED BY <2>1, <3>1, <3>2 DEF WillShow
  <2> QED BY <2>2, <2>3
<1>5. ASSUME NEW w, Starts(j, w) PROVE Starts(k, w) \/ (j[1].op = "spawn" /\ j[1].windows[1] = w)
  <2>1. PICK i \in DOMAIN j : j[i].op = "spawn" /\ j[i].windows[1] = w
    BY <1>5 DEF Starts
  <2>2. i = 1 \/ (i - 1 \in DOMAIN k /\ k[i - 1] = j[i])
    BY <1>1, <1>2
  <2> QED BY <2>1, <2>2 DEF Starts
<1> QED BY <1>3, <1>4, <1>5 DEF k

LEMMA ConcatLater ==
    ASSUME NEW j \in Jobs, NEW k \in Jobs, NoOp(j, "scene")
    PROVE  Later(k, j \o k)
<1> DEFINE c == j \o k
<1>1. /\ c \in Jobs /\ Len(j) \in Nat
      /\ \A i \in DOMAIN j : i \in DOMAIN c /\ c[i] = j[i]
      /\ \A i \in DOMAIN k : Len(j) + i \in DOMAIN c /\ c[Len(j) + i] = k[i]
      /\ \A i \in DOMAIN c : i \in DOMAIN j \/ (i - Len(j) \in DOMAIN k /\ i > Len(j))
  BY ConcatFacts, JobFacts
<1>2. /\ \A i \in DOMAIN c : i \in Nat
      /\ \A i \in DOMAIN j : i \in Nat /\ i <= Len(j)
      /\ \A i \in DOMAIN k : i \in Nat /\ i >= 1
  BY <1>1, JobFacts
<1> HIDE DEF c
<1>3. \A i \in DOMAIN c : i \in DOMAIN j \/ (i - Len(j) \in DOMAIN k /\ c[i] = k[i - Len(j)])
  BY <1>1, <1>2
<1>4. NoOp(k, "scene") => NoOp(c, "scene")
  BY <1>1, <1>3 DEF NoOp
<1>5. ASSUME NEW windows, WillShow(k, windows) PROVE WillShow(c, windows)
  <2>1. PICK i \in DOMAIN k : /\ k[i].op = "scene" /\ k[i].windows = windows
                              /\ \A l \in DOMAIN k : l > i => k[l].op # "scene"
    BY <1>5 DEF WillShow
  <2>2. Len(j) + i \in DOMAIN c /\ c[Len(j) + i].op = "scene" /\ c[Len(j) + i].windows = windows
    BY <1>1, <2>1
  <2>3. ASSUME NEW l \in DOMAIN c, l > Len(j) + i PROVE c[l].op # "scene"
    <3>1. l \notin DOMAIN j
      BY <1>1, <1>2, <2>3
    <3>2. l - Len(j) \in DOMAIN k /\ c[l] = k[l - Len(j)] /\ l - Len(j) > i
      BY <1>1, <1>2, <1>3, <2>3, <3>1
    <3> QED BY <2>1, <3>2
  <2> QED BY <2>2, <2>3 DEF WillShow
<1>6. \A w : Starts(k, w) => Starts(c, w)
  BY <1>1 DEF Starts
<1> QED BY <1>4, <1>5, <1>6 DEF Later, c

-----------------------------------------------------------------------------
(* The desktop.                                                            *)
Shown == \A x \in Places : back[x].direct \/ back[x].w = Top(x, reg, panel)
SceneOK == \/ NoOp(job["gui"], "scene") /\ Shown
           \/ WillShow(job["gui"], Scene(reg, panel))
WindowsOK == /\ panel \in Panel /\ Good(reg) /\ shells \subseteq ToSet(Terminals)
             /\ \A w \in ToSet(reg.order) : w = "test" \/ w \in shells \/ Starts(job["gui"], w)
             /\ gui = "pop" => job["gui"] = <<>>
DesktopInv == InputInv /\ ScreenInv /\ WindowsOK /\ SceneOK

\* The GUI task is where it was, or further on in its call.
LEMMA DeskLater ==
    ASSUME WindowsOK, SceneOK, Later(job["gui"], job'["gui"]), Shown => Shown',
           UNCHANGED deskVars, gui' = "pop" => job'["gui"] = <<>>
    PROVE  WindowsOK' /\ SceneOK'
<1>1. WindowsOK'
  BY DEF WindowsOK, Later, deskVars
<1>2. SceneOK'
  BY DEF SceneOK, Later, deskVars
<1> QED BY <1>1, <1>2

LEMMA LaterSame == ASSUME NEW j PROVE Later(j, j)
BY DEF Later

LEMMA ShownSame ==
    ASSUME UNCHANGED <<back, deskVars>> PROVE Shown => Shown'
BY DEF Shown, deskVars

\* A painter other than a full render: by itself over the scene, or the top bar, which
\* nothing is in front of.
LEMMA PaintShown ==
    ASSUME JobsOK, WindowsOK, NEW t \in Painters, job[t] # <<>>, Head(job[t]).op = "paint",
           Paint(t, Head(job[t])), UNCHANGED deskVars
    PROVE  Shown => Shown'
<1> DEFINE s == Head(job[t])
           j == job[t]
<1>1. j \in Jobs /\ Shape(t, j) /\ 1 \in DOMAIN j /\ s = j[1] /\ s \in StepType
  BY JobFacts DEF JobsOK
<1>2. (s.direct \/ s.windows[1] = "topbar") /\ Len(s.windows) = 1
  BY <1>1 DEF Shape, Neighbours
<1>3. s.windows \in Seq(DOMAIN Bounds) /\ DOMAIN s.windows = {1}
  <2>1. s.windows \in Seq(DOMAIN Bounds)
    BY <1>1 DEF StepType
  <2> QED BY <1>2, <2>1
<1>4. back' = [p \in Places |-> PaintedOver(p, back[p], s.windows, s.direct)]
  BY DEF Paint
<1> HIDE DEF s, j
<1>5. SUFFICES ASSUME Shown, NEW x \in Places
               PROVE  back'[x].direct \/ back'[x].w = Top(x, reg, panel)
  BY DEF Shown, deskVars
<1> DEFINE on == {i \in DOMAIN s.windows : x \in Area(s.windows[i])}
<1>6. back'[x] = IF on = {} THEN back[x] ELSE [w |-> Frontmost(s.windows, on), direct |-> s.direct]
  BY <1>4 DEF PaintedOver
<1>7. CASE on = {}
  BY <1>5, <1>6, <1>7 DEF Shown
<1>8. CASE on # {} /\ s.direct
  BY <1>6, <1>8
<1>9. CASE on # {} /\ ~s.direct
  <2>1. on = {1} /\ x \in Area(s.windows[1])
    BY <1>3, <1>9
  <2>2. s.windows[1] = "topbar"
    BY <1>2, <1>9
  <2> HIDE DEF on
  <2>3. (CHOOSE i \in on : \A k \in on : k <= i) = 1
    BY <2>1
  <2>4. back'[x].w = "topbar"
    <3>1. Frontmost(s.windows, on) = "topbar"
      BY <2>2, <2>3 DEF Frontmost
    <3>2. back'[x] = [w |-> Frontmost(s.windows, on), direct |-> s.direct]
      BY <1>6, <1>9
    <3>3. back'[x].w = Frontmost(s.windows, on)
      BY <3>2
    <3> QED BY <3>1, <3>3
  <2>5. reg \in Registry /\ panel \in Panel
    BY DEF WindowsOK, Good
  <2>6. Top(x, reg, panel) = "topbar"
    BY <2>1, <2>2, <2>5, BarOnTop
  <2> QED BY <2>4, <2>6
<1> QED BY <1>7, <1>8, <1>9

\* A step of a call.
LEMMA StepDesk ==
    ASSUME ScreenInv, WindowsOK, SceneOK, NEW t \in Painters, PaintStep(t)
    PROVE  WindowsOK' /\ SceneOK'
<1> DEFINE j == job[t]
           s == Head(job[t])
           g == job["gui"]
<1>1. /\ JobsOK /\ j \in Jobs /\ Shape(t, j) /\ j # <<>> /\ 1 \in DOMAIN j /\ s = j[1]
      /\ Tail(j) \in Jobs /\ "gui" \in Painters /\ g \in Jobs /\ job \in [Painters -> Jobs]
  <2>1. JobsOK /\ j # <<>> /\ j \in Jobs /\ Shape(t, j) /\ "gui" \in Painters /\ g \in Jobs
    BY Consts DEF ScreenInv, JobsOK, PaintStep, ScreenStep
  <2> QED BY <2>1, JobFacts, TailFacts DEF JobsOK
<1>2. Paint(t, s) \/ Damage(t, s) \/ Take(t, s) \/ BeginUpdate(t, s) \/ BlitDamage(t, s) \/ EndUpdate(t, s)
  BY DEF PaintStep, ScreenStep
<1>3. UNCHANGED deskVars /\ UNCHANGED gui
  BY DEF PaintStep
<1>4. t = "gui" => gui # "pop"
  BY <1>1 DEF WindowsOK
<1>5. s.op \in Ops /\ s.op # "spawn"
  <2>1. s.op \in Ops
    BY <1>1, JobFacts DEF StepType
  <2> QED BY <1>2, <2>1 DEF Paint, Damage, Take, BeginUpdate, BlitDamage, EndUpdate
<1> HIDE DEF j, s, g
<1>6. ASSUME s.op # "scene" PROVE Shown => Shown'
  <2>1. CASE Paint(t, s)
    <3>1. s.op = "paint"
      BY <1>6, <2>1 DEF Paint
    <3> QED BY <1>1, <1>3, <2>1, <3>1, PaintShown DEF s, j
  <2>2. CASE ~Paint(t, s)
    <3>1. UNCHANGED back
      BY <1>2, <2>2 DEF Damage, Take, BeginUpdate, BlitDamage, EndUpdate
    <3> QED BY <1>3, <3>1, ShownSame
  <2> QED BY <2>1, <2>2
<1>7. ASSUME s.op # "scene" PROVE Later(j, job'[t])
  <2>1. Later(j, Tail(j))
    BY <1>1, <1>5, <1>7, TailLater DEF Later
  <2>2. CASE Take(t, s)
    <3> DEFINE u == IF damage = NoDamage THEN <<>> ELSE UpdateSteps(Damaged(damage))
    <3>1. job'[t] = u \o Tail(j)
      BY <1>1, <2>2 DEF Take, UpdateSteps, j
    <3>2. u \in Jobs /\ NoOp(u, "scene")
      <4>1. CASE damage = NoDamage
        BY <4>1, NoCall DEF Call
      <4>2. CASE damage # NoDamage
        <5>1. Damaged(damage) \in SUBSET Places
          BY InDamage DEF ScreenInv, DamageOK
        <5> DEFINE a == Plain("begin")
                   b == Blit(Damaged(damage))
                   c == Plain("end")
        <5>2. /\ a \in StepType /\ a.op = "begin" /\ c \in StepType /\ c.op = "end"
          BY PlainFacts DEF Ops
        <5>3. b \in StepType /\ b.op = "blit"
          <6>1. Plain("blit") \in StepType /\ Plain("blit").op = "blit"
            BY PlainFacts DEF Ops
          <6> QED BY <5>1, <6>1 DEF Blit, StepType
        <5>4. u = <<a, b, c>>
          BY <4>2 DEF UpdateSteps
        <5> HIDE DEF a, b, c, u
        <5>5. u \in Jobs /\ DOMAIN u = 1..3 /\ u[1] = a /\ u[2] = b /\ u[3] = c
          BY <5>2, <5>3, <5>4, ThreeSteps DEF Jobs
        <5>6. \A i \in DOMAIN u : i = 1 \/ i = 2 \/ i = 3
          BY <5>5
        <5> QED BY <5>2, <5>3, <5>5, <5>6 DEF NoOp
      <4> QED BY <4>1, <4>2
    <3> HIDE DEF u
    <3>3. Later(Tail(j), u \o Tail(j))
      BY <1>1, <3>2, ConcatLater
    <3> QED BY <2>1, <3>1, <3>3 DEF Later
  <2>3. CASE ~Take(t, s)
    <3>1. job'[t] = Tail(j)
      BY <1>1, <1>2, <2>3 DEF Paint, Damage, BeginUpdate, BlitDamage, EndUpdate, j
    <3> QED BY <2>1, <3>1
  <2> QED BY <2>2, <2>3
<1>8. CASE t # "gui"
  <2>1. job'["gui"] = g
    BY <1>1, <1>2, <1>8 DEF Paint, Damage, Take, BeginUpdate, BlitDamage, EndUpdate, g
  <2>2. s.op # "scene"
    BY <1>1, <1>8 DEF Shape, Neighbours
  <2>3. Later(g, job'["gui"]) /\ (gui' = "pop" => job'["gui"] = <<>>)
    BY <1>3, <2>1, LaterSame DEF WindowsOK, g
  <2> QED BY <1>3, <1>6, <2>2, <2>3, DeskLater DEF g
<1>9. CASE t = "gui" /\ s.op # "scene"
  <2>1. Later(g, job'["gui"])
    BY <1>7, <1>9 DEF g, j
  <2> QED BY <1>3, <1>4, <1>6, <1>9, <2>1, DeskLater DEF g
<1>10. CASE t = "gui" /\ s.op = "scene"
  <2>1. /\ Paint(t, s) /\ job'["gui"] = Tail(j)
        /\ back' = [p \in Places |-> PaintedOver(p, [w |-> "desktop", direct |-> FALSE], s.windows, FALSE)]
    BY <1>1, <1>2, <1>10 DEF Paint, Damage, Take, BeginUpdate, BlitDamage, EndUpdate, j
  <2>2. WindowsOK'
    <3>1. \A w : Starts(g, w) => Starts(job'["gui"], w)
      BY <1>1, <1>5, <1>10, <2>1, TailLater DEF g, j
    <3>2. gui' # "pop"
      BY <1>3, <1>4, <1>10
    <3> QED BY <1>3, <3>1, <3>2 DEF WindowsOK, deskVars, g
  <2>3. WillShow(j, Scene(reg, panel))
    <3>1. ~NoOp(j, "scene")
      BY <1>1, <1>10 DEF NoOp
    <3> QED BY <1>10, <3>1 DEF SceneOK, j
  <2>4. \/ WillShow(Tail(j), Scene(reg, panel))
        \/ s.windows = Scene(reg, panel) /\ NoOp(Tail(j), "scene")
    BY <1>1, <2>3, TailLater
  <2>5. CASE WillShow(Tail(j), Scene(reg, panel))
    BY <1>3, <2>1, <2>2, <2>5 DEF SceneOK, deskVars
  <2>6. CASE s.windows = Scene(reg, panel) /\ NoOp(Tail(j), "scene")
    <3>1. reg \in Registry /\ panel \in Panel
      BY DEF WindowsOK, Good
    <3>2. ASSUME NEW x \in Places PROVE back'[x].w = Top(x, reg, panel)
      BY <2>1, <2>6, <3>1, RenderedTop
    <3>3. Shown'
      BY <1>3, <3>2 DEF Shown, deskVars
    <3> QED BY <2>1, <2>2, <2>6, <3>3 DEF SceneOK
  <2> QED BY <2>2, <2>4, <2>5, <2>6
<1> QED BY <1>8, <1>9, <1>10

-----------------------------------------------------------------------------
(* What the GUI task is told to do.                                        *)
\* The answer to an event: a call that shows the windows and bars there are now, unless
\* the scene is as it was, and starts what was added to them.
Answers(k, r, p) ==
    /\ Call("gui", k) /\ Good(r) /\ p \in Panel
    /\ \/ WillShow(k, Scene(r, p))
       \/ NoOp(k, "scene") /\ Scene(r, p) = Scene(reg, panel)
    /\ \A w \in ToSet(r.order) : w \in ToSet(reg.order) \/ Starts(k, w)

LEMMA AnswerHolds ==
    ASSUME InputInv', ScreenInv, WindowsOK, SceneOK, gui = "pop", gui' = "wait",
           NEW k, GuiDoes(k), Answers(k, reg', panel'), UNCHANGED <<back, front, damage, cursor, shells>>
    PROVE  DesktopInv'
<1>1. job["gui"] = <<>> /\ "gui" \in Painters /\ job' = [job EXCEPT !["gui"] = k]
  BY Consts DEF WindowsOK, GuiDoes
<1>2. job'["gui"] = k
  BY <1>1 DEF ScreenInv, JobsOK
<1>3. ScreenInv'
  <2>1. Calm(job["gui"]) /\ PendingOf(job["gui"]) = {}
    BY <1>1, NoCall DEF Call
  <2> QED BY <1>1, <2>1, NewCall DEF Answers, Call
<1>4. ~WillShow(<<>>, Scene(reg, panel)) /\ \A w : ~Starts(<<>>, w)
  BY DEF WillShow, Starts
<1>5. Shown
  BY <1>1, <1>4 DEF SceneOK
<1>6. WindowsOK'
  BY <1>1, <1>2, <1>4 DEF WindowsOK, Answers
<1>7. SceneOK'
  <2>1. CASE WillShow(k, Scene(reg', panel'))
    BY <1>2, <2>1 DEF SceneOK
  <2>2. CASE NoOp(k, "scene") /\ Scene(reg', panel') = Scene(reg, panel)
    <3>1. \A x : Top(x, reg', panel') = Top(x, reg, panel)
      BY <2>2 DEF Top
    <3>2. Shown'
      BY <1>5, <3>1 DEF Shown
    <3> QED BY <1>2, <2>2, <3>2 DEF SceneOK
  <2> QED BY <2>1, <2>2 DEF Answers
<1> QED BY <1>3, <1>6, <1>7 DEF DesktopInv

\* A call that renders the scene of r and p, and one that does nothing.
LEMMA RenderAnswers ==
    ASSUME NEW r \in Registry, NEW p \in Panel
    PROVE  /\ Call("gui", Render(r, p)) /\ NoOp(Render(r, p), "spawn") /\ WillShow(Render(r, p), Scene(r, p))
<1>1. Scene(r, p) \in Seq(DOMAIN Bounds)
  BY SceneFacts
<1> QED BY <1>1, RenderCall DEF Render

LEMMA SamePopup ==
    ASSUME NEW r, NEW p, NEW q, p.popup = q.popup PROVE Scene(r, p) = Scene(r, q)
BY DEF Scene

\* What a bar that answered leaves to do before anything else.
First(render, r, p) == IF render THEN Render(r, p) ELSE <<>>

LEMMA FirstAnswers ==
    ASSUME WindowsOK, NEW p \in Panel, NEW render \in BOOLEAN, ~render => p.popup = panel.popup
    PROVE  Answers(First(render, reg, p), reg, p) /\ NoOp(First(render, reg, p), "spawn")
<1>1. reg \in Registry /\ Good(reg)
  BY DEF WindowsOK, Good
<1>2. CASE render
  BY <1>1, <1>2, RenderAnswers DEF Answers, First
<1>3. CASE ~render
  <2>1. Scene(reg, p) = Scene(reg, panel)
    BY <1>3, SamePopup
  <2> QED BY <1>1, <1>3, <2>1, NoCall DEF Answers, First
<1> QED BY <1>2, <1>3

\* The registry changes after it: another render.
LEMMA ThenRender ==
    ASSUME WindowsOK, NEW p \in Panel, NEW j, Call("gui", j), NoOp(j, "spawn"),
           NEW r, Good(r), ToSet(r.order) \subseteq ToSet(reg.order)
    PROVE  Answers(j \o Render(r, p), r, p)
<1>1. r \in Registry
  BY DEF Good
<1> QED BY <1>1, RenderAnswers, CallAfter DEF Answers

LEMMA ThenNothing ==
    ASSUME NEW j, NEW r, NEW p, Answers(j, r, p) PROVE Answers(j \o <<>>, r, p)
<1>1. j \in Jobs
  BY DEF Answers, Call
<1>2. j \o <<>> = j
  BY <1>1, NoCall
<1> QED BY <1>2

LEMMA ChangedAnswers ==
    ASSUME WindowsOK, NEW p \in Panel, NEW j, Answers(j, reg, p), NoOp(j, "spawn"),
           NEW r, Good(r), ToSet(r.order) = ToSet(reg.order)
    PROVE  Answers(j \o RenderIfChanged(r, p), r, p)
<1>1. CASE r = reg
  BY <1>1, ThenNothing DEF RenderIfChanged
<1>2. CASE r # reg
  BY <1>2, ThenRender DEF RenderIfChanged, Answers
<1> QED BY <1>1, <1>2

\* A window is registered, brought to the front and rendered, and its shell started.
LEMMA LaunchAnswers ==
    ASSUME WindowsOK, NEW p \in Panel, NEW j, Answers(j, reg, p), NoOp(j, "spawn"),
           NEW w \in ToSet(Terminals), w \notin ToSet(reg.order)
    PROVE  LET added == gui_window_registry_add(reg, w)
               r == gui_window_focus(added, w)
           IN  /\ gui_window_registry_remove(added, w) = reg
               /\ Answers(j \o Render(r, p) \o <<Spawn(w)>>, r, p)
<1> DEFINE added == gui_window_registry_add(reg, w)
           r == gui_window_focus(added, w)
           a == j \o Render(r, p)
           k == <<Spawn(w)>>
<1>1. Good(reg) /\ w \in Titles
  BY DEF WindowsOK, Titles
<1>2. /\ Good(added) /\ ToSet(added.order) = ToSet(reg.order) \cup {w}
      /\ gui_window_registry_remove(added, w) = reg
  BY <1>1, AddGood
<1> HIDE DEF added
<1>3. Good(r) /\ ToSet(r.order) = ToSet(reg.order) \cup {w}
  BY <1>2, FocusedGood
<1>4. r \in Registry
  BY <1>3 DEF Good
<1> HIDE DEF r
<1>5. /\ Call("gui", Render(r, p)) /\ NoOp(Render(r, p), "spawn") /\ WillShow(Render(r, p), Scene(r, p))
  BY <1>4, RenderAnswers
<1>6. Call("gui", j)
  BY DEF Answers
<1>7. Call("gui", a) /\ NoOp(a, "spawn") /\ WillShow(a, Scene(r, p))
  BY <1>5, <1>6, CallAfter
<1> HIDE DEF a
<1>8. Call("gui", k) /\ NoOp(k, "scene") /\ DOMAIN k = {1} /\ k[1].op = "spawn" /\ k[1].windows[1] = w
  BY SpawnCall
<1> HIDE DEF k
<1>9. Call("gui", a \o k) /\ WillShow(a \o k, Scene(r, p))
  BY <1>7, <1>8, CallAfter
<1>10. Starts(a \o k, w)
  <2>1. a \in Jobs /\ k \in Jobs /\ 1 \in DOMAIN k
    BY <1>7, <1>8 DEF Call
  <2>2. Len(a) + 1 \in DOMAIN (a \o k) /\ (a \o k)[Len(a) + 1] = k[1]
    BY <2>1, ConcatFacts
  <2> QED BY <1>8, <2>2 DEF Starts
<1>11. Answers(a \o k, r, p)
  BY <1>3, <1>9, <1>10 DEF Answers
<1> QED BY <1>2, <1>11 DEF a, k, r, added

LEMMA LaunchHolds ==
    ASSUME WindowsOK, gui = "pop", NEW p \in Panel, NEW j, Answers(j, reg, p), NoOp(j, "spawn"),
           gui_terminal_session_launch(j, p)
    PROVE  \E k : GuiDoes(k) /\ Answers(k, reg', p)
<1>1. CASE reg' = reg /\ GuiDoes(j)
  BY <1>1
<1>2. ASSUME NEW w \in FreeSession(reg, shells),
             LET added == gui_window_registry_add(reg, w)
             IN  \/ reg' = gui_window_registry_remove(added, w) /\ GuiDoes(j)
                 \/ /\ reg' = gui_window_focus(added, w)
                    /\ GuiDoes(j \o Render(reg', p) \o <<Spawn(w)>>)
      PROVE  \E k : GuiDoes(k) /\ Answers(k, reg', p)
  <2>1. w \in ToSet(Terminals) /\ w \notin shells
    BY DEF FreeSession, ToSet
  <2>2. w \notin ToSet(reg.order)
    <3>1. w # "test"
      BY <2>1, DesktopAssumption
    <3>2. ~Starts(job["gui"], w)
      BY DEF WindowsOK, Starts
    <3> QED BY <2>1, <3>1, <3>2 DEF WindowsOK
  <2> DEFINE added == gui_window_registry_add(reg, w)
             r == gui_window_focus(added, w)
  <2>3. /\ gui_window_registry_remove(added, w) = reg
        /\ Answers(j \o Render(r, p) \o <<Spawn(w)>>, r, p)
    BY <2>1, <2>2, LaunchAnswers
  <2>4. \/ reg' = gui_window_registry_remove(added, w) /\ GuiDoes(j)
        \/ reg' = r /\ GuiDoes(j \o Render(reg', p) \o <<Spawn(w)>>)
    BY <1>2
  <2> HIDE DEF added, r
  <2>5. CASE reg' = gui_window_registry_remove(added, w) /\ GuiDoes(j)
    BY <2>3, <2>5
  <2>6. CASE reg' = r /\ GuiDoes(j \o Render(reg', p) \o <<Spawn(w)>>)
    BY <2>3, <2>6
  <2> QED BY <2>4, <2>5, <2>6
<1> QED BY <1>1, <1>2 DEF gui_terminal_session_launch

\* The keys.
LEMMA KeyboardAnswers ==
    ASSUME WindowsOK, gui = "pop", NEW e, dispatch_keyboard(e)
    PROVE  \E k : GuiDoes(k) /\ Answers(k, reg', panel')
<1>1. panel' = panel /\ panel \in Panel /\ Good(reg)
  BY DEF dispatch_keyboard, WindowsOK
<1>2. Answers(<<>>, reg, panel) /\ NoOp(<<>>, "spawn")
  <2>1. First(FALSE, reg, panel) = <<>>
    BY DEF First
  <2> QED BY <1>1, <2>1, FirstAnswers
<1>3. ASSUME NEW r, Good(r), ToSet(r.order) = ToSet(reg.order), reg' = r, GuiDoes(RenderIfChanged(r, panel))
      PROVE  \E k : GuiDoes(k) /\ Answers(k, reg', panel')
  <2>1. Answers(<<>> \o RenderIfChanged(r, panel), r, panel)
    BY <1>1, <1>2, <1>3, ChangedAnswers
  <2>2. RenderIfChanged(r, panel) \in Jobs
    <3>1. r \in Registry
      BY <1>3 DEF Good
    <3> QED BY <1>1, <3>1, RenderAnswers, NoCall DEF RenderIfChanged, Call
  <2>3. Answers(RenderIfChanged(r, panel), r, panel)
    BY <2>1, <2>2, NoCall
  <2> QED BY <1>1, <1>3, <2>3
<1>4. CASE reg' = focus_next(reg) /\ GuiDoes(RenderIfChanged(reg', panel))
  BY <1>1, <1>3, <1>4, NextGood
<1>5. CASE reg' = focus_previous(reg) /\ GuiDoes(RenderIfChanged(reg', panel))
  BY <1>1, <1>3, <1>5, NextGood
<1>6. CASE reg' = reg /\ GuiDoes(IF reg.active \in shells THEN gui_terminal_present(reg.active) ELSE <<>>)
  <2>1. CASE reg.active \notin shells
    BY <1>1, <1>2, <1>6, <2>1
  <2>2. CASE reg.active \in shells
    <3> DEFINE k == gui_terminal_present(reg.active)
    <3>1. reg.active \in DOMAIN Bounds
      BY <2>2, Consts DEF WindowsOK, Titles
    <3>2. Call("gui", k) /\ NoOp(k, "scene")
      BY <3>1, CompositeCall DEF gui_terminal_present
    <3> HIDE DEF k
    <3>3. Answers(k, reg, panel)
      BY <1>1, <3>2 DEF Answers
    <3>4. GuiDoes(k)
      BY <1>6, <2>2 DEF k
    <3> QED BY <1>1, <1>6, <3>3, <3>4
  <2> QED BY <2>1, <2>2
<1> QED BY <1>4, <1>5, <1>6 DEF dispatch_keyboard

\* The pointer.
LEMMA MouseAnswers ==
    ASSUME WindowsOK, gui = "pop", NEW e, dispatch_mouse(e)
    PROVE  \E k : GuiDoes(k) /\ Answers(k, reg', panel')
<1> DEFINE at == WindowsAt(e.x)
           bar == gui_topbar_handle_pointer(panel, e, at)
           p == bar.panel
           first == IF bar.render THEN Render(reg, p) ELSE <<>>
<1>1. panel' = p /\ p \in Panel /\ (~bar.render => p.popup = panel.popup) /\ Good(reg)
  <2>1. panel \in Panel /\ Good(reg)
    BY DEF WindowsOK
  <2>2. panel' = p
    BY DEF dispatch_mouse
  <2> QED BY <2>1, <2>2, PanelKept
<1>2. \/ gui_terminal_session_launch(first, p)
      \/ /\ reg' = focus_at_point(reg, at)
         /\ GuiDoes(first \o RenderIfChanged(reg', p))
      \/ reg' = reg /\ GuiDoes(first)
  BY DEF dispatch_mouse
<1> HIDE DEF p, at
<1>3. Answers(first, reg, p) /\ NoOp(first, "spawn")
  <2>1. CASE bar.render
    <3>1. first = First(TRUE, reg, p)
      BY <2>1 DEF First
    <3> QED BY <1>1, <3>1, FirstAnswers
  <2>2. CASE ~bar.render
    <3>1. first = First(FALSE, reg, p)
      BY <2>2 DEF First
    <3> QED BY <1>1, <2>2, <3>1, FirstAnswers
  <2> QED BY <2>1, <2>2
<1> HIDE DEF first, bar
<1>4. CASE gui_terminal_session_launch(first, p)
  BY <1>1, <1>3, <1>4, LaunchHolds
<1>5. CASE reg' = focus_at_point(reg, at) /\ GuiDoes(first \o RenderIfChanged(reg', p))
  <2>1. Good(reg') /\ ToSet(reg'.order) = ToSet(reg.order)
    BY <1>1, <1>5, PointGood
  <2>2. Answers(first \o RenderIfChanged(reg', p), reg', p)
    BY <1>1, <1>3, <2>1, ChangedAnswers
  <2> QED BY <1>1, <1>5, <2>2
<1>6. CASE reg' = reg /\ GuiDoes(first)
  BY <1>1, <1>3, <1>6
<1> QED BY <1>2, <1>4, <1>5, <1>6

-----------------------------------------------------------------------------
(* The actions.                                                            *)
\* The windows, the scene and the GUI task's call are not touched.
LEMMA DeskSame ==
    ASSUME WindowsOK, SceneOK, UNCHANGED <<back, deskVars>>, job'["gui"] = job["gui"],
           gui' = "pop" => gui = "pop" \/ job["gui"] = <<>>
    PROVE  WindowsOK' /\ SceneOK'
<1>1. Later(job["gui"], job'["gui"])
  BY LaterSame
<1>2. gui' = "pop" => job'["gui"] = <<>>
  BY DEF WindowsOK
<1> QED BY <1>1, <1>2, ShownSame, DeskLater

LEMMA PacketDesk ==
    ASSUME DesktopInv, NEW k \in budget.menu, mouse_interrupt_handler(k) PROVE DesktopInv'
<1>1. UNCHANGED <<screenVars, gui, deskVars>>
  BY DEF mouse_interrupt_handler
<1>2. ScreenInv'
  BY <1>1, SameScreen DEF DesktopInv, screenVars
<1>3. WindowsOK' /\ SceneOK'
  BY <1>1, DeskSame DEF DesktopInv, screenVars
<1>4. InputInv'
  BY PacketInput DEF DesktopInv
<1> QED BY <1>2, <1>3, <1>4 DEF DesktopInv

LEMMA KeyDesk ==
    ASSUME DesktopInv, NEW k \in {"next", "previous", "page"}, KeyInterrupt(k) PROVE DesktopInv'
<1>1. UNCHANGED <<screenVars, gui, deskVars>>
  BY DEF KeyInterrupt
<1>2. ScreenInv'
  BY <1>1, SameScreen DEF DesktopInv, screenVars
<1>3. WindowsOK' /\ SceneOK'
  BY <1>1, DeskSame DEF DesktopInv, screenVars
<1>4. InputInv'
  BY KeyInput DEF DesktopInv
<1> QED BY <1>2, <1>3, <1>4 DEF DesktopInv

LEMMA PollDesk ==
    ASSUME DesktopInv, PollTask PROVE DesktopInv'
<1>1. UNCHANGED <<back, damage, job, gui, deskVars>>
  BY DEF PollTask, PollRead, PollEmpty, PollMove, PollPublish, PollSignal, Publish, screenVars
<1>2. ScreenInv'
  <2>1. CASE PollMove
    <3>1. Cursor(LAMBDA s : apply_movement_locked(s, poll.dx)) /\ poll.dx \in Int
      BY <2>1 DEF PollMove, DesktopInv, InputInv, InputTypes
    <3> QED BY <1>1, <3>1, MoveHolds DEF DesktopInv
  <2>2. CASE ~PollMove
    <3>1. UNCHANGED <<front, cursor>>
      BY <2>2 DEF PollTask, PollRead, PollEmpty, PollPublish, PollSignal, Publish, screenVars
    <3> QED BY <1>1, <3>1, SameScreen DEF DesktopInv
  <2> QED BY <2>1, <2>2
<1>3. WindowsOK' /\ SceneOK'
  BY <1>1, DeskSame DEF DesktopInv
<1>4. InputInv'
  BY PollInput DEF DesktopInv, ScreenInv, PointerOK
<1> QED BY <1>2, <1>3, <1>4 DEF DesktopInv

LEMMA WaitDesk ==
    ASSUME DesktopInv, GuiWait PROVE DesktopInv'
<1>1. UNCHANGED <<screenVars, deskVars>> /\ job["gui"] = <<>>
  BY DEF GuiWait
<1>2. ScreenInv'
  BY <1>1, SameScreen DEF DesktopInv, screenVars
<1>3. WindowsOK' /\ SceneOK'
  BY <1>1, DeskSame DEF DesktopInv, screenVars
<1>4. InputInv'
  BY GuiInput DEF DesktopInv
<1> QED BY <1>2, <1>3, <1>4 DEF DesktopInv

LEMMA DispatchDesk ==
    ASSUME DesktopInv, GuiDispatch PROVE DesktopInv'
<1>1. InputInv'
  BY GuiInput DEF DesktopInv
<1>2. gui = "pop" /\ gui' = "wait" /\ UNCHANGED <<back, front, damage, cursor, shells>>
  BY DEF GuiDispatch
<1>3. dispatch_keyboard(Head(queue)) \/ dispatch_mouse(Head(queue))
  BY DEF GuiDispatch
<1>4. \E k : GuiDoes(k) /\ Answers(k, reg', panel')
  BY <1>2, <1>3, KeyboardAnswers, MouseAnswers DEF DesktopInv
<1> QED BY <1>1, <1>2, <1>4, AnswerHolds DEF DesktopInv

LEMMA StartDesk ==
    ASSUME DesktopInv, NEW t \in {"clock"} \cup ToSet(Terminals), NEW k, Call(t, k), StartPaint(t, k)
    PROVE  DesktopInv'
<1>1. /\ t \in Painters /\ t # "gui" /\ job[t] = <<>> /\ job' = [job EXCEPT ![t] = k]
      /\ UNCHANGED <<back, front, damage, cursor, inputVars, gui, deskVars>>
      /\ budget' = [budget EXCEPT !.paints = @ - 1] /\ "gui" \in Painters
  BY Consts, DesktopAssumption DEF StartPaint
<1>2. InputInv'
  <2>1. budget \in Budget
    BY DEF DesktopInv, InputInv, InputTypes
  <2>2. budget' \in Budget
    BY <1>1, <2>1 DEF Budget
  <2> QED BY <1>1, <2>2, InputSame DEF DesktopInv
<1>3. ScreenInv'
  <2>1. Calm(job[t]) /\ PendingOf(job[t]) = {}
    BY <1>1, NoCall DEF Call
  <2> QED BY <1>1, <2>1, NewCall DEF DesktopInv, Call
<1>4. job'["gui"] = job["gui"]
  BY <1>1 DEF DesktopInv, ScreenInv, JobsOK
<1>5. WindowsOK' /\ SceneOK'
  BY <1>1, <1>4, DeskSame DEF DesktopInv
<1> QED BY <1>2, <1>3, <1>5 DEF DesktopInv

LEMMA ClockDesk ==
    ASSUME DesktopInv, ClockTick PROVE DesktopInv'
<1>1. Call("clock", ClockRefresh)
  <2>1. "topbar" \in DOMAIN Bounds
    BY Consts
  <2> QED BY <2>1, CompositeCall DEF ClockRefresh
<1> QED BY <1>1, StartDesk DEF ClockTick

LEMMA ShellDesk ==
    ASSUME DesktopInv, NEW w \in ToSet(Terminals), ShellWrites(w) PROVE DesktopInv'
<1>1. Call(w, gui_terminal_present(w))
  <2>1. w \in DOMAIN Bounds
    BY Consts DEF Titles
  <2> QED BY <2>1, CompositeCall DEF gui_terminal_present
<1> QED BY <1>1, StartDesk DEF ShellWrites

LEMMA PaintDesk ==
    ASSUME DesktopInv, NEW t \in Painters, PaintStep(t) PROVE DesktopInv'
<1>1. InputInv'
  <2>1. UNCHANGED <<inputVars, gui>> /\ budget' \in Budget
    BY DEF PaintStep, DesktopInv, InputInv, InputTypes
  <2> QED BY <2>1, InputSame DEF DesktopInv
<1>2. ScreenInv'
  BY ScreenStepHolds DEF DesktopInv, PaintStep
<1>3. WindowsOK' /\ SceneOK'
  BY StepDesk DEF DesktopInv
<1> QED BY <1>1, <1>2, <1>3 DEF DesktopInv

\* The shell starts, or its window goes again: the last step of the call either way.
LEMMA SpawnDesk ==
    ASSUME DesktopInv, GuiSpawn PROVE DesktopInv'
<1> DEFINE j == job["gui"]
           w == Head(j).windows[1]
<1>1. /\ j \in Jobs /\ Shape("gui", j) /\ j # <<>> /\ 1 \in DOMAIN j /\ Head(j) = j[1]
      /\ j[1].op = "spawn" /\ j[1].windows[1] = w /\ Tail(j) \in Jobs /\ "gui" \in Painters
      /\ DOMAIN j = 1..Len(j) /\ Len(j) \in Nat
  <2>1. j \in Jobs /\ Shape("gui", j) /\ j # <<>> /\ Head(j).op = "spawn" /\ "gui" \in Painters
    BY Consts DEF DesktopInv, ScreenInv, JobsOK, GuiSpawn
  <2> QED BY <2>1, JobFacts, TailFacts
<1>2. /\ UNCHANGED <<back, front, damage, cursor, inputVars, gui, panel, budget>> /\ gui # "pop"
  BY <1>1 DEF GuiSpawn, DesktopInv, WindowsOK
<1>3. \/ shells' = shells \cup {w} /\ reg' = reg /\ job' = [job EXCEPT !["gui"] = Tail(j)]
      \/ /\ shells' = shells /\ reg' = gui_window_registry_remove(reg, w)
         /\ job' = [job EXCEPT !["gui"] = Render(reg', panel)]
  BY DEF GuiSpawn, GuiDoes
<1> HIDE DEF j, w
<1>4. /\ w \in ToSet(Terminals) /\ Len(j) = 1 /\ j[1].at = {} /\ \A i \in DOMAIN j : i = 1
  <2>1. Neighbours("gui", j, 1)
    BY <1>1 DEF Shape
  <2>2. w \in ToSet(Terminals) /\ Len(j) = 1 /\ j[1].at = {}
    BY <1>1, <2>1 DEF Neighbours
  <2> QED BY <1>1, <2>2
<1>5. /\ Calm(j) /\ PendingOf(j) = {} /\ NoOp(j, "scene")
      /\ \A windows : ~WillShow(j, windows)
      /\ \A v : Starts(j, v) => v = w
  <2>1. Calm(j) /\ NoOp(j, "scene")
    BY <1>1, <1>4 DEF Calm, NoOp, UpdateOps
  <2>2. Due(j[1]) = {}
    BY <1>1, <1>4 DEF Due
  <2>3. PendingOf(j) = {}
    BY <1>4, <2>2 DEF PendingOf
  <2> QED BY <1>1, <1>4, <2>1, <2>3 DEF WillShow, NoOp, Starts
<1>6. Shown /\ Good(reg) /\ reg \in Registry /\ panel \in Panel
  BY <1>5 DEF DesktopInv, SceneOK, WindowsOK, Good, j
<1>7. \A v \in ToSet(reg.order) : v = "test" \/ v \in shells \/ v = w
  BY <1>5 DEF DesktopInv, WindowsOK, j
<1>8. InputInv'
  BY <1>2, InputSame DEF DesktopInv, InputInv, InputTypes
<1>9. ASSUME NEW k, Call("gui", k), job' = [job EXCEPT !["gui"] = k] PROVE ScreenInv' /\ job'["gui"] = k
  <2>1. job'["gui"] = k
    BY <1>1, <1>9 DEF DesktopInv, ScreenInv, JobsOK
  <2> QED BY <1>1, <1>2, <1>5, <1>9, <2>1, NewCall DEF DesktopInv, Call, j
<1>10. CASE shells' = shells \cup {w} /\ reg' = reg /\ job' = [job EXCEPT !["gui"] = Tail(j)]
  <2>1. Call("gui", Tail(j)) /\ NoOp(Tail(j), "scene")
    <3>1. Shape("gui", Tail(j)) /\ Calm(Tail(j))
      BY <1>1, TailShape, Updates
    <3>2. NoOp(Tail(j), "scene")
      BY <1>1, <1>5, TailLater
    <3> QED BY <1>1, <3>1, <3>2 DEF Call
  <2>2. ScreenInv' /\ job'["gui"] = Tail(j)
    BY <1>9, <1>10, <2>1
  <2>3. WindowsOK'
    BY <1>2, <1>4, <1>6, <1>7, <1>10 DEF DesktopInv, WindowsOK
  <2>4. SceneOK'
    <3>1. Shown'
      BY <1>2, <1>6, <1>10 DEF Shown
    <3> QED BY <2>1, <2>2, <3>1 DEF SceneOK
  <2> QED BY <1>8, <2>2, <2>3, <2>4 DEF DesktopInv
<1>11. CASE /\ shells' = shells /\ reg' = gui_window_registry_remove(reg, w)
            /\ job' = [job EXCEPT !["gui"] = Render(reg', panel)]
  <2>1. Good(reg') /\ ToSet(reg'.order) = ToSet(reg.order) \ {w} /\ reg' \in Registry
    BY <1>6, <1>11, RegistryRemoveGood DEF Good
  <2>2. Call("gui", Render(reg', panel)) /\ WillShow(Render(reg', panel), Scene(reg', panel))
    BY <1>6, <2>1, RenderAnswers
  <2>3. ScreenInv' /\ job'["gui"] = Render(reg', panel)
    BY <1>9, <1>11, <2>2
  <2>4. WindowsOK'
    BY <1>2, <1>6, <1>7, <1>11, <2>1 DEF DesktopInv, WindowsOK
  <2>5. SceneOK'
    BY <1>2, <2>2, <2>3 DEF SceneOK
  <2> QED BY <1>8, <2>3, <2>4, <2>5 DEF DesktopInv
<1> QED BY <1>3, <1>10, <1>11

-----------------------------------------------------------------------------
(* The invariant.                                                          *)
LEMMA InitInput == ASSUME Init PROVE InputInv
<1>1. budget \in Budget
  BY DesktopAssumption DEF Init, Budget
<1>2. NoEvent \in GuiEvent
  BY DEF NoEvent, GuiEvent, Kinds
<1>3. InputTypes
  BY <1>1, <1>2 DEF Init, InputTypes
<1>4. PermitsExact
  BY DEF Init, PermitsExact
<1> QED BY <1>3, <1>4 DEF InputInv

LEMMA InitScreen == ASSUME Init PROVE ScreenInv
<1> DEFINE c0 == [x |-> Width \div 2, visible |-> FALSE, updates |-> 0, backing |-> Nothing]
           f0 == [p \in Places |-> "fresh"]
           s0 == [c |-> c0, f |-> f0]
<1>1. Now = draw_locked(s0) /\ damage = NoDamage /\ job = [t \in Painters |-> <<>>]
  <2>1. \E s \in {draw_locked(s0)} : cursor = s.c /\ front = s.f
    BY DEF Init
  <2> HIDE DEF s0
  <2>2. cursor = draw_locked(s0).c /\ front = draw_locked(s0).f
    BY <2>1
  <2>3. draw_locked(s0) = [c |-> draw_locked(s0).c, f |-> draw_locked(s0).f]
    BY DEF draw_locked, s0
  <2> QED BY <2>2, <2>3 DEF Now, Init
<1>2. c0 \in CursorType
  <2>1. Width \div 2 \in Places
    BY Consts DEF Places
  <2>2. Nothing \in Saved
    BY SavedType DEF Nothing
  <2> QED BY <2>1, <2>2 DEF CursorType
<1>3. f0 \in [Places -> Shades]
  BY DEF Shades
<1>4. /\ c0.visible = FALSE /\ c0.updates = 0 /\ DOMAIN c0.backing = {} /\ c0.x = Width \div 2
      /\ \A p \in Places : f0[p] = "fresh"
  BY DEF Nothing
<1> HIDE DEF c0, f0
<1>5. s0 \in Pointer /\ Drawn(s0) /\ ~s0.c.visible /\ s0.c.updates = 0
  BY <1>2, <1>3, <1>4 DEF Pointer, Drawn
<1>6. \A p \in Places : p \notin OldIn(s0)
  BY <1>4, InOld
<1> HIDE DEF s0
<1>7. Now \in Pointer /\ Drawn(Now) /\ Now.c.visible /\ Now.c.updates = 0 /\ OldIn(Now) = {}
  <2>1. OldIn(s0) = {}
    BY <1>6 DEF OldIn
  <2> QED BY <1>1, <1>5, <2>1, Draws
<1>8. Now.c = cursor
  BY DEF Now
<1>9. \A t \in Painters : job[t] = <<>>
  BY <1>1
<1>10. JobsOK
  <2>1. \A t \in Painters : <<>> \in Jobs /\ Shape(t, <<>>)
    BY NoCall DEF Call
  <2>2. job \in [Painters -> Jobs]
    BY <1>1, <2>1
  <2> QED BY <1>9, <2>1, <2>2 DEF JobsOK
<1>11. Cardinality(Updaters) = 0
  <2>1. \A t \in Painters : ~Upd(job[t])
    BY <1>9 DEF Upd
  <2>2. Updaters = {}
    BY <2>1 DEF Updaters
  <2> QED BY <2>2, FS_EmptySet
<1>12. PointerOK
  BY <1>7, <1>8, <1>11, NowTypes DEF PointerOK
<1>13. DamageOK
  BY <1>1, <1>7 DEF DamageOK, DamageType, NoDamage
<1> QED BY <1>10, <1>12, <1>13 DEF ScreenInv

LEMMA InitDesk == ASSUME Init PROVE WindowsOK /\ SceneOK
<1>1. /\ job["gui"] = <<>> /\ panel = NoPanel /\ reg = FirstWindows /\ shells = {}
      /\ back = [p \in Places |-> [w |-> Top(p, FirstWindows, NoPanel), direct |-> FALSE]]
  BY Consts DEF Init
<1>2. NoPanel \in Panel
  BY DEF NoPanel, Panel, Menus, Buttons
<1>3. Good(FirstWindows) /\ ToSet(FirstWindows.order) = {"test"}
  <2> DEFINE s == <<"test">>
  <2>1. s \in Orders /\ Len(s) = 1 /\ DOMAIN s = {1} /\ s[1] = "test" /\ s # <<>>
    BY DEF Orders, Titles
  <2>2. FirstWindows = [order |-> s, active |-> "test"]
    BY DEF FirstWindows
  <2> HIDE DEF s
  <2>3. Distinct(s)
    BY <2>1 DEF Distinct
  <2>4. Topmost(s) = "test"
    BY <2>1, OrderTop
  <2>5. \A w : w \in ToSet(s) <=> w = "test"
    BY <2>1, OrderFacts
  <2>6. Good(FirstWindows)
    BY <2>1, <2>2, <2>3, <2>4, MakeGood
  <2> QED BY <2>2, <2>5, <2>6
<1>4. WindowsOK
  BY <1>1, <1>2, <1>3 DEF WindowsOK
<1>5. Shown
  BY <1>1 DEF Shown
<1>6. NoOp(job["gui"], "scene")
  BY <1>1, NoCall
<1> QED BY <1>4, <1>5, <1>6 DEF SceneOK

LEMMA NextDesk == ASSUME DesktopInv, [Next]_vars PROVE DesktopInv'
<1>1. CASE \E k \in budget.menu : mouse_interrupt_handler(k)
  BY <1>1, PacketDesk
<1>2. CASE \E k \in {"next", "previous", "page"} : KeyInterrupt(k)
  BY <1>2, KeyDesk
<1>3. CASE PollTask
  BY <1>3, PollDesk
<1>4. CASE GuiTask
  <2>1. "gui" \in Painters
    BY Consts
  <2> QED BY <1>4, <2>1, WaitDesk, DispatchDesk, SpawnDesk, PaintDesk DEF GuiTask
<1>5. CASE ClockTick
  BY <1>5, ClockDesk
<1>6. CASE \E w \in ToSet(Terminals) : ShellWrites(w)
  BY <1>6, ShellDesk
<1>7. CASE \E t \in Painters \ {"gui"} : OtherTask(t)
  BY <1>7, PaintDesk DEF OtherTask
<1>8. CASE UNCHANGED vars
  <2>1. UNCHANGED <<screenVars, inputVars, deskVars, gui, budget>>
    BY <1>8 DEF vars
  <2>2. InputInv'
    BY <2>1, InputSame DEF DesktopInv, InputInv, InputTypes
  <2>3. ScreenInv'
    BY <2>1, SameScreen DEF DesktopInv, screenVars
  <2>4. WindowsOK' /\ SceneOK'
    BY <2>1, DeskSame DEF DesktopInv, screenVars
  <2> QED BY <2>2, <2>3, <2>4 DEF DesktopInv
<1> QED BY <1>1, <1>2, <1>3, <1>4, <1>5, <1>6, <1>7, <1>8 DEF Next

\* The inductive invariant: the ring's permits, the screen of the painters' calls, and a
\* GUI task whose call will show the windows there are and start the shells of the rest
\* (gui_input_thread, gui_terminal_session_launch, gui_compositor_present).
THEOREM Invariance == Spec => []DesktopInv
<1>1. Init => DesktopInv
  BY InitInput, InitScreen, InitDesk DEF DesktopInv
<1>2. DesktopInv /\ [Next]_vars => DesktopInv'
  BY NextDesk
<1> QED BY <1>1, <1>2, PTL DEF Spec

-----------------------------------------------------------------------------
(* Alt+Tab again and again.                                                *)
\* The focus is on the front window, so the window at the back is the next one.
LEMMA NextRotates ==
    ASSUME NEW r, Good(r), r.order # <<>>
    PROVE  LET q == focus_next(r)
               n == Len(r.order)
           IN  /\ Len(q.order) = n /\ q.active = r.order[1]
               /\ \A i \in 1..n : q.order[i] = IF i < n THEN r.order[i + 1] ELSE r.order[1]
<1> DEFINE s == r.order
           n == Len(s)
           q == focus_next(r)
           w == s[1]
           rest == RemoveAt(s, 1)
           u == Append(rest, w)
<1>1. /\ s \in Orders /\ Distinct(s) /\ n \in Nat /\ n >= 1 /\ DOMAIN s = 1..n
      /\ r.active = s[n] /\ n \in DOMAIN s /\ 1 \in DOMAIN s
  BY GoodFacts, OrderFacts, OrderTop
<1>2. CASE n < 2
  <2>1. q = r
    BY <1>2 DEF focus_next, Traverse
  <2>2. n = 1
    <3> HIDE DEF n, s
    <3> QED BY <1>1, <1>2
  <2> QED BY <1>1, <2>1, <2>2
<1>3. CASE ~(n < 2)
  <2> DEFINE a == IndexOf(r, r.active)
             c == [i \in 1..n |-> IF a = n THEN i - 1 ELSE (a + i) % n]
             steps == {i \in DOMAIN c : r.order[c[i] + 1] # r.active}
             first == CHOOSE i \in steps : \A k \in steps : i <= k
  <2>1. a = n - 1
    <3>1. r.active \in ToSet(s)
      BY <1>1, OrderFacts
    <3>2. a \in 0..n /\ a # n /\ a + 1 \in DOMAIN s /\ s[a + 1] = r.active
      <4>1. a \in 0..n /\ (a = n <=> r.active \notin ToSet(s))
            /\ (a < n => a + 1 \in DOMAIN s /\ s[a + 1] = r.active)
        BY IndexFacts
      <4> HIDE DEF a, n, s
      <4>2. a # n /\ a \in 0..n
        BY <3>1, <4>1
      <4>3. a < n
        BY <1>1, <4>2
      <4> QED BY <4>1, <4>2, <4>3
    <3> HIDE DEF a, n, s
    <3>3. a + 1 = n
      BY <1>1, <3>2 DEF Distinct
    <3> QED BY <1>1, <3>2, <3>3
  <2>2. q = focus_index_locked(r, IF steps = {} THEN a ELSE c[first])
    BY <1>3 DEF focus_next, Traverse
  <2> HIDE DEF a
  <2>3. c[1] = 0 /\ DOMAIN c = 1..n /\ 1 \in DOMAIN c
    <3>1. 1 \in 1..n /\ a # n /\ a + 1 = n
      BY <1>1, <2>1
    <3>2. n % n = 0
      <4> HIDE DEF n
      <4> QED BY <1>1
    <3> HIDE DEF n
    <3> QED BY <3>1, <3>2
  <2>4. s[1] # r.active
    <3>1. 1 # n
      <4> HIDE DEF n
      <4> QED BY <1>3
    <3> HIDE DEF s, n
    <3> QED BY <1>1, <3>1 DEF Distinct
  <2>5. 1 \in steps /\ \A i \in steps : i \in 1..n
    <3> HIDE DEF c
    <3> QED BY <2>3, <2>4
  <2> HIDE DEF steps, c
  <2>6. first = 1
    <3>1. \A i \in steps : 1 <= i /\ i \in Int
      BY <2>5
    <3>2. \A i \in steps : (\A k \in steps : i <= k) => i = 1
      BY <2>5, <3>1
    <3> QED BY <2>5, <3>1, <3>2
  <2> HIDE DEF first
  <2>7. q = focus_index_locked(r, 0)
    BY <2>2, <2>3, <2>5, <2>6
  <2>8. q = [order |-> u, active |-> w]
    <3>1. ~(0 >= Len(r.order)) /\ 0 + 1 = 1
      BY <1>1
    <3> QED BY <2>7, <3>1 DEF focus_index_locked
  <2>9. /\ rest \in Orders /\ Len(rest) = n - 1
        /\ \A k \in DOMAIN rest : rest[k] = s[k + 1]
    <3>1. /\ rest \in Orders /\ Len(rest) = n - 1
          /\ \A k \in DOMAIN rest : rest[k] = IF k < 1 THEN s[k] ELSE s[k + 1]
      BY <1>1, RemoveFacts
    <3>2. \A k \in DOMAIN rest : ~(k < 1)
      <4> HIDE DEF rest
      <4> QED BY <3>1, OrderFacts
    <3> QED BY <3>1, <3>2
  <2> HIDE DEF rest, q
  <2>10. Len(u) = Len(rest) + 1 /\ u[Len(rest) + 1] = w /\ \A k \in 1..Len(rest) : u[k] = rest[k]
    <3>1. w \in Titles
      BY <1>1, OrderFacts
    <3> HIDE DEF w
    <3> QED BY <2>9, <3>1, AppendProperties DEF Orders
  <2>11. DOMAIN rest = 1..Len(rest)
    BY <2>9, OrderFacts
  <2> HIDE DEF u
  <2>12. ASSUME NEW i \in 1..n PROVE u[i] = IF i < n THEN s[i + 1] ELSE s[1]
    <3>1. CASE i < n
      <4>1. i \in 1..Len(rest) /\ i \in DOMAIN rest
        BY <1>1, <2>9, <2>11, <3>1
      <4> QED BY <2>9, <2>10, <3>1, <4>1
    <3>2. CASE ~(i < n)
      <4>1. i = n /\ Len(rest) + 1 = n
        BY <1>1, <2>9, <3>2
      <4> QED BY <2>10, <3>2, <4>1 DEF w
    <3> QED BY <3>1, <3>2
  <2>13. Len(u) = n
    BY <1>1, <2>9, <2>10
  <2> QED BY <2>8, <2>12, <2>13 DEF q, w
<1> QED BY <1>2, <1>3

\* After k of n times every window is k places further to the back, round the end.
Rotated(s, u, k) == /\ Len(u) = Len(s)
                    /\ \A i \in 1..Len(s) : u[i] = IF i + k <= Len(s) THEN s[i + k] ELSE s[i + k - Len(s)]

LEMMA ShiftedOn ==
    ASSUME NEW n \in Nat, NEW k \in Nat, NEW s, NEW u, NEW i \in 1..n, i < n,
           \A l \in 1..n : u[l] = IF l + k <= n THEN s[l + k] ELSE s[l + k - n]
    PROVE  u[i + 1] = IF i + (k + 1) <= n THEN s[i + (k + 1)] ELSE s[i + (k + 1) - n]
<1>1. i + 1 \in 1..n
  OBVIOUS
<1>2. CASE i + (k + 1) <= n
  <2>1. (i + 1) + k <= n /\ (i + 1) + k = i + (k + 1)
    BY <1>2
  <2>2. u[i + 1] = s[(i + 1) + k]
    BY <1>1, <2>1
  <2> QED BY <1>2, <2>1, <2>2
<1>3. CASE ~(i + (k + 1) <= n)
  <2>1. ~((i + 1) + k <= n) /\ (i + 1) + k - n = i + (k + 1) - n
    BY <1>3
  <2>2. u[i + 1] = s[(i + 1) + k - n]
    BY <1>1, <2>1
  <2> QED BY <1>3, <2>1, <2>2
<1> QED BY <1>2, <1>3

LEMMA RotatesOn ==
    ASSUME NEW r, Good(r), NEW k \in Nat, k < Len(r.order), NEW p, Good(p), Rotated(r.order, p.order, k)
    PROVE  LET q == focus_next(p)
           IN  Rotated(r.order, q.order, k + 1) /\ q.active = r.order[k + 1]
<1> DEFINE s == r.order
           u == p.order
           n == Len(s)
           q == focus_next(p)
           v == q.order
<1>1. n \in Nat /\ n >= 1 /\ Len(u) = n /\ u # <<>> /\ u \in Orders
  <2>1. n \in Nat /\ Len(u) = n /\ u \in Orders /\ s \in Orders
    BY GoodFacts DEF Rotated
  <2>2. n >= 1
    BY <2>1
  <2> QED BY <2>1, <2>2, OrderFacts
<1>2. /\ Len(v) = n /\ q.active = u[1]
      /\ \A i \in 1..n : v[i] = IF i < n THEN u[i + 1] ELSE u[1]
  BY <1>1, NextRotates
<1>3. \A i \in 1..n : u[i] = IF i + k <= n THEN s[i + k] ELSE s[i + k - n]
  BY DEF Rotated
<1> HIDE DEF u, v, q
<1>4. k < n
  OBVIOUS
<1> HIDE DEF n
<1>5. u[1] = s[k + 1]
  <2>1. 1 \in 1..n /\ 1 + k <= n /\ 1 + k = k + 1
    BY <1>1, <1>4
  <2> QED BY <1>3, <2>1
<1>6. ASSUME NEW i \in 1..n PROVE v[i] = IF i + (k + 1) <= n THEN s[i + (k + 1)] ELSE s[i + (k + 1) - n]
  <2>1. CASE i < n
    <3>1. i + 1 \in 1..n /\ (i + 1) + k = i + (k + 1)
      BY <1>1, <2>1
    <3>2. v[i] = u[i + 1]
      BY <1>2, <2>1
    <3> QED BY <1>1, <1>3, <3>2, ShiftedOn, <2>1
  <2>2. CASE ~(i < n)
    <3>1. i = n
      BY <1>1, <2>2
    <3>2. ~(i + (k + 1) <= n) /\ i + (k + 1) - n = k + 1
      BY <1>1, <3>1
    <3>3. v[i] = u[1]
      BY <1>2, <2>2
    <3> QED BY <1>5, <3>2, <3>3
  <2> QED BY <2>1, <2>2
<1> QED BY <1>2, <1>5, <1>6 DEF Rotated, n, q, v

LEMMA ComesRound ==
    ASSUME NEW r, Good(r), NEW f, f[0] = r, \A k \in 1..Len(r.order) : f[k] = focus_next(f[k - 1])
    PROVE  {f[k].active : k \in 1..Len(r.order)} = ToSet(r.order)
<1> DEFINE n == Len(r.order)
           Is(k) == Good(f[k]) /\ Rotated(r.order, f[k].order, k)
           X == {k \in 0..n : ~Is(k)}
<1>1. n \in Nat /\ r.order \in Orders /\ DOMAIN r.order = 1..n
  BY GoodFacts, OrderFacts
<1>2. Is(0)
  <2>1. \A i \in 1..n : i + 0 <= n /\ i + 0 = i
    BY <1>1
  <2> QED BY <2>1 DEF Rotated
<1>3. ASSUME NEW k \in 0..n, k < n, Is(k) PROVE Is(k + 1) /\ f[k + 1].active = r.order[k + 1]
  <2>1. k + 1 \in 1..n /\ (k + 1) - 1 = k /\ k \in Nat
    BY <1>1, <1>3
  <2>2. f[k + 1] = focus_next(f[k])
    BY <2>1
  <2>3. Rotated(r.order, f[k + 1].order, k + 1) /\ f[k + 1].active = r.order[k + 1]
    BY <1>3, <2>1, <2>2, RotatesOn
  <2>4. Good(f[k + 1])
    BY <1>3, <2>2, NextGood
  <2> QED BY <2>3, <2>4
<1>4. ASSUME X # {} PROVE FALSE
  <2>1. X \in SUBSET Nat
    BY <1>1
  <2>2. PICK m \in X : \A y \in X : m <= y
    <3> HIDE DEF X
    <3> QED BY <1>4, <2>1, Least
  <2>3. m \in 0..n /\ ~Is(m) /\ m # 0
    <3> HIDE DEF Is
    <3> QED BY <1>2, <2>2
  <2> HIDE DEF Is
  <2>4. m - 1 \in 0..n /\ m - 1 < n /\ m - 1 < m /\ (m - 1) + 1 = m
    BY <1>1, <2>3
  <2>5. Is(m - 1)
    BY <2>2, <2>4
  <2> QED BY <1>3, <2>3, <2>4, <2>5
<1> HIDE DEF Is
<1>5. \A k \in 0..n : Is(k)
  BY <1>4
<1>6. ASSUME NEW k \in 1..n PROVE f[k].active = r.order[k]
  <2>1. k - 1 \in 0..n /\ k - 1 < n /\ (k - 1) + 1 = k
    BY <1>1
  <2> QED BY <1>3, <1>5, <2>1
<1>7. \A w : w \in ToSet(r.order) <=> \E k \in 1..n : r.order[k] = w
  BY <1>1, OrderFacts
<1> QED BY <1>6, <1>7

LEMMA FocusFollows == ASSUME Good(reg) PROVE FocusOrder
<1> DEFINE N == Len(reg.order)
           T == {r \in Registry : Good(r)}
           G == [i \in 1..N |-> [x \in T |-> focus_next(x)]]
           Rec(f) == f = [n \in 0..N |->
                            IF n = 0 THEN reg ELSE CHOOSE r \in {focus_next(s) : s \in {f[n - 1]}} : TRUE]
           Round(f) == /\ reg.active = Topmost(reg.order)
                       /\ {f[n].active : n \in 1..N} = ToSet(reg.order)
<1>1. N \in Nat /\ reg \in T /\ reg.active = Topmost(reg.order)
  BY GoodFacts DEF Good
<1>2. \A x \in T : focus_next(x) \in T
  BY NextGood DEF Good
<1>3. \A x : (CHOOSE r \in {focus_next(s) : s \in {x}} : TRUE) = focus_next(x)
  OBVIOUS
<1>4. \E f : Rec(f)
  <2>1. G \in StepMaps(T, N)
    <3> HIDE DEF T
    <3> QED BY <1>2 DEF StepMaps
  <2>2. \A i \in 1..N, x \in T : G[i][x] = focus_next(x)
    OBVIOUS
  <2>3. PICK f \in [0..N -> T] : f[0] = reg /\ \A i \in 1..N : f[i] = G[i][f[i - 1]]
    <3>1. \E f \in [0..N -> T] : Iterated(f, reg, N, G)
      <4> HIDE DEF G, N, T
      <4> QED BY <1>1, <2>1, Iterates
    <3> HIDE DEF G, N, T
    <3> QED BY <3>1 DEF Iterated
  <2> HIDE DEF G, T
  <2>4. ASSUME NEW i \in 0..N, i # 0 PROVE f[i] = focus_next(f[i - 1])
    <3>1. i \in 1..N /\ i - 1 \in 0..N
      BY <1>1, <2>4
    <3> QED BY <2>2, <2>3, <3>1
  <2>5. Rec(f)
    BY <1>3, <2>3, <2>4
  <2> QED BY <2>5
<1>5. PICK f : Rec(f) /\ (Round(f) => FocusOrder)
  BY <1>4 DEF FocusOrder
<1>6. f[0] = reg /\ \A k \in 1..N : f[k] = focus_next(f[k - 1])
  BY <1>1, <1>3, <1>5
<1>7. Round(f)
  BY <1>1, <1>6, ComesRound
<1> QED BY <1>5, <1>7

-----------------------------------------------------------------------------
(* The properties.                                                         *)
LEMMA SceneFollows == ASSUME DesktopInv PROVE SceneShown
<1>1. ~WillShow(<<>>, Scene(reg, panel))
  BY DEF WillShow
<1> QED BY <1>1 DEF DesktopInv, SceneOK, SceneShown, GuiIdle, Shown

\* gui_input_push and gui_input_thread: every entry of the ring has one permit.
THEOREM PermitsSafe == Spec => []PermitsExact
<1>1. DesktopInv => PermitsExact
  BY DEF DesktopInv, InputInv
<1> QED BY <1>1, Invariance, PTL

\* gui_compositor_present and mouse_cursor_begin_framebuffer_update: no changed place is
\* forgotten and the pointer leaves nothing behind, whoever paints and presents.
THEOREM ScreenSafe == Spec => []ScreenExact
<1>1. DesktopInv => ScreenExact
  BY ScreenFollows DEF DesktopInv
<1> QED BY <1>1, Invariance, PTL

\* gui_desktop_render and its callers: whatever was changed has been rendered when the
\* GUI task is idle.
THEOREM SceneSafe == Spec => []SceneShown
<1>1. DesktopInv => SceneShown
  BY SceneFollows
<1> QED BY <1>1, Invariance, PTL

\* gui_window_registry_remove, focus_index_locked and focus_next: the focus is on the
\* front window and Alt+Tab comes round to every window.
THEOREM FocusSafe == Spec => []FocusOrder
<1>1. DesktopInv => FocusOrder
  BY FocusFollows DEF DesktopInv, WindowsOK
<1> QED BY <1>1, Invariance, PTL

=============================================================================
