----------------------------- MODULE LineEditor -----------------------------
(***************************************************************************)
(* What a user expects of the line he types at: every key he typed has its *)
(* effect, once, in the order typed.  The text stands left and right of    *)
(* the cursor.  Once a byte was lost on the way nothing is promised.       *)
(***************************************************************************)
EXTENDS Integers, Sequences, SequencesExt

CONSTANTS LineMax, HistoryMax

VARIABLES
    keys,      \* typed, without effect yet: characters and names of keys
    left, right,
    history,   \* lines entered, the last one last
    at,        \* the line of history shown, 0 if none
    draft,     \* the line being typed before history was shown
    lost       \* a byte was lost

vars == <<keys, left, right, history, at, draft, lost>>

Init == /\ keys = <<>> /\ left = <<>> /\ right = <<>> /\ Len(history) <= HistoryMax
        /\ at = 0 /\ draft = <<>> /\ lost = FALSE

Line == left \o right
Command == {"enter", "backspace", "delete", "left", "right", "home", "end", "up", "down"}
Text(l, r) == left' = l /\ right' = r
Edited == at' = 0 /\ draft' = <<>> /\ UNCHANGED history
Moved == UNCHANGED <<at, draft, history>>

Character(k) ==
    k \notin Command /\ Len(Line) < LineMax /\ Text(Append(left, k), right) /\ Edited
Erase(k) ==
    \/ k = "backspace" /\ left # <<>> /\ Text(Front(left), right) /\ Edited
    \/ k = "delete" /\ right # <<>> /\ Text(left, Tail(right)) /\ Edited
Move(k) ==
    \/ k = "left" /\ left # <<>> /\ Text(Front(left), <<Last(left)>> \o right) /\ Moved
    \/ k = "right" /\ right # <<>> /\ Text(Append(left, Head(right)), Tail(right)) /\ Moved
    \/ k = "home" /\ Text(<<>>, Line) /\ Moved
    \/ k = "end" /\ Text(Line, <<>>) /\ Moved
Show(i) == Text(history[i], <<>>) /\ at' = i /\ UNCHANGED history
Browse(k) ==
    \/ k = "up" /\ at = 0 /\ history # <<>> /\ draft' = Line /\ Show(Len(history))
    \/ k = "up" /\ at > 0 /\ UNCHANGED draft /\ Show(IF at = 1 THEN 1 ELSE at - 1)
    \/ k = "down" /\ at \in 1..(Len(history) - 1) /\ UNCHANGED draft /\ Show(at + 1)
    \/ k = "down" /\ at > 0 /\ at = Len(history) /\ Text(draft, <<>>) /\ Edited
Enter(k) ==
    /\ k = "enter" /\ Text(<<>>, <<>>) /\ at' = 0 /\ draft' = <<>>
    /\ LET longer == IF Line = <<>> \/ Line = IF history = <<>> THEN <<>> ELSE Last(history)
                       THEN history ELSE Append(history, Line)
       IN  history' = IF Len(longer) > HistoryMax THEN Tail(longer) ELSE longer
Ignored(k) ==
    /\ \/ k \notin Command /\ Len(Line) = LineMax
       \/ k \in {"backspace", "left"} /\ left = <<>>
       \/ k \in {"delete", "right"} /\ right = <<>>
       \/ k = "up" /\ history = <<>>
       \/ k = "down" /\ at = 0
    /\ UNCHANGED <<left, right>> /\ Moved

Effect(k) ==
    \/ Character(k) \/ Erase(k) \/ Move(k) \/ Browse(k) \/ Enter(k) \/ Ignored(k)

Type == \E ks \in {keys'} :
    /\ ks # <<>> /\ Front(ks) = keys
    /\ UNCHANGED <<left, right, history, at, draft, lost>>
Act == \E ks \in {keys} :
    /\ ks # <<>> /\ keys' = Tail(ks)
    /\ \E k \in {Head(ks)} : Effect(k)
    /\ UNCHANGED lost

Spec == Init /\ [][lost' \/ Type \/ Act]_vars
=============================================================================
