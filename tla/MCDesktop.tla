----------------------------- MODULE MCDesktop -----------------------------
(* A row of six places: the top bar with both its buttons, the menus over    *)
(* the windows, three windows that overlap, the task bar.                     *)
EXTENDS Desktop

MCBounds == [topbar |-> <<0, 1>>, start |-> <<2, 3>>, power |-> <<2, 2>>, taskbar |-> <<5, 5>>,
             test |-> <<2, 3>>, t1 |-> <<3, 4>>, t2 |-> <<4, 6>>]
MCButtonAt == [topbar |-> (0 :> "meaty" @@ 1 :> "power_button"), start |-> (2 :> "item"),
               power |-> <<>>]
MCPainters == {"gui", "clock", "t1", "t2"}
MCTerminals == <<"t1", "t2">>
Packet(dx, left) == [dx |-> dx, left |-> left, right |-> FALSE, overflow |-> FALSE]
Right == [Packet(0, FALSE) EXCEPT !.right = TRUE]
Overflow == [Packet(2, TRUE) EXCEPT !.overflow = TRUE]
Budget(menu, packets, keys, paints) ==
    [menu |-> menu, packets |-> packets, keys |-> keys, paints |-> paints]

MCBudgets == {
    \* menus opened, used and closed, presses dragged off their button
    Budget({Packet(-3, TRUE), Packet(0, FALSE), Packet(2, TRUE), Packet(-1, TRUE), Packet(2, FALSE)}, 4, 0, 0),
    \* both terminals launched, focus by keys
    Budget({Packet(2, TRUE), Packet(0, FALSE), Packet(0, TRUE)}, 3, 1, 0),
    \* painters beside the GUI task
    Budget({Packet(2, TRUE), Packet(-3, TRUE), Right, Overflow}, 2, 1, 1),
    Budget({Packet(2, TRUE)}, 1, 0, 2)}

=============================================================================
