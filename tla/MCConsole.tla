------------------------------ MODULE MCConsole ------------------------------
EXTENDS Console

A == <<30>>
Backspace_ == <<14>>
Enter_ == <<28>>
Tab_ == <<15>>
Alt_ == <<56>>
Shift_ == <<42>>
Caps_ == <<58>>
Left_ == <<224, 75>>
Up_ == <<224, 72>>
Down_ == <<224, 80>>
Delete_ == <<224, 83>>
PageUp_ == <<224, 73>>

Taps == [session |-> {A, Enter_, Up_, Down_, PageUp_},
         console |-> {A, Backspace_, Left_, Delete_, Up_},
         events  |-> {A, Tab_}]
TabTaps == [session |-> {A, Tab_, Left_, Backspace_}]
WrapTaps == [session |-> {A, Left_}]
Holds == [session |-> {}, console |-> {Shift_}, events |-> {Shift_, Caps_, Alt_}]
Others == [session |-> {}, console |-> {}, events |-> {Pause, PrintScreen}]
FourStrokes == [session |-> 4]
Strokes == [session |-> 3, console |-> 4, events |-> 3]
Typed == [session |-> {<<<<"h">>, <<"h", "i">>>>}, console |-> {<<>>}, events |-> {<<>>}]
Dollar == <<"$">>
Nothing == {<<>>, <<"o", "LF">>, <<"FF">>}
=============================================================================
