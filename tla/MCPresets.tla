----------------------------- MODULE MCPresets -----------------------------
(***************************************************************************)
(* Presets for TLC: two slots of two settings.  Setting 1 may change       *)
(* setting 2; one value is a 32-bit one that reads one byte short of a     *)
(* string; slot 2 has no name.                                             *)
(***************************************************************************)
EXTENDS Presets

One == <<1, 0>>
Two == <<2, 0>>
Short == <<2, 0, 0, 0>>
MCData == {One, Two, Short}
MCNames == {<<2, 65, 0, 0, 0>>, <<0>>}
MCContent ==
    [slot |-> 2, name |-> <<<<2, 65, 0, 0, 0>>, <<0>>>>,
     val |-> <<<<One, One>>, <<Two, One>>>>]
Set(p, d) == [ID |-> p, Bytes |-> d]
MCWrites ==
    {[slot |-> 2, name |-> <<>>, settings |-> <<>>]} \cup
    [slot : {1}, name : {<<66>>},
     settings : {<<Set(1, One), Set(2, Two)>>, <<Set(2, One), Set(1, Two)>>,
                 <<Set(1, One), Set(1, Two)>>, <<Set(2, Short)>>,
                 <<Set(0, Two), Set(2, Two)>>}]
MCStray == {One, <<2, 65, 0, 0, 0>>}
MCAdjusts == {<<1, 2>>}
=============================================================================
