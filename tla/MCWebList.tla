----------------------------- MODULE MCWebList -----------------------------
(* Small instances of WebList for TLC.                                     *)
EXTENDS WebList, TLC

Tags     == {"on", "off"}
FirstOn  == [key |-> 1, tag |-> "on"]
FirstOff == [key |-> 1, tag |-> "off"]
LastOn   == [key |-> 2, tag |-> "on"]
Inputs   == {FirstOn, FirstOff, LastOn}
AllUp    == [want |-> Tags, desc |-> FALSE]
OnDown   == [want |-> {"on"}, desc |-> TRUE]
Filters  == {AllUp, OnDown}
Tables   == {<<FirstOn, FirstOn>>}
=============================================================================
