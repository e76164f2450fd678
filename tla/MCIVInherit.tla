----------------------------- MODULE MCIVInherit -----------------------------
(* Small sets of interfaces and the sessions for TLC.                          *)
EXTENDS IVInherit
CONSTANTS r1, r2, p1, p2

Edits == {"connect", "remove", "params", "kind", "inherit", "rename"}
One == [ifaces |-> {r1, r2, p1}, kinds |-> Edits, most |-> 3, copies |-> 1]
Several == [ifaces |-> {r1, p1, p2},
            kinds |-> {"connect", "remove", "params", "kind", "rename", "several"}, most |-> 3, copies |-> 1]
Switched == [ifaces |-> {r1, p1, p2}, kinds |-> {"connect", "remove", "inherit", "switch"}, most |-> 4, copies |-> 1]
Mixed == [ifaces |-> {r1, p1}, kinds |-> Edits \cup {"several", "switch"}, most |-> 3, copies |-> 2]
AllSessions == {One, Several, Switched, Mixed}
SwitchOnly == {Switched}
================================================================================
