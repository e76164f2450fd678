------------------------------- MODULE MCIVModel -------------------------------
(* Small interface views for TLC: two functions, a type, interfaces of two     *)
(* names and a group.  Each session starts from a document of its own.         *)
EXTENDS IVModel
CONSTANTS fA, fB, fT, r1, r2, r3, p1, p2, p3, c1, c2, g1, sA, sB

TheTitle == [i \in {r1, r2, r3, p1, p2, p3} |->
               IF i = r3 THEN "q" ELSE IF i \in {r1, r2} THEN "r" ELSE "p"]
TheEnds == [g \in {g1} |-> <<sA, sB>>]
NestB == [f \in {fA, fB, fT} |-> IF f = fB THEN {fA, fT, Nobody} ELSE {Nobody}]

Fn(f, p) == [kind |-> "function", o |-> f, parent |-> p]
Iface(i, f) == [kind |-> "iface", i |-> i, f |-> f, origin |-> Nobody, clones |-> {}]
Conn(c, a, b) == [kind |-> "connection", o |-> c, ends |-> <<a, b>>, parent |-> Nobody]

Joined == [start |-> <<Fn(fA, Nobody), Fn(fB, Nobody), Iface(r1, fA), Iface(r2, fB), Iface(p1, fA),
                       Iface(p2, fB), Conn(c1, r1, p2)>>,
           kinds |-> {"connection", "group", "member", "remove"}, most |-> 3]
Nested == [start |-> <<Fn(fA, Nobody), Iface(p1, fA)>>,
           kinds |-> {"function", "comment", "iface", "connection", "remove"}, most |-> 3]
Typed == [start |-> <<Fn(fT, Nobody), Iface(p1, fT), Fn(fA, Nobody)>>,
          kinds |-> {"iface", "instanceOf", "instantiate", "remove"}, most |-> 3]
Linked == [start |-> <<Fn(fT, Nobody), Iface(p1, fT), Fn(fA, Nobody), Fn(fB, Nobody), Iface(r1, fA),
                       Iface(p2, fB), Conn(c1, r1, p2)>>,
           kinds |-> UNION {Joined.kinds, Nested.kinds, Typed.kinds}, most |-> 2]
InA(c, a, b) == [Conn(c, a, b) EXCEPT !.parent = fA]
Outward == <<Fn(fA, Nobody), Fn(fB, fA), Iface(r1, fA), Iface(r2, fB), InA(c1, r2, r1)>>
Within == [start |-> Outward, kinds |-> UNION {Joined.kinds, Nested.kinds}, most |-> 2]
Bundled == [start |-> Outward \o <<Iface(r3, fA), InA(c2, r2, r3)>>, kinds |-> {"group", "member", "remove"}, most |-> 3]
Inward == [start |-> Outward \o <<Iface(p1, fA), Iface(p2, fB), InA(c2, p1, p2)>>,
           kinds |-> {"group", "member", "remove"}, most |-> 3]
Losing == {[Joined EXCEPT !.kinds = {"connection", "groupAny", "removeAny"}, !.most = 2],
           [Nested EXCEPT !.kinds = {"function", "comment", "removeAny"}, !.most = 2],
           [Typed EXCEPT !.kinds = {"ifaceAny", "adopt", "instantiate", "removeAny"}, !.most = 2],
           [Linked EXCEPT !.kinds = {"connection", "group", "ifaceAny", "instanceOf", "instantiate", "remove"}],
           [Linked EXCEPT !.kinds = {"connection", "groupAny", "adopt", "removeAny"}],
           [Within EXCEPT !.kinds = {"connection", "groupAny", "removeAny"}, !.most = 3],
           [Inward EXCEPT !.kinds = {"groupAny", "removeAny"}, !.most = 2]}
AllSessions == {Joined, Nested, Typed, Linked, Within, Bundled, Inward} \cup Losing
================================================================================
