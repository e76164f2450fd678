------------------------------ MODULE MCNameSync ------------------------------
(* Two functions, and instances of them in two files, for TLC.                  *)
EXTENDS NameSync, TLC
CONSTANTS f1, f2, f3, p1, i1, i2, i3, i4, m1, m2, a, b, c
InstancesInOrder == <<i1, i2, i3, i4>>
Files == <<m1, m2>>
\* i1 and i4 are in one chart, i2 in another of the same file, i3 in another file.
Charts == [i \in {i1, i2, i3, i4} |-> IF i = i4 THEN 1 ELSE IF i = i1 THEN 1 ELSE IF i = i2 THEN 2 ELSE 3]
FileOf == [i \in {i1, i2, i3, i4} |-> IF i = i3 THEN m2 ELSE m1]
NoCase == [n \in Names |-> n]

Titles == [f \in Functions \cup Interfaces |->
             IF f = f1 THEN a ELSE IF f = f2 THEN b ELSE IF f = p1 THEN c ELSE None]
Named(I) == [i \in {i1, i2, i3, i4} |-> IF i \notin I THEN None ELSE IF i = i4 THEN b ELSE a]

Yes == [instances |-> TRUE, missing |-> TRUE, update |-> "update", remove |-> TRUE]
AnyAnswer == {[Yes EXCEPT !.instances = x, !.missing = x, !.remove = x, !.update = u] :
                x \in BOOLEAN, u \in {"update", "add", "ignore"}}
Renaming == [title |-> Titles, name |-> Named({i1, i3, i4}), answers |-> {Yes}, most |-> 3, adds |-> {},
             kinds |-> {"renameFunction", "renameInstance"}]
Together == [Renaming EXCEPT !.name = Named({i1, i2, i3})]
Choosing == [title |-> Titles, name |-> Named({i1}), answers |-> AnyAnswer, most |-> 2, adds |-> {i3},
             kinds |-> {"renameFunction", "renameInstance", "createInstance", "removeFunction"}]
InDialog == [title |-> Titles, name |-> Named({i1, i3}), answers |-> {Yes}, most |-> 2, adds |-> {},
             kinds |-> {"renameInDialog", "renameFunction", "renameInstance"}]
Alike == [InDialog EXCEPT !.kinds = {"renameInterface", "renameInstance"}]
Apart == {Renaming, Choosing, InDialog, Alike}
OnlyAlike == {Alike}
OnlyTogether == {Together}
===============================================================================
