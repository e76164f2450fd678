---------------------------- MODULE MCRemoteControl ----------------------------
(* Two clients that control a chart of two instances, for TLC.                  *)
EXTENDS RemoteControl
CONSTANTS i1, i2, a, b, c, u, v
TwoInstances == [s \in Sessions |-> <<i1, i2>>]
TwoNames == [i \in Instances |-> IF i = i1 THEN a ELSE IF i = i2 THEN b ELSE NoName]
Anything == [s \in Sessions |-> Instances \cup Events]
FourCommands == [s \in Sessions |-> 4]
SomeNames == [n \in 0..Cardinality(Instances) |-> IF n = 2 THEN c ELSE a]
NoComments == [t \in {} |-> i1]
AllKinds == {{"instance", "action", "undo", "redo"}, {"message", "create", "undo", "redo"},
             {"stop", "instance", "undo", "redo", "garbage"},
             {"create", "stop", "undo", "second"}}
AtMost == [s \in Sessions |-> IF s \cap {"message", "second"} = {} THEN 4 ELSE 3]
Creation == {{"create"}}
TwoCallers == {{"action"}}
================================================================================
