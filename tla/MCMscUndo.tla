------------------------------ MODULE MCMscUndo -------------------------------
(* Small documents for TLC: a file with one instance or more and what the user *)
(* adds to it, in sessions that keep apart the commands whose undo fails when  *)
(* they meet.                                                                  *)
EXTENDS MscUndo
CONSTANTS i1, i2, i3, m1, k1, t1, a1
CommentOnMessage == [t \in {t1} |-> m1]
NoComments == [t \in {} |-> m1]

Moves == {"instance", "event", "local", "points", "order"}
Deletions == {"instance", "event", "delete"}
Commenting == {"event", "comment", "local", "save"}
Saves == {"event", "local", "save"}
AnyDeletions == {"event", "comment", "deleteAny"}
KeptComments == {"event", "comment", "delete"}
Retargets == {"event", "resize"}
AllSessions == {Moves, Deletions, Commenting, Saves, AnyDeletions, KeptComments, Retargets}
OnlyDeletions == {AnyDeletions}
OnlyKept == {KeptComments}
OnlyRetargets == {Retargets}
OnlySaves == {{"event", "save"}}

Opened == [s \in Sessions |-> IF s \in {AnyDeletions, Retargets} THEN <<i1, i2, i3>> ELSE <<i1>>]
Most == [s \in Sessions |-> IF s \in {AnyDeletions, Retargets} THEN 3 ELSE 4]

\* Few events where there are many commands.
Added == [s \in Sessions |-> IF s \in {AnyDeletions, Retargets} THEN {m1, k1, t1} ELSE {i2, m1, t1, a1}]
===============================================================================
