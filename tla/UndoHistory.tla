----------------------------- MODULE UndoHistory ------------------------------
(* What undo and redo promise a user: a command makes a new version of the     *)
(* document and forgets what was undone; undo brings back exactly the version  *)
(* before the last command, and redo the version that was undone.              *)
EXTENDS Sequences, SequencesExt

VARIABLES document,  \* the current version
          past,      \* the versions undo leads to, the nearest last
          future     \* the versions redo leads to, the nearest first

vars == <<document, past, future>>

Init == past = << >> /\ future = << >>

Do == past' = Append(past, document) /\ future' = << >>

\* A command that joins the one before it: the two are undone as one.
DoMerged == past # << >> /\ past' = past /\ future' = << >>

Undo ==
  /\ past # << >>
  /\ document' = Last(past)
  /\ past' = Front(past)
  /\ future' = Cons(document, future)

Redo ==
  /\ future # << >>
  /\ document' = Head(future)
  /\ past' = Append(past, document)
  /\ future' = Tail(future)

Next == Do \/ DoMerged \/ Undo \/ Redo
Spec == Init /\ [][Next]_vars
===============================================================================
