-------------------------------- MODULE MscUndo -------------------------------
(* The editor's undo stack (msc::MscCommandsStack over QUndoStack) and the     *)
(* commands that change a chart.  A command keeps what its undo needs when it  *)
(* is made; the stack calls redo and undo later, on whatever chart there is.   *)
EXTENDS MscChartOps

CONSTANTS About,         \* the event that a comment is about
          Sessions,      \* the kinds of command given in one session, by session
          Start,         \* the instances the file has, in order, by session
          Adds,          \* bound: the instances and events it may add, by session
          SaveOutcomes,  \* whether writing the file works
          MaxCommands    \* bound: commands on the stack, by session

ASSUME UndoAssumption ==
  /\ Start \in [Sessions -> Seq(Instances)]
  /\ About \in [Comments -> Events \ Comments]
  /\ Adds \in [Sessions -> SUBSET (Instances \cup Events)]
  /\ SaveOutcomes \subseteq BOOLEAN
  /\ MaxCommands \in [Sessions -> Nat]

VARIABLES chart,
          stack,   \* QUndoStack's commands, oldest first
          index,   \* how many of them are done
          clean,   \* QUndoStack's clean index, -1 when the saved state is gone
          saved,   \* what the file holds
          outdated,  \* the commands' copies of lists that hold a pointer to an object
                     \* which is no longer the comment: <<command, comment>>
          views,   \* auxiliary: the charts the user had, one per prefix of stack
          kinds    \* auxiliary: the kinds of command given in this session

vars == <<chart, stack, index, clean, saved, outdated, views, kinds>>

\* What the user sees of a chart, and what is written to a file.  (Comments are written
\* with the entity they are about; their order among the orphans is not.)
View(c) ==
  [instances |-> c.instances,
   events    |-> c.events,
   orphans   |-> Range(c.orphans),
   ends      |-> [e \in InChart(c) |-> <<c.source[e], c.target[e]>>],
   creator   |-> [i \in Range(c.instances) |-> c.creator[i]]]
-------------------------------------------------------------------------------
(* The commands: records with a kind and what redo and undo need.              *)

Redo(c, cmd) ==
  CASE cmd.kind = "instance" -> AddInstance(c, cmd.i, cmd.pos)
    [] cmd.kind \in {"event", "comment"} -> AddInstanceEvent(c, cmd.e, cmd.at)
    [] cmd.kind = "uncomment" -> RemoveInstanceEvents(c, {cmd.e})
    [] cmd.kind = "local" -> UpdateLocalPos(c, cmd.e, cmd.new[1], cmd.new[2])
    [] cmd.kind = "points" -> MoveEvent(c, cmd.e, cmd.new)
    [] cmd.kind = "resize" -> UpdateMessageTarget(c, cmd.e, cmd.new[1], cmd.new[2], cmd.end)
    [] cmd.kind = "order" -> UpdateInstanceOrder(c, cmd.i, cmd.to)
    [] cmd.kind \in {"nocomment", "stop"} -> c  \* RemoteControl keeps the stops
    [] cmd.kind = "delete" ->
         LET d == RemoveInstanceEvents(c, cmd.gone)
         IN  IF cmd.i = NoInstance THEN d ELSE RemoveInstance(d, cmd.i)

\* An undo that puts a moved event back at the place it was moved to.
UndoMoveInPlace(c, cmd) == UpdateLocalPos(c, cmd.e, cmd.old[1], cmd.new[2])
UndoMove(c, cmd) == UpdateLocalPos(c, cmd.e, cmd.old[1], cmd.old[2])

Undo(c, cmd) ==
  CASE cmd.kind = "instance" -> RemoveInstance(c, cmd.i)
    [] cmd.kind \in {"event", "comment"} -> RemoveInstanceEvents(c, {cmd.e})
    [] cmd.kind = "uncomment" -> AddInstanceEvent(c, cmd.e, cmd.at)
    [] cmd.kind = "local" -> UndoMove(c, cmd)
    [] cmd.kind = "points" -> MoveEvent(c, cmd.e, cmd.old)
    [] cmd.kind = "resize" -> UpdateMessageTarget(c, cmd.e, cmd.old[1], cmd.old[2], cmd.end)
    [] cmd.kind = "order" -> UpdateInstanceOrder(c, cmd.i, cmd.from)
    [] cmd.kind \in {"nocomment", "stop"} -> c
    [] cmd.kind = "delete" ->
         SetInstanceEvents(IF cmd.i = NoInstance THEN c ELSE AddInstance(c, cmd.i, cmd.pos),
                           cmd.events, cmd.orphans)

\* BaseCommand::canMergeWith, and the commands whose mergeWith takes over what is
\* newer: the moves of an action, a timer or a condition, and the texts of a comment,
\* where a comment and its removal make a command that does nothing.
CanMerge(old, new) ==
  \/ old.kind = "local" /\ new.kind = "local" /\ old.e = new.e
  \/ old.kind = "comment" /\ new.kind = "uncomment" /\ old.e = new.e
  \/ old.kind = "nocomment" /\ new.kind = "comment" /\ old.e = new.e
Merged(old, new) ==
  CASE new.kind = "uncomment" -> [kind |-> "nocomment", e |-> new.e]
    [] new.kind = "comment" -> new
    [] OTHER -> [old EXCEPT !.new = new.new]

\* The first n commands that keep one of the comments E in the lists they copied.
Keepers(n, E) ==
  {p \in (1..n) \X E : stack[p[1]].kind = "delete" /\ p[2] \in Range(stack[p[1]].orphans)}

\* What is outdated after the first n commands are kept and a removal of a comment has
\* joined the command that made it, which destroys the comment.
OutdatedBy(n, cmd, joins) ==
  {p \in outdated : p[1] <= n}
    \cup IF joins /\ cmd.kind = "uncomment" THEN Keepers(n, {cmd.e}) ELSE {}
-------------------------------------------------------------------------------
(* The stack.                                                                  *)

\* The chart of a file with the instances s.
AddAll(s) ==
  LET with[n \in 0..Len(s)] == IF n = 0 THEN EmptyChart ELSE AddInstance(with[n - 1], s[n], -1)
  IN  with[Len(s)]

Init ==
  /\ kinds \in Sessions
  /\ chart = AddAll(Start[kinds])
  /\ stack = << >>
  /\ index = 0
  /\ clean = 0
  /\ saved = View(chart)
  /\ outdated = {}
  /\ views = <<saved>>

\* A push that lets a command join the one the file was saved after.
PushIntoSaved(c, cmd) ==
  LET done  == SubSeq(stack, 1, index)
      clear == IF clean > index THEN -1 ELSE clean
      joins == index > 0 /\ CanMerge(stack[index], cmd)
  IN  /\ index < MaxCommands[kinds] \/ joins
      /\ chart' = Redo(c, cmd)
      /\ stack' = IF joins THEN [done EXCEPT ![index] = Merged(@, cmd)] ELSE Append(done, cmd)
      /\ index' = IF joins THEN index ELSE index + 1
      /\ clean' = clear
      /\ outdated' = OutdatedBy(index, cmd, joins)
      /\ views' = Append(SubSeq(views, 1, IF joins THEN index ELSE index + 1), View(chart'))
      /\ UNCHANGED saved

\* QUndoStack::push: the command is done; what was undone is dropped; then it
\* joins the last command if it can, but never one the file was saved after.
Push(c, cmd) ==
  LET done  == SubSeq(stack, 1, index)
      clear == IF clean > index THEN -1 ELSE clean
      joins == index > 0 /\ index # clear /\ CanMerge(stack[index], cmd)
  IN  /\ index < MaxCommands[kinds] \/ joins
      /\ chart' = Redo(c, cmd)
      /\ stack' = IF joins THEN [done EXCEPT ![index] = Merged(@, cmd)] ELSE Append(done, cmd)
      /\ index' = IF joins THEN index ELSE index + 1
      /\ clean' = clear
      /\ outdated' = OutdatedBy(index, cmd, joins)
      /\ views' = Append(SubSeq(views, 1, IF joins THEN index ELSE index + 1), View(chart'))
      /\ UNCHANGED saved

\* The undo of a new comment detaches it from its entity, so that from then on another
\* object is the comment; a deletion that lists the old one lists what it destroyed.
UndoOne ==
  /\ index > 0
  /\ LET cmd   == stack[index]
         stale == \E t \in Comments : <<index, t>> \in outdated
     IN  /\ chart' = IF stale THEN [Undo(chart, cmd) EXCEPT !.alive = FALSE] ELSE Undo(chart, cmd)
         /\ outdated' = outdated \cup IF cmd.kind = "comment" THEN Keepers(Len(stack), {cmd.e}) ELSE {}
  /\ index' = index - 1
  /\ UNCHANGED <<stack, clean, saved, views>>

\* A comment is made anew where its undo has detached the old one.
RedoOne ==
  /\ index < Len(stack)
  /\ chart' = Redo(chart, stack[index + 1])
  /\ index' = index + 1
  /\ UNCHANGED <<stack, clean, saved, outdated, views>>

\* MainModel::saveMsc
Save(ok) ==
  /\ saved' = IF ok THEN View(chart) ELSE saved
  /\ clean' = index
  /\ UNCHANGED <<chart, stack, index, outdated, views>>
-------------------------------------------------------------------------------
(* The user's commands.                                                        *)

InstancesIn == Range(chart.instances)

\* No command that is done made the object, so a new one may take its name.
NewInstance(i) ==
  /\ i \in Adds[kinds] \ Range(Start[kinds])
  /\ \A k \in 1..index : stack[k].kind = "instance" => stack[k].i # i
NewEvent(e) ==
  /\ e \in Adds[kinds]
  /\ \A k \in 1..index : stack[k].kind \in {"event", "comment"} => stack[k].e # e
Renewed(e, s, t) == [WithEnds(chart, e, s, t) EXCEPT !.slots[e] = 0]

PushInstance(i, pos) ==
  /\ NewInstance(i)
  /\ Push(chart, [kind |-> "instance", i |-> i, pos |-> pos])

PushLocal(e, i, pos) ==
  /\ NewEvent(e) /\ i \in InstancesIn /\ pos \in DropPositions(chart, e, i)
  /\ Push(Renewed(e, i, NoInstance), [kind |-> "event", e |-> e, at |-> AtOnly(i, pos)])

PushMessage(e, s, t, at) ==
  /\ s # t /\ {s, t} \subseteq InstancesIn \cup {NoInstance}
  /\ e \in Creates => ValidCreate(chart, s, t)
  /\ at \in Placements(chart, e, {s, t} \ {NoInstance})
  /\ Push(Renewed(e, s, t), [kind |-> "event", e |-> e, at |-> at])

\* A comment on an event that has none, and its removal; a change of the text is left
\* out, and so is, as a bound, a new comment right after the removal of the old one,
\* which makes of both a change of the text.
PushComment(e) ==
  /\ e \in Adds[kinds]
  /\ index > 0 /\ stack[index].kind = "uncomment" => stack[index].e # e
  /\ e \notin Range(chart.orphans) /\ About[e] \in InChart(chart)
  /\ Push(chart, [kind |-> "comment", e |-> e, at |-> [i \in {} |-> 0]])
PushUncomment(e) ==
  /\ e \in Range(chart.orphans) /\ About[e] \in InChart(chart)
  /\ Push(chart, [kind |-> "uncomment", e |-> e, at |-> [i \in {} |-> 0]])

MoveLocal(e, i, pos) ==
  /\ e \in InChart(chart) /\ i \in InstancesIn /\ pos \in DropPositions(chart, e, i)
  /\ LET s == chart.source[e]
     IN  Push(chart, [kind |-> "local", e |-> e, new |-> <<i, pos>>,
                      old |-> <<s, IndexOf(chart.events[s], e)>>])

MoveMessage(e, at) ==
  /\ e \in InChart(chart) /\ at \in Placements(chart, e, EndsOf(chart, e))
  /\ Push(chart, [kind |-> "points", e |-> e, new |-> at, old |-> IndicesOfEvent(chart, e)])

\* One end of a message is dropped on another instance.
RetargetMessage(e, end, i, pos) ==
  /\ e \in InChart(chart) /\ i \in InstancesIn \ EndsOf(chart, e)
  /\ pos \in DropPositions(chart, e, i)
  /\ LET j == IF end = "tail" THEN chart.source[e] ELSE chart.target[e]
     IN  Push(chart, [kind |-> "resize", e |-> e, end |-> end, new |-> <<i, pos>>,
                      old |-> <<j, IF j = NoInstance THEN -1 ELSE IndexOf(chart.events[j], e)>>])

MoveInstance(i, pos) ==
  /\ i \in InstancesIn /\ pos \in 0..(Len(chart.instances) - 1)
  /\ Push(chart, [kind |-> "order", i |-> i, to |-> pos, from |-> IndexOf(chart.instances, i)])

\* CmdDeleteEntity takes a copy of the lists, and takes the instance out, when it
\* is made.
CommentsOn(E) == {t \in Comments \cap InChart(chart) : About[t] \in E}
Deletion(i, pos, E) ==
  [kind |-> "delete", i |-> i, pos |-> pos, gone |-> E \cup CommentsOn(E),
   events |-> chart.events, orphans |-> chart.orphans]
DeleteInstance(i) ==
  /\ i \in InstancesIn
  /\ Push(RemoveInstance(chart, i),
          Deletion(i, IndexOf(chart.instances, i), MessagesOf(chart, {i})))
DeleteEvent(e) ==
  /\ e \in InChart(chart) \ Comments
  /\ Push(chart, Deletion(NoInstance, -1, {e}))

\* The parts of a chart that a deletion can be of.
Plain(E) == CommentsOn(E) = {} /\ E \cap Creates = {}

Commands ==
  \/ "instance" \in kinds /\ \E i \in Instances, pos \in -1..Len(chart.instances) :
       PushInstance(i, pos)
  \/ "event" \in kinds /\ \E e \in Locals, i \in Instances, pos \in 0..Cardinality(Events) :
       PushLocal(e, i, pos)
  \/ "event" \in kinds /\ \E e \in {m \in Messages : NewEvent(m)}, s, t \in Ends :
       \E at \in Placements(chart, e, {s, t} \ {NoInstance}) : PushMessage(e, s, t, at)
  \/ "comment" \in kinds /\ \E e \in Comments : PushComment(e) \/ PushUncomment(e)
  \/ "local" \in kinds /\ \E e \in Locals, i \in Instances, pos \in 0..Cardinality(Events) :
       MoveLocal(e, i, pos)
  \/ "points" \in kinds /\ \E e \in Messages \ Creates :
       \E at \in Placements(chart, e, EndsOf(chart, e)) : MoveMessage(e, at)
  \/ "resize" \in kinds /\ \E e \in Messages \ Creates, end \in {"tail", "head"},
         i \in Instances, pos \in 0..Cardinality(Events) : RetargetMessage(e, end, i, pos)
  \/ "order" \in kinds /\ \E i \in Instances, pos \in 0..Cardinality(Instances) :
       MoveInstance(i, pos)
  \/ "delete" \in kinds /\ \E e \in Events : Plain({e}) /\ DeleteEvent(e)
  \/ "delete" \in kinds /\ \E i \in Instances :
       Plain(MessagesOf(chart, {i})) /\ DeleteInstance(i)
  \/ "deleteAny" \in kinds /\ \E e \in Events : DeleteEvent(e)
  \/ "deleteAny" \in kinds /\ \E i \in Instances : DeleteInstance(i)

Next ==
  /\ chart.alive
  /\ UNCHANGED kinds
  /\ Commands \/ UndoOne \/ RedoOne \/ ("save" \in kinds /\ \E ok \in SaveOutcomes : Save(ok))

Spec == Init /\ [][Next]_vars
-------------------------------------------------------------------------------
(* Properties.                                                                 *)

\* The undo of a deletion that takes comments or creation with it, and that of a
\* retarget, leave something else than there was; so may that of any deletion where
\* comments are made, as it keeps pointers to them.
Exact == kinds \cap {"deleteAny", "resize", "second"} = {} /\ ~({"comment", "delete"} \subseteq kinds)

\* Undo and redo bring back exactly the charts the user had, whatever was done,
\* undone and merged between: the stack and its commands implement UndoHistory.
History == INSTANCE UndoHistory WITH
  document <- View(chart),
  past     <- SubSeq(views, 1, index),
  future   <- SubSeq(views, index + 2, Len(views))
UndoRedoIsHistory == History!Spec

\* The same of the sessions whose commands are exact.
ExactHistory == INSTANCE UndoHistory WITH
  document <- IF Exact THEN View(chart) ELSE << >>,
  past     <- IF Exact THEN SubSeq(views, 1, index) ELSE << >>,
  future   <- IF Exact THEN SubSeq(views, index + 2, Len(views)) ELSE << >>
ExactUndoIsHistory == ExactHistory!Spec

\* "needSave: Check if the model is modified since the last save" (mainmodel.cpp:284):
\* when the stack is clean the file holds the chart.
CleanIsSaved == Exact /\ clean = index => View(chart) = saved

\* Whatever is undone and redone, the lists and the pointers of the events agree: no
\* half of a message is left on a lifeline, and no event points to a deleted instance.
PointersMatchLists ==
  \A e \in InChart(chart) \ Shared : \A i \in Instances :
    RelatesTo(chart, e, i) <=> i \in InstancesIn /\ e \in Range(Lifeline(chart, i))

\* Neither a command nor its undo lists a destroyed event or gives a list a position
\* it lacks.
DefinedSteps == chart.alive

\* An instance's explicit creator and the create messages of the chart agree.
CreatorHasCreate ==
  \A i \in InstancesIn :
    {chart.source[e] : e \in {x \in Creates \cap InChart(chart) : chart.target[x] = i}}
      = {chart.creator[i]} \ {NoInstance}

\* No undo leaves an event twice on a lifeline, at once or later.
NoDuplicates == \A i \in DOMAIN chart.events : NoRepeat(chart.events[i])
===============================================================================
