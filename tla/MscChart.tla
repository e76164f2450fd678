------------------------------- MODULE MscChart -------------------------------
(* A chart under the editor's commands: every interleaving of the commands of  *)
(* libmsceditor, each applied to whatever chart the earlier ones left.         *)
EXTENDS MscChartOps

VARIABLE chart

InstancesIn == Range(chart.instances)

\* An object the chart neither holds nor listens to: a newly made one.
FreshEvent(e) == e \notin InChart(chart) /\ chart.slots[e] = 0

Init == chart = EmptyChart

\* CmdInstanceItemCreate::redo, for an instance no event of the chart mentions
CreateInstance(i, pos) ==
  /\ i \notin InstancesIn
  /\ \A e \in Events \ Shared : RelatesTo(chart, e, i) => FreshEvent(e)
  /\ chart' = AddInstance(chart, i, pos)

\* CmdInstanceItemCreate::undo: what followed it is undone, the lifeline empty
UncreateInstance(i) ==
  /\ i \in InstancesIn
  /\ Lifeline(chart, i) = << >>
  /\ chart' = RemoveInstance(chart, i)

\* CmdDeleteEntity on an instance: it goes, then the messages that relate to it.
\* Its actions, timers and conditions are left outside the chart.
DeleteInstance(i) ==
  /\ i \in InstancesIn
  /\ chart' = RemoveInstanceEvents(RemoveInstance(chart, i), MessagesOf(chart, {i}))

\* CmdActionItemCreate, CmdTimerItemCreate, CmdConditionItemCreate
CreateLocal(e, i, pos) ==
  /\ FreshEvent(e)
  /\ i \in InstancesIn
  /\ pos \in DropPositions(chart, e, i)
  /\ chart' = AddInstanceEvent(WithEnds(chart, e, i, NoInstance), e, AtOnly(i, pos))

\* CmdConditionItemCreate of a shared condition, over all instances
CreateShared(e, at) ==
  /\ FreshEvent(e)
  /\ InstancesIn # {}
  /\ at \in Placements(chart, e, InstancesIn)
  /\ chart' = AddInstanceEvent(chart, e, at)

\* CmdMessageItemCreate
CreateMessage(e, s, t, at) ==
  /\ FreshEvent(e)
  /\ s # t /\ {s, t} \subseteq InstancesIn \cup {NoInstance}
  /\ e \in Creates => ValidCreate(chart, s, t)
  /\ at \in Placements(chart, e, {s, t} \ {NoInstance})
  /\ chart' = AddInstanceEvent(WithEnds(chart, e, s, t), e, at)

\* CmdEntityCommentChange, which adds the comment whether or not it is there yet
SetComment(e) ==
  /\ chart.slots[e] < MaxSlots
  /\ chart' = AddInstanceEvent(chart, e, [i \in {} |-> 0])

\* CmdDeleteEntity on an event, and the undo of the commands that create one
DeleteEvent(e) ==
  /\ e \in InChart(chart)
  /\ chart' = RemoveInstanceEvents(chart, {e})

\* CmdActionItemMove, CmdTimerItemMove, CmdConditionItemMove
MoveLocal(e, i, pos) ==
  /\ e \in InChart(chart)
  /\ i \in InstancesIn
  /\ pos \in DropPositions(chart, e, i)
  /\ chart' = UpdateLocalPos(chart, e, i, pos)

\* CmdConditionItemMove of a shared condition moves it on one lifeline
MoveShared(e, i, pos) ==
  /\ e \in InChart(chart)
  /\ i \in InstancesIn
  /\ pos \in DropPositions(chart, e, i)
  /\ chart' = MoveEvent(chart, e, AtOnly(i, pos))

\* MessageItem::onManualGeometryChangeFinished: an end was dropped on an instance
\* that is at neither end, or beside all of them (position -1).
RetargetMessage(e, end, i, pos) ==
  /\ e \in InChart(chart)
  /\ i \in InstancesIn \cup {NoInstance}
  /\ i \notin {chart.source[e], chart.target[e]}
  /\ i = NoInstance => {chart.source[e], chart.target[e]} \subseteq Instances
  /\ pos \in IF i = NoInstance THEN {-1} ELSE DropPositions(chart, e, i)
  /\ chart' = UpdateMessageTarget(chart, e, i, pos, end)

\* CmdMessagePointsEdit
MoveMessage(e, at) ==
  /\ e \in InChart(chart)
  /\ at \in Placements(chart, e, EndsOf(chart, e))
  /\ chart' = MoveEvent(chart, e, at)

\* CmdChangeInstanceOrder and ChartLayoutManager::onInstanceGeometryChanged
MoveInstance(i, pos) ==
  /\ i \in InstancesIn
  /\ pos \in 0..(Len(chart.instances) - 1)
  /\ chart' = UpdateInstanceOrder(chart, i, pos)

Next ==
  /\ chart.alive
  /\ \/ \E i \in Instances : \E pos \in -1..Len(chart.instances) : CreateInstance(i, pos)
     \/ \E i \in Instances : UncreateInstance(i) \/ DeleteInstance(i)
     \/ \E i \in Instances, pos \in 0..Cardinality(Instances) : MoveInstance(i, pos)
     \/ \E e \in Locals, i \in Instances, pos \in 0..Cardinality(Events) :
          CreateLocal(e, i, pos) \/ MoveLocal(e, i, pos)
     \/ \E e \in Shared : \E at \in Placements(chart, e, InstancesIn) : CreateShared(e, at)
     \/ \E e \in Shared, i \in Instances, pos \in 0..Cardinality(Events) : MoveShared(e, i, pos)
     \/ \E e \in Messages, s, t \in Ends :
          \E at \in Placements(chart, e, {s, t} \ {NoInstance}) : CreateMessage(e, s, t, at)
     \/ \E e \in Messages \ Creates, end \in {"tail", "head"}, i \in Ends,
          pos \in -1..Cardinality(Events) : RetargetMessage(e, end, i, pos)
     \/ \E e \in Messages \ Creates :
          \E at \in Placements(chart, e, EndsOf(chart, e)) : MoveMessage(e, at)
     \/ \E e \in Comments : SetComment(e)
     \/ \E e \in Events : DeleteEvent(e)

Spec == Init /\ [][Next]_chart
-------------------------------------------------------------------------------
(* Properties.  Every list operation of the chart has to keep the two records  *)
(* of where an event belongs, the lists and the event's own pointers, in step. *)

\* Every part of the chart has its type.
TypeOK == IsChart(chart)

\* No event is listed twice on a lifeline and no instance twice, however it got
\* there (insertion, signal, move): code that draws and writes the events takes
\* every entry for an event.
NoDuplicates ==
  /\ NoRepeat(chart.instances)
  /\ \A i \in DOMAIN chart.events : NoRepeat(chart.events[i])

\* An event is only on lifelines of instances it points to.
OnlyRelatedListed ==
  \A i \in DOMAIN chart.events : \A e \in Range(chart.events[i]) : RelatesTo(chart, e, i)

\* An event of the chart that is not a shared condition is on the lifeline of
\* every instance it points to, and each of these is in the chart: no retarget,
\* move or deletion leaves half a message or a pointer to a deleted instance.
RelatedListed ==
  \A e \in InChart(chart) \ Shared : \A i \in EndsOf(chart, e) :
    i \in InstancesIn /\ e \in Range(Lifeline(chart, i))

\* m_events has exactly the instances of the chart as keys.
KeysAreInstances == DOMAIN chart.events = InstancesIn

\* The chart hears exactly once of a change to an event it holds.  (Every mutator
\* of an event relies on the one slot call that moves it between two lifelines.)
ConnectedOnce == \A e \in InChart(chart) \ Comments : chart.slots[e] = 1

\* An instance has an explicit creator exactly when a create message of the chart
\* from that creator to it exists, and then only one does.
CreatorHasCreate ==
  \A i \in InstancesIn :
    LET creates == {e \in Creates \cap InChart(chart) : chart.target[e] = i}
    IN  /\ Cardinality(creates) <= 1
        /\ {chart.source[e] : e \in creates} = {chart.creator[i]} \ {NoInstance}

\* No instance is created, directly or through others, by itself.
NoCyclicCreation == \A i \in Instances : i \notin CreatorsOf(chart, i)

\* The user's edits move one thing at a time: whatever a command does to the lists,
\* some one event apart (or none, for which NoInstance stands), the events that stay
\* on a lifeline stay in their order, and so do the instances.
OrderKept(s, t, e) ==
  LET stay == (Range(s) \cap Range(t)) \ {e} IN KeepOnly(s, stay) = KeepOnly(t, stay)
OneEventMoves ==
  [][ /\ \E i \in Ends : OrderKept(chart.instances, chart'.instances, i)
      /\ \E e \in Events \cup {NoInstance} : \A i \in DOMAIN chart.events \cap DOMAIN chart'.events :
           OrderKept(chart.events[i], chart'.events[i], e) ]_chart

\* "create messages are the first event of created instances" (mscchart.cpp:208)
CreateIsFirst ==
  \A e \in Creates \cap InChart(chart) :
    LET line == Lifeline(chart, chart.target[e])
    IN  line # << >> /\ line[1] = e

\* A chart holds one event once, as testNoDuplicateMessage says of messages, and
\* so lists a comment once.
CommentsListedOnce == NoRepeat(chart.orphans)

\* "Move the given event vertically to the given position in the event sequence"
\* (mscchart.cpp:692): the position given is one the sequence has.
MovesStayInSequence == chart.alive
===============================================================================
