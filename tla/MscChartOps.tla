----------------------------- MODULE MscChartOps ------------------------------
(* One message sequence chart (msc::MscChart): the ordered instances, one list *)
(* of events per instance (m_events, "lifelines"), the events that are on no   *)
(* lifeline (m_orphanEvents), and the pointers the events keep back to their   *)
(* instances.  Membership of an event in the lists and its pointers are two    *)
(* records of one fact, kept in step by hand and by Qt signals.                *)
EXTENDS MscLists

CONSTANTS Instances,   \* MscInstance objects
          Messages,    \* MscMessage objects, those of MscCreate included
          Creates,     \* the MscCreate objects
          Locals,      \* events of one instance: actions, timers, coregion
                       \* ends and conditions that are not shared
          Shared,      \* shared conditions, which relate to every instance
          Comments,    \* MscComment objects, which relate to none
          NoInstance,  \* nullptr
          MaxSlots     \* bound: connections are counted up to this number

Events == Messages \cup Locals \cup Shared \cup Comments
Ends == Instances \cup {NoInstance}

ASSUME ChartAssumption ==
  /\ NoInstance \notin Instances
  /\ Creates \subseteq Messages
  /\ Messages \cap Locals = {}
  /\ Shared \cap (Messages \cup Locals) = {}
  /\ Comments \cap (Messages \cup Locals \cup Shared) = {}
  /\ MaxSlots \in Nat /\ MaxSlots >= 2
  /\ IsFiniteSet(Instances) /\ IsFiniteSet(Events)

-------------------------------------------------------------------------------
(* A chart is a record:                                                        *)
(*   instances  m_instances                                                    *)
(*   events     m_events, a QHash: a function on the instances that are keys   *)
(*   orphans    m_orphanEvents                                                 *)
(*   source     MscMessage::m_source, and m_instance of the other events       *)
(*   target     MscMessage::m_target                                           *)
(*   creator    MscInstance::m_explicitCreator                                 *)
(*   slots      how often the chart is connected to the event's                *)
(*              instanceRelationChanged signal                                 *)
(*   alive      no qFatal, no list was given a position it does not have, and   *)
(*              no destroyed event is listed                                    *)
Fields == {"instances", "events", "orphans", "source", "target", "creator", "slots", "alive"}
IsChart(c) ==
  /\ DOMAIN c = Fields
  /\ c.instances \in Seq(Instances)
  /\ DOMAIN c.events \subseteq Instances
  /\ c.events \in [DOMAIN c.events -> Seq(Events)]
  /\ c.orphans \in Seq(Events)
  /\ c.source \in [Events -> Ends]
  /\ c.target \in [Events -> Ends]
  /\ c.creator \in [Instances -> Ends]
  /\ c.slots \in [Events -> 0..MaxSlots]
  /\ c.alive \in BOOLEAN

EmptyChart ==
  [instances |-> << >>,
   events    |-> [i \in {} |-> << >>],
   orphans   |-> << >>,
   source    |-> [e \in Events |-> NoInstance],
   target    |-> [e \in Events |-> NoInstance],
   creator   |-> [i \in Instances |-> NoInstance],
   slots     |-> [e \in Events |-> 0],
   alive     |-> TRUE]

\* The number of connections, as far as it is counted.
Counted(n) == IF n > MaxSlots THEN MaxSlots ELSE n

\* A position for one instance (ChartIndex), and a map of positions with one set.
AtOnly(i, pos) == [j \in {i} |-> pos]
WithPosition(at, i, pos) == [j \in DOMAIN at \cup {i} |-> IF j = i THEN pos ELSE at[j]]

\* m_events[i]: the list under a key, empty when there is no such key.
Lifeline(c, i) == IF i \in DOMAIN c.events THEN c.events[i] ELSE << >>
SetLifeline(c, i, s) ==
  [c EXCEPT !.events = [j \in DOMAIN c.events \cup {i} |->
                          IF j = i THEN s ELSE c.events[j]]]

InChart(c) == Range(c.orphans) \cup UNION {Range(c.events[i]) : i \in DOMAIN c.events}

\* MscInstanceEvent::relatesTo of the event classes.
RelatesTo(c, e, i) ==
  \/ e \in Shared
  \/ e \in Messages \cup Locals /\ c.source[e] = i
  \/ e \in Messages /\ c.target[e] = i

\* The lifelines an event is on, with its position on each: MscChart::indicesOfEvent.
IndicesOfEvent(c, e) ==
  [i \in {j \in DOMAIN c.events : e \in Range(c.events[j])} |-> IndexOf(c.events[i], e)]
-------------------------------------------------------------------------------
(* The operations, as functions from a chart to a chart.                       *)

\* An orphan that relates to the new instance is put on its lifeline as well; one
\* that is there already is a qFatal.
AddInstance(c, i, pos) ==
  LET related == KeepOnly(c.orphans, {e \in Events : RelatesTo(c, e, i)})
  IN  IF i \in Range(c.instances) THEN c
      ELSE SetLifeline([c EXCEPT
                          !.instances = InsertOrAppend(@, pos, i),
                          !.alive = @ /\ Range(related) \cap Range(Lifeline(c, i)) = {}],
                       i, Lifeline(c, i) \o related)

RemoveInstance(c, i) ==
  IF i \notin Range(c.instances) THEN c
  ELSE [c EXCEPT !.instances = RemoveAll(@, i), !.events = Restrict(@, DOMAIN @ \ {i})]

\* The positions a create message is given in place of the caller's (at): the
\* first place on the created lifeline, and on the creating one the place before
\* the first message with the same target.
CreatePositions(c, e, at) ==
  LET s     == c.source[e]
      t     == c.target[e]
      line  == Lifeline(c, s)
      same  == {k \in DOMAIN line : line[k] \in Messages /\ c.target[line[k]] = t}
      first == CHOOSE k \in same : \A j \in same : k <= j
      home  == c.source[line[first]]
      front == IF t = NoInstance THEN at ELSE WithPosition(at, t, 0)
  IN  IF same = {} THEN front
      ELSE WithPosition(front, home, IndexOf(Lifeline(c, home), line[first]))

\* (The -Keeping, -Without, -Of and -By definitions are wrong forms of the definition
\* that follows them, which the properties must tell from the right one.)
AddInstanceEventWithoutConnect(c, e, at) ==
  [c EXCEPT
     !.events  = [i \in DOMAIN @ \cup DOMAIN at |->
                    IF i \in DOMAIN at THEN InsertOrAppend(Lifeline(c, i), at[i], e) ELSE @[i]],
     !.orphans = IF DOMAIN at = {} THEN Append(@, e) ELSE @]

\* MscChart::addInstanceEvent; at maps each instance to a position, -1 the end.
AddInstanceEvent(c, e, at) ==
  IF \E i \in DOMAIN at : ~RelatesTo(c, e, i) \/ i \notin DOMAIN c.events THEN c
  ELSE LET create == e \in Creates
           s  == c.source[e]
           t  == c.target[e]
           c1 == IF create /\ t # NoInstance THEN [c EXCEPT !.creator[t] = s] ELSE c
           \* reading m_events[source] makes the key
           c2 == IF create THEN SetLifeline(c1, s, Lifeline(c1, s)) ELSE c1
           at2 == IF create THEN CreatePositions(c2, e, at) ELSE at
       IN  [c2 EXCEPT
              !.events  = [i \in DOMAIN @ \cup DOMAIN at2 |->
                             IF i \in DOMAIN at2
                             THEN InsertOrAppend(Lifeline(c2, i), at2[i], e)
                             ELSE @[i]],
              !.orphans = IF DOMAIN at2 = {} THEN Append(@, e) ELSE @,
              !.slots[e] = Counted(@ + 1)]

RemoveInstanceEventsKeepingCreator(c, E) ==
  [c EXCEPT
     !.events  = [i \in DOMAIN @ |-> KeepOnly(@[i], Events \ E)],
     !.orphans = KeepOnly(@, Events \ E),
     !.slots   = [e \in Events |-> IF e \in E \cap InChart(c) THEN 0 ELSE @[e]]]

\* MscChart::removeInstanceEvent, of each event of a set
RemoveInstanceEvents(c, E) ==
  [c EXCEPT
     !.events  = [i \in DOMAIN @ |-> KeepOnly(@[i], Events \ E)],
     !.orphans = KeepOnly(@, Events \ E),
     !.creator = [i \in Instances |->
                    IF \E e \in E \cap Creates : c.target[e] = i THEN NoInstance ELSE @[i]],
     !.slots   = [e \in Events |-> IF e \in E \cap InChart(c) THEN 0 ELSE @[e]]]

MoveBetweenLifelinesKeepingOld(c, e, added, removed) ==
  IF added = NoInstance THEN c
  ELSE SetLifeline(c, added, Append(Lifeline(c, added), e))

\* MscChart::eventInstanceChange, once
MoveBetweenLifelines(c, e, added, removed) ==
  LET c1 == IF removed \in DOMAIN c.events /\ removed # NoInstance
            THEN SetLifeline(c, removed, RemoveOne(c.events[removed], e)) ELSE c
  IN  IF added = NoInstance THEN c1
      ELSE SetLifeline(c1, added, Append(Lifeline(c1, added), e))

\* instanceRelationChanged runs the slot once per connection; after the second time
\* each further one only appends the event once more.
EmitRelationChanged(c, e, added, removed) ==
  CASE c.slots[e] = 0 -> c
    [] c.slots[e] = 1 -> MoveBetweenLifelines(c, e, added, removed)
    [] OTHER -> MoveBetweenLifelines(MoveBetweenLifelines(c, e, added, removed),
                                     e, added, removed)

SetSource(c, e, i) ==
  IF i \in {c.source[e], c.target[e]} THEN c
  ELSE EmitRelationChanged([c EXCEPT !.source[e] = i], e, i, c.source[e])

SetTarget(c, e, i) ==
  IF i \in {c.source[e], c.target[e]} THEN c
  ELSE EmitRelationChanged([c EXCEPT !.target[e] = i], e, i, c.target[e])

MoveEventBySwap(c, e, at) ==
  IF \E i \in DOMAIN at : at[i] \notin 0..(Len(Lifeline(c, i)) - 1)
  THEN [c EXCEPT !.alive = FALSE]
  ELSE [c EXCEPT !.events = [i \in DOMAIN @ |->
         IF i \in DOMAIN at /\ e \in Range(c.events[i])
         THEN LET j == at[i] + 1
                  k == IndexOf(c.events[i], e) + 1
              IN  [c.events[i] EXCEPT ![j] = e, ![k] = c.events[i][j]]
         ELSE @[i]]]
MoveEventWithoutRemoval(c, e, at) ==
  IF IndicesOfEvent(c, e) = at THEN c
  ELSE IF \E i \in DOMAIN at : ~InsertDefined(Lifeline(c, i), at[i])
  THEN [c EXCEPT !.alive = FALSE]
  ELSE [c EXCEPT !.events = [i \in DOMAIN @ \cup DOMAIN at |->
                               IF i \in DOMAIN at
                               THEN InsertAtPos(Lifeline(c, i), at[i], e)
                               ELSE @[i]]]

\* MscChart::moveEvent
MoveEvent(c, e, at) ==
  IF IndicesOfEvent(c, e) = at THEN c
  ELSE IF \E i \in DOMAIN at : ~InsertDefined(RemoveAll(Lifeline(c, i), e), at[i])
  THEN [c EXCEPT !.alive = FALSE]
  ELSE [c EXCEPT !.events = [i \in DOMAIN @ \cup DOMAIN at |->
                               IF i \in DOMAIN at
                               THEN InsertAtPos(RemoveAll(Lifeline(c, i), e), at[i], e)
                               ELSE @[i]]]

\* MscChart::setEventInstance of an event of one instance
SetEventInstance(c, e, i) ==
  IF c.source[e] = i THEN c
  ELSE AddInstanceEvent([RemoveInstanceEvents(c, {e}) EXCEPT !.source[e] = i], e, AtOnly(i, -1))

\* MscChart::setInstanceEvents.  An event is kept when it stays on a lifeline and
\* destroyed when it does not; for the orphans the code tests the new list and so
\* destroys those that were not in the old one.  Only lifelines are connected, and
\* an event once for every lifeline it is on.
SetInstanceEvents(c, events, orphans) ==
  LET stays(i)  == IF i \in DOMAIN events THEN Range(events[i]) ELSE {}
      kept      == UNION {Range(c.events[i]) \cap stays(i) : i \in DOMAIN c.events}
                     \cup (Range(orphans) \cap Range(c.orphans))
      destroyed == UNION {Range(c.events[i]) \ stays(i) : i \in DOMAIN c.events}
                     \cup (Range(orphans) \ Range(c.orphans))
      listed    == Range(orphans) \cup UNION {Range(events[i]) : i \in DOMAIN events}
      on(e)     == {i \in DOMAIN events : e \in Range(events[i])}
  IN  [c EXCEPT
         !.events  = events,
         !.orphans = orphans,
         !.slots   = [e \in Events |-> 
                        Counted((IF e \in kept THEN 0 ELSE @[e]) + Cardinality(on(e)))],
         !.alive   = @ /\ destroyed \cap listed = {}]

\* updateActionPos, updateTimerPos and updateConditionPos of an unshared condition
UpdateLocalPos(c, e, i, pos) == MoveEvent(SetEventInstance(c, e, i), e, AtOnly(i, pos))

\* updateInstanceOrder: QVector::move is a takeAt and an insert
UpdateInstanceOrder(c, i, pos) ==
  [c EXCEPT !.instances = InsertAtPos(RemoveAll(@, i), pos, i)]

\* MscChart::updateMessageTarget; end is the end that moves
UpdateMessageTarget(c, e, i, pos, end) ==
  LET d == IF RelatesTo(c, e, i) THEN c
           ELSE IF end = "tail" THEN SetSource(c, e, i) ELSE SetTarget(c, e, i)
      s == d.source[e]
      t == d.target[e]
      here(j) == IndexOf(Lifeline(d, j), e)
      at == IF t # NoInstance
            THEN IF s = NoInstance THEN AtOnly(t, pos)
                 ELSE WithPosition(AtOnly(t, pos), s, here(s))
            ELSE IF s = NoInstance THEN [j \in {} |-> 0] ELSE AtOnly(s, pos)
  IN  MoveEvent(d, e, at)
-------------------------------------------------------------------------------
(* The editor's calls.  Positions come from the layout manager, which counts    *)
(* the items above the mouse: ChartLayoutManager::eventInstanceIndex counts     *)
(* among the other events that relate to the instance.                         *)

Others(c, e, i) == {x \in InChart(c) \ {e} : RelatesTo(c, x, i)}
DropPositions(c, e, i) == 0..Cardinality(Others(c, e, i))
Placements(c, e, S) ==
  {at \in [S -> 0..Cardinality(Events)] : \A i \in S : at[i] \in DropPositions(c, e, i)}

\* The instances an event points to, and the event with other ends.
EndsOf(c, e) == {c.source[e], c.target[e]} \ {NoInstance}
WithEnds(c, e, s, t) == [c EXCEPT !.source[e] = s, !.target[e] = t]

\* The creators of s, their creators and so on.
CreatorsOf(c, s) ==
  LET up[n \in 0..Cardinality(Instances)] ==
        IF n = 0 THEN s
        ELSE IF up[n - 1] = NoInstance THEN NoInstance ELSE c.creator[up[n - 1]]
  IN  {up[n] : n \in 1..Cardinality(Instances)} \ {NoInstance}

ValidCreateOfEnvironment(c, s, t) ==
  /\ t # NoInstance
  /\ c.creator[t] = NoInstance
  /\ t \notin CreatorsOf(c, s)
ValidCreateWithoutChain(c, s, t) ==
  /\ NoInstance \notin {s, t}
  /\ c.creator[t] = NoInstance
ValidCreateWithoutCreator(c, s, t) ==
  /\ NoInstance \notin {s, t}
  /\ t \notin CreatorsOf(c, s)

\* MessageCreatorTool::validateCreate
ValidCreate(c, s, t) ==
  /\ NoInstance \notin {s, t}
  /\ c.creator[t] = NoInstance
  /\ t \notin CreatorsOf(c, s)

\* What CmdDeleteEntity deletes along with a set of instances: it takes them out
\* one after the other and then looks for the messages of each in what is left of
\* the chart, so a message that is on no other lifeline is not found.
MessagesOfSource(c, D) == {e \in InChart(c) \cap Messages : c.source[e] \in D}
MessagesOf(c, D) ==
  {e \in Messages : \E d \in D : RelatesTo(c, e, d) /\
     \E i \in DOMAIN c.events :
       /\ e \in Range(c.events[i])
       /\ i \in D => IndexOf(c.instances, i) > IndexOf(c.instances, d)}
===============================================================================
