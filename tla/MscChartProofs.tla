---------------------------- MODULE MscChartProofs ----------------------------
(* The lists and the pointers of a chart agree after every sequence of the     *)
(* editor's commands, for any number of instances and events.                  *)
EXTENDS MscChart, MscListsProofs

\* The part of the invariant that every operation on its own keeps: every event
\* of a lifeline points to its instance, once, and the chart listens to it once;
\* only comments are orphans; comments and local events have no other end, and the
\* ends of a message differ.
Sound(c) ==
  /\ IsChart(c)
  /\ DOMAIN c.events = Range(c.instances)
  /\ NoRepeat(c.instances)
  /\ \A i \in DOMAIN c.events : NoRepeat(c.events[i])
  /\ \A i \in DOMAIN c.events : \A e \in Range(c.events[i]) : RelatesTo(c, e, i)
  /\ \A e \in InChart(c) \ Comments : c.slots[e] = 1
  /\ Range(c.orphans) \subseteq Comments
  /\ \A e \in Comments : c.source[e] = NoInstance /\ c.target[e] = NoInstance
  /\ \A e \in Locals : c.target[e] = NoInstance
  /\ \A e \in InChart(c) \cap Messages : c.source[e] # c.target[e]

\* The part that a deletion restores only at its end: an event of the chart is on
\* the lifeline of every instance it points to.
Complete(c) ==
  \A e \in InChart(c) \ Shared : \A i \in EndsOf(c, e) :
    i \in DOMAIN c.events /\ e \in Range(c.events[i])

IInv == Sound(chart) /\ Complete(chart)

\* What operations leave alone: from c to d only e changes its places, or only i of
\* the instances does while the events that stay keep their order; the create
\* messages and the creators stay as they are, or one is given or taken.
OnlyMoves(c, d, e) ==
  /\ d.instances = c.instances /\ DOMAIN d.events = DOMAIN c.events
  /\ \A i \in DOMAIN c.events : \A x, y \in Events \ {e} :
       /\ x \in Range(d.events[i]) <=> x \in Range(c.events[i])
       /\ Precedes(d.events[i], x, y) <=> Precedes(c.events[i], x, y)
InOrder(s, r, e) ==
  \A x, y \in (Range(s) \cap Range(r)) \ {e} : Precedes(s, x, y) <=> Precedes(r, x, y)
InstanceMoves(c, d, i) ==
  /\ InOrder(c.instances, d.instances, i)
  /\ \A j \in DOMAIN c.events \cap DOMAIN d.events : InOrder(c.events[j], d.events[j], NoInstance)
CreatorGiven(c, d, e) ==
  d.creator = IF e \in Creates THEN [c.creator EXCEPT ![c.target[e]] = c.source[e]] ELSE c.creator
CreatorsTaken(c, d, E) ==
  d.creator = [i \in Instances |-> IF \E e \in E \cap Creates : c.target[e] = i THEN NoInstance
                                   ELSE c.creator[i]]
CreateAdded(c, d, e, s, t) ==
  /\ d.source[e] = s /\ d.target[e] = t /\ d.creator = [c.creator EXCEPT ![t] = s]
  /\ InChart(d) = InChart(c) \cup {e}
  /\ \A x \in Creates \ {e} : d.source[x] = c.source[x] /\ d.target[x] = c.target[x]
SameCreates(c, d) ==
  /\ d.creator = c.creator
  /\ \A x \in Creates : /\ x \in InChart(d) <=> x \in InChart(c)
                        /\ x \in InChart(c) => d.source[x] = c.source[x] /\ d.target[x] = c.target[x]
-------------------------------------------------------------------------------
(* Charts and their lists.                                                     *)

\* An event is in the chart as an orphan or on a lifeline.
LEMMA InChartIs ==
  ASSUME NEW c, NEW e
  PROVE  e \in InChart(c) <=>
           \/ e \in Range(c.orphans)
           \/ \E i \in DOMAIN c.events : e \in Range(c.events[i])
  BY DEF InChart

LEMMA LeftAloneTwice ==
  ASSUME NEW a, NEW b, NEW c, NEW e
  PROVE  /\ OnlyMoves(a, b, e) /\ OnlyMoves(b, c, e) => OnlyMoves(a, c, e)
         /\ SameCreates(a, b) /\ SameCreates(b, c) => SameCreates(a, c)
  BY DEF OnlyMoves, SameCreates

\* Which instances an event points to is up to its ends alone.
LEMMA RelatesToSame ==
  ASSUME NEW c, NEW d, d.source = c.source, d.target = c.target, NEW e, NEW i
  PROVE  (RelatesTo(d, e, i) <=> RelatesTo(c, e, i)) /\ EndsOf(d, e) = EndsOf(c, e)
  BY DEF RelatesTo, EndsOf

\* What the lists of a chart are made of.
LEMMA ListsOfChart ==
  ASSUME NEW c, IsChart(c)
  PROVE  /\ c.instances \in Seq(Instances) /\ Range(c.instances) \subseteq Instances
         /\ c.orphans \in Seq(Events) /\ Range(c.orphans) \subseteq Events
         /\ \A i \in DOMAIN c.events : c.events[i] \in Seq(Events)
         /\ \A i \in DOMAIN c.events : Range(c.events[i]) \subseteq Events
<1>1. /\ c.instances \in Seq(Instances) /\ c.orphans \in Seq(Events)
      /\ \A i \in DOMAIN c.events : c.events[i] \in Seq(Events)
  BY DEF IsChart
<1>. QED  BY <1>1, RangeOfSeq

\* A sequence without members is empty, and adds nothing.
LEMMA NothingToAdd ==
  ASSUME NEW S, NEW s \in Seq(S), Range(s) = {}
  PROVE  << >> \o s = << >>
<1>1. Len(s) \in Nat /\ DOMAIN s = 1..Len(s)
  BY LenProperties
<1>2. Len(s) > 0 => 1 \in DOMAIN s
  BY <1>1
<1>3. 1 \notin DOMAIN s
  BY DEF Range
<1>4. s = << >>
  BY <1>1, <1>2, <1>3, EmptySeq
<1>. QED  BY <1>4, Zenon, ConcatEmptySeq

\* The empty list lists nothing.
LEMMA EmptyList ==
  << >> \in Seq(Events) /\ Range(<< >>) = {} /\ NoRepeat(<< >>)
  BY DEF Range, NoRepeat
-------------------------------------------------------------------------------
(* The initial chart.                                                          *)

\* It satisfies the invariant.
LEMMA EmptySound ==
  Sound(EmptyChart) /\ Complete(EmptyChart)
<1>. DEFINE c == EmptyChart
<1>1. /\ c.instances = << >> /\ c.orphans = << >> /\ DOMAIN c.events = {}
      /\ c.source = [e \in Events |-> NoInstance] /\ c.target = [e \in Events |-> NoInstance]
      /\ c.slots = [e \in Events |-> 0]
  BY DEF EmptyChart
<1>2. IsChart(c)
  BY ChartAssumption DEF EmptyChart, IsChart, Fields, Ends, ChartAssumption
<1>. HIDE DEF c
<1>3. InChart(c) = {}
  BY <1>1, EmptyList, InChartIs
<1>4. Comments \subseteq Events /\ Locals \subseteq Events
  BY DEF Events
<1>. QED  BY <1>1, <1>2, <1>3, <1>4, EmptyList DEF Sound, Complete, c

-------------------------------------------------------------------------------
(* Instances.                                                                  *)

\* An instance that nothing in the chart points to is added with an empty lifeline.
LEMMA AddInstanceSound ==
  ASSUME NEW c, Sound(c), Complete(c), NEW i \in Instances, NEW pos \in Int,
         i \notin Range(c.instances),
         \A e \in Events \ Shared : RelatesTo(c, e, i) => e \notin InChart(c)
  PROVE  LET d == AddInstance(c, i, pos)
         IN  /\ Sound(d) /\ Complete(d) /\ SameCreates(c, d)
             /\ d.instances = InsertOrAppend(c.instances, pos, i)
             /\ \A j \in DOMAIN c.events : d.events[j] = c.events[j]
<1>. DEFINE d       == AddInstance(c, i, pos)
            related == KeepOnly(c.orphans, {e \in Events : RelatesTo(c, e, i)})
<1>1. IsChart(c) /\ i \notin DOMAIN c.events
  BY DEF Sound
<1>2. \A e \in Range(c.orphans) : ~RelatesTo(c, e, i)
  BY ChartAssumption DEF Sound, RelatesTo, ChartAssumption, Ends
<1>3. related \in Seq(Events) /\ Range(related) = {}
  <2>1. c.orphans \in Seq(Events)
    BY <1>1, ListsOfChart
  <2>2. /\ related \in Seq(Events)
        /\ Range(related) = Range(c.orphans) \cap {e \in Events : RelatesTo(c, e, i)}
    BY <2>1, KeepOnlyProperties
  <2>. QED  BY <1>2, <2>2
<1>. HIDE DEF related
<1>4. << >> \o related = << >>
  BY <1>3, NothingToAdd
<1>5. Lifeline(c, i) = << >>
  BY <1>1 DEF Lifeline
<1>6. d = [[c EXCEPT !.instances = InsertOrAppend(c.instances, pos, i),
                     !.alive = c.alive /\ Range(related) \cap Range(<< >>) = {}]
             EXCEPT !.events = [j \in DOMAIN c.events \cup {i} |->
                                  IF j = i THEN << >> ELSE c.events[j]]]
  BY <1>1, <1>4, <1>5 DEF AddInstance, SetLifeline, related, IsChart, Fields
<1>. HIDE DEF d
<1>7. /\ d.instances = InsertOrAppend(c.instances, pos, i)
      /\ d.events = [j \in DOMAIN c.events \cup {i} |-> IF j = i THEN << >> ELSE c.events[j]]
      /\ d.orphans = c.orphans /\ d.source = c.source /\ d.target = c.target
      /\ d.slots = c.slots /\ d.creator = c.creator
      /\ d.alive \in BOOLEAN /\ DOMAIN d = Fields
  BY <1>1, <1>6 DEF IsChart, Fields
<1>8. /\ d.instances \in Seq(Instances)
      /\ Range(d.instances) = Range(c.instances) \cup {i}
      /\ NoRepeat(d.instances)
  <2>1. c.instances \in Seq(Instances) /\ NoRepeat(c.instances)
    BY <1>1, ListsOfChart DEF Sound
  <2>. DEFINE r == InsertOrAppend(c.instances, pos, i)
  <2>2. r \in Seq(Instances)
    BY <2>1, InsertOrAppendProperties
  <2>3. Range(r) = Range(c.instances) \cup {i}
    BY <2>1, InsertOrAppendProperties
  <2>4. NoRepeat(r)
    BY <2>1, InsertOrAppendProperties, Zenon
  <2>. QED  BY <1>7, <2>2, <2>3, <2>4, Zenon
<1>9. IsChart(d)
  BY <1>1, <1>7, <1>8, EmptyList DEF IsChart
<1>10. \A e : e \in InChart(d) <=> e \in InChart(c)
  BY <1>1, <1>7, EmptyList, InChartIs
<1>11. Sound(d)
  BY <1>1, <1>7, <1>8, <1>9, <1>10, EmptyList DEF Sound, RelatesTo
<1>12. Complete(d)
  BY <1>1, <1>7, <1>10 DEF Complete, EndsOf
<1>13. SameCreates(c, d)
  BY <1>7, <1>10 DEF SameCreates
<1>14. \A j \in DOMAIN c.events : d.events[j] = c.events[j]
  BY <1>1, <1>7
<1>. QED  BY <1>7, <1>11, <1>12, <1>13, <1>14 DEF d

\* What taking an instance out changes.
LEMMA RemoveInstanceSound ==
  ASSUME NEW c, Sound(c), NEW i \in Range(c.instances)
  PROVE  LET d == RemoveInstance(c, i)
         IN  /\ Sound(d)
             /\ d.source = c.source /\ d.target = c.target
             /\ DOMAIN d.events = DOMAIN c.events \ {i}
             /\ \A j \in DOMAIN d.events : d.events[j] = c.events[j]
             /\ d.orphans = c.orphans /\ d.creator = c.creator
             /\ d.instances = RemoveAll(c.instances, i)
<1>. DEFINE d == RemoveInstance(c, i)
<1>1. IsChart(c)
  BY DEF Sound
<1>2. /\ d.instances = RemoveAll(c.instances, i)
      /\ d.events = [j \in DOMAIN c.events \ {i} |-> c.events[j]]
      /\ d.orphans = c.orphans /\ d.source = c.source /\ d.target = c.target
      /\ d.slots = c.slots /\ d.creator = c.creator /\ d.alive = c.alive
      /\ DOMAIN d = Fields
  BY <1>1 DEF RemoveInstance, Restrict, IsChart, Fields
<1>. HIDE DEF d
<1>3. /\ d.instances \in Seq(Instances)
      /\ Range(d.instances) = Range(c.instances) \ {i}
      /\ NoRepeat(d.instances)
  <2>1. /\ RemoveAll(c.instances, i) \in Seq(Instances)
        /\ Range(RemoveAll(c.instances, i)) = Range(c.instances) \cap (Range(c.instances) \ {i})
        /\ NoRepeat(RemoveAll(c.instances, i))
    BY <1>1, ListsOfChart, KeepOnlyProperties DEF Sound, RemoveAll
  <2>. QED  BY <1>2, <2>1
<1>4. IsChart(d)
  BY <1>1, <1>2, <1>3 DEF IsChart
<1>5. \A e : e \in InChart(d) => e \in InChart(c)
  BY <1>2, InChartIs
<1>6. Sound(d)
  BY <1>2, <1>3, <1>4, <1>5 DEF Sound, RelatesTo
<1>. QED  BY <1>2, <1>6 DEF d

\* What taking events out changes: they are on no list any more.
LEMMA RemoveEventsSound ==
  ASSUME NEW c, Sound(c), NEW E
  PROVE  LET d == RemoveInstanceEvents(c, E)
         IN  /\ Sound(d)
             /\ d.instances = c.instances
             /\ d.source = c.source /\ d.target = c.target
             /\ DOMAIN d.events = DOMAIN c.events
             /\ \A j \in DOMAIN c.events : Range(d.events[j]) = Range(c.events[j]) \ E
             /\ InChart(d) = InChart(c) \ E
             /\ \A e \in E \cap InChart(c) : d.slots[e] = 0
             /\ CreatorsTaken(c, d, E)
             /\ \A j \in DOMAIN c.events : \A x, y \in Events \ E :
                  Precedes(d.events[j], x, y) <=> Precedes(c.events[j], x, y)
<1>. DEFINE d == RemoveInstanceEvents(c, E)
<1>1. IsChart(c)
  BY DEF Sound
<1>2. /\ d.instances = c.instances
      /\ d.events = [j \in DOMAIN c.events |-> KeepOnly(c.events[j], Events \ E)]
      /\ d.orphans = KeepOnly(c.orphans, Events \ E)
      /\ d.source = c.source /\ d.target = c.target
      /\ d.creator = [i \in Instances |->
                        IF \E e \in E \cap Creates : c.target[e] = i THEN NoInstance
                        ELSE c.creator[i]]
      /\ d.slots = [e \in Events |-> IF e \in E \cap InChart(c) THEN 0 ELSE c.slots[e]]
      /\ d.alive = c.alive /\ DOMAIN d = Fields
  BY <1>1 DEF RemoveInstanceEvents, IsChart, Fields
<1>. HIDE DEF d
<1>3. \A j \in DOMAIN c.events :
        /\ d.events[j] \in Seq(Events)
        /\ Range(d.events[j]) = Range(c.events[j]) \ E
        /\ NoRepeat(d.events[j])
  <2>. SUFFICES ASSUME NEW j \in DOMAIN c.events
                PROVE  /\ d.events[j] \in Seq(Events)
                       /\ Range(d.events[j]) = Range(c.events[j]) \ E
                       /\ NoRepeat(d.events[j])
    OBVIOUS
  <2>1. c.events[j] \in Seq(Events) /\ Range(c.events[j]) \subseteq Events /\ NoRepeat(c.events[j])
    BY <1>1, ListsOfChart DEF Sound
  <2>2. d.events[j] = KeepOnly(c.events[j], Events \ E)
    BY <1>2
  <2>. QED  BY <2>1, <2>2, KeepOnlyProperties
<1>4. d.orphans \in Seq(Events) /\ Range(d.orphans) = Range(c.orphans) \ E
  <2>1. c.orphans \in Seq(Events) /\ Range(c.orphans) \subseteq Events
    BY <1>1, ListsOfChart
  <2>. QED  BY <1>2, <2>1, KeepOnlyProperties
<1>5. IsChart(d)
  <2>1. d.slots \in [Events -> 0..MaxSlots] /\ d.creator \in [Instances -> Ends]
    BY <1>1, <1>2, ChartAssumption DEF IsChart, Ends, ChartAssumption
  <2>. QED  BY <1>1, <1>2, <1>3, <1>4, <2>1 DEF IsChart
<1>6. ASSUME NEW e
      PROVE  e \in InChart(d) <=> e \in InChart(c) /\ e \notin E
  <2>1. e \in Range(d.orphans) <=> e \in Range(c.orphans) /\ e \notin E
    BY <1>4
  <2>2. \A j \in DOMAIN c.events : e \in Range(d.events[j]) <=> e \in Range(c.events[j]) /\ e \notin E
    BY <1>3
  <2>3. DOMAIN d.events = DOMAIN c.events
    BY <1>2
  <2>. QED  BY <2>1, <2>2, <2>3, InChartIs
<1>7. InChart(c) \subseteq Events
  BY <1>1, ListsOfChart, InChartIs
<1>8. Sound(d)
  <2>1. \A j \in DOMAIN d.events : \A e \in Range(d.events[j]) : RelatesTo(d, e, j)
    BY <1>2, <1>3, RelatesToSame DEF Sound
  <2>2. \A e \in InChart(d) \ Comments : d.slots[e] = 1
    BY <1>2, <1>6, <1>7 DEF Sound
  <2>3. Range(d.orphans) \subseteq Comments
    BY <1>4 DEF Sound
  <2>4. \A e \in InChart(d) \cap Messages : d.source[e] # d.target[e]
    BY <1>2, <1>6 DEF Sound
  <2>. QED  BY <1>2, <1>3, <1>5, <2>1, <2>2, <2>3, <2>4 DEF Sound
<1>9. ASSUME NEW j \in DOMAIN c.events, NEW x \in Events \ E, NEW y \in Events \ E
      PROVE  Precedes(d.events[j], x, y) <=> Precedes(c.events[j], x, y)
  <2>1. c.events[j] \in Seq(Events) /\ d.events[j] = KeepOnly(c.events[j], Events \ E)
    BY <1>1, <1>2, ListsOfChart
  <2>. QED  BY <2>1, KeepOnlyOrder
<1>10. CreatorsTaken(c, d, E)
  BY <1>2 DEF CreatorsTaken
<1>. QED  BY <1>2, <1>3, <1>6, <1>7, <1>8, <1>9, <1>10 DEF d

\* Without one event, the others are where they were.
LEMMA RemoveEventMoves ==
  ASSUME NEW c, Sound(c), NEW e
  PROVE  LET d == RemoveInstanceEvents(c, {e})
         IN  /\ OnlyMoves(c, d, e)
             /\ e \notin Creates => SameCreates(c, d)
<1>. DEFINE d == RemoveInstanceEvents(c, {e})
<1>1. /\ d.instances = c.instances
      /\ d.source = c.source /\ d.target = c.target
      /\ DOMAIN d.events = DOMAIN c.events
      /\ \A j \in DOMAIN c.events : Range(d.events[j]) = Range(c.events[j]) \ {e}
      /\ InChart(d) = InChart(c) \ {e}
      /\ CreatorsTaken(c, d, {e})
      /\ \A j \in DOMAIN c.events : \A x, y \in Events \ {e} :
           Precedes(d.events[j], x, y) <=> Precedes(c.events[j], x, y)
  BY RemoveEventsSound
<1>. HIDE DEF d
<1>2. OnlyMoves(c, d, e)
  BY <1>1 DEF OnlyMoves
<1>3. e \notin Creates => SameCreates(c, d)
  <2>1. c.creator \in [Instances -> Ends]
    BY DEF Sound, IsChart
  <2>. QED  BY <1>1, <2>1 DEF SameCreates, CreatorsTaken
<1>. QED  BY <1>2, <1>3 DEF d

-------------------------------------------------------------------------------
(* Adding events.                                                              *)

\* A create message between two instances gets a position on these two only: the
\* earlier message it is put before starts where it starts itself.
LEMMA CreatePositionsAt ==
  ASSUME NEW c, Sound(c), NEW e \in Creates, NEW at, at \in [DOMAIN at -> Int],
         DOMAIN at \subseteq DOMAIN c.events,
         c.source[e] \in DOMAIN at, c.target[e] \in DOMAIN at, c.source[e] # c.target[e]
  PROVE  LET a == CreatePositions(c, e, at)
         IN  DOMAIN a = DOMAIN at /\ a \in [DOMAIN at -> Int]
<1>. DEFINE s     == c.source[e]
            t     == c.target[e]
            line  == Lifeline(c, s)
            same  == {k \in DOMAIN line : line[k] \in Messages /\ c.target[line[k]] = t}
            first == CHOOSE k \in same : \A j \in same : k <= j
            home  == c.source[line[first]]
            front == IF t = NoInstance THEN at ELSE WithPosition(at, t, 0)
            p     == IndexOf(Lifeline(c, home), line[first])
<1>1. CreatePositions(c, e, at) = IF same = {} THEN front ELSE WithPosition(front, home, p)
  BY Zenon DEF CreatePositions
<1>2. front \in [DOMAIN at -> Int] /\ DOMAIN front = DOMAIN at
  BY DEF WithPosition
<1>3. IsChart(c) /\ s \in DOMAIN c.events /\ line = c.events[s] /\ line \in Seq(Events)
  BY ListsOfChart DEF Sound, Lifeline
<1>4. ASSUME same # {}
      PROVE  home = s /\ p \in Int
  <2>1. same \subseteq Nat
    BY <1>3, LenProperties
  <2>2. \E k \in same : \A j \in same : k <= j
    BY <1>4, <2>1, LeastNat
  <2>3. first \in same
    BY <2>2
  <2>. HIDE DEF first
  <2>4. line[first] \in Range(c.events[s]) /\ line[first] \in Messages /\ c.target[line[first]] = t
    BY <1>3, <2>3 DEF Range
  <2>5. RelatesTo(c, line[first], s)
    BY <1>3, <2>4 DEF Sound
  <2>6. home = s
    BY <2>4, <2>5, ChartAssumption DEF RelatesTo, ChartAssumption
  <2>7. NoRepeat(line)
    BY <1>3 DEF Sound
  <2>8. p = IndexOf(line, line[first]) /\ line[first] \in Range(line)
    BY <1>3, <2>4, <2>6
  <2>. HIDE DEF p, line, home
  <2>9. p \in 0..(Len(line) - 1)
    BY <1>3, <2>7, <2>8, IndexOfProperties
  <2>10. Len(line) \in Nat
    BY <1>3, LenProperties
  <2>. QED  BY <2>6, <2>9, <2>10
<1>. HIDE DEF home, p, same, front
<1>5. CASE same = {}
  BY <1>1, <1>2, <1>5
<1>6. CASE same # {}
  <2>1. DOMAIN WithPosition(front, home, p) = DOMAIN at
    BY <1>2, <1>4, <1>6 DEF WithPosition
  <2>2. WithPosition(front, home, p) \in [DOMAIN at -> Int]
    BY <1>2, <1>4, <1>6 DEF WithPosition
  <2>. QED  BY <1>1, <1>6, <2>1, <2>2
<1>. QED  BY <1>5, <1>6

\* What adding an event changes: it is on the lifelines it got a position for.
LEMMA AddEventSound ==
  ASSUME NEW c, Sound(c), NEW e \in Events, NEW at, at \in [DOMAIN at -> Int],
         DOMAIN at \subseteq DOMAIN c.events,
         \A i \in DOMAIN at : RelatesTo(c, e, i),
         e \notin Comments => e \notin InChart(c) /\ c.slots[e] = 0 /\ DOMAIN at # {},
         e \in Messages => c.source[e] # c.target[e],
         e \in Creates => c.source[e] \in DOMAIN at /\ c.target[e] \in DOMAIN at
  PROVE  LET d == AddInstanceEvent(c, e, at)
         IN  /\ Sound(d)
             /\ d.instances = c.instances
             /\ d.source = c.source /\ d.target = c.target
             /\ DOMAIN d.events = DOMAIN c.events
             /\ \A i \in DOMAIN at : Range(d.events[i]) = Range(c.events[i]) \cup {e}
             /\ \A i \in DOMAIN c.events \ DOMAIN at : d.events[i] = c.events[i]
             /\ InChart(d) = InChart(c) \cup {e}
             /\ OnlyMoves(c, d, e)
             /\ CreatorGiven(c, d, e)
<1>. DEFINE s   == c.source[e]
            t   == c.target[e]
            c1  == IF e \in Creates /\ t # NoInstance THEN [c EXCEPT !.creator[t] = s] ELSE c
            c2  == IF e \in Creates THEN SetLifeline(c1, s, Lifeline(c1, s)) ELSE c1
            at2 == IF e \in Creates THEN CreatePositions(c2, e, at) ELSE at
            d   == AddInstanceEvent(c, e, at)
<1>1. /\ IsChart(c) /\ DOMAIN c = Fields /\ s \in Ends
      /\ DOMAIN c.events \subseteq Instances /\ DOMAIN at \subseteq Instances
  BY DEF Sound, IsChart
<1>2. /\ c1.events = c.events /\ c1.instances = c.instances /\ c1.orphans = c.orphans
      /\ c1.source = c.source /\ c1.target = c.target /\ c1.slots = c.slots
      /\ c1.alive = c.alive /\ DOMAIN c1 = Fields
      /\ c1.creator \in [Instances -> Ends]
      /\ c1.creator = IF e \in Creates THEN [c.creator EXCEPT ![t] = s] ELSE c.creator
  <2>1. e \in Creates => t # NoInstance
    BY <1>1, ChartAssumption DEF ChartAssumption
  <2>. QED  BY <1>1, <2>1 DEF IsChart, Fields
<1>. HIDE DEF c1
<1>3. /\ c2.events = c.events /\ c2.instances = c.instances /\ c2.orphans = c.orphans
      /\ c2.source = c.source /\ c2.target = c.target /\ c2.slots = c.slots
      /\ c2.alive = c.alive /\ DOMAIN c2 = Fields
      /\ c2.creator \in [Instances -> Ends] /\ c2.creator = c1.creator
  <2>1. CASE e \notin Creates
    BY <1>2, <2>1
  <2>2. CASE e \in Creates
    <3>1. s \in DOMAIN c.events
      BY <2>2
    <3>2. [j \in DOMAIN c1.events \cup {s} |-> IF j = s THEN Lifeline(c1, s) ELSE c1.events[j]]
            = c.events
      BY <1>1, <1>2, <3>1 DEF Lifeline, IsChart
    <3>3. c2 = [c1 EXCEPT !.events = c.events]
      BY <2>2, <3>2 DEF SetLifeline
    <3>. QED  BY <1>2, <3>3 DEF Fields
  <2>. QED  BY <2>1, <2>2
<1>. HIDE DEF c2
<1>4. InChart(c2) = InChart(c) /\ Sound(c2)
  <2>1. InChart(c2) = InChart(c)
    BY <1>3 DEF InChart
  <2>2. IsChart(c2)
    BY <1>1, <1>3 DEF IsChart
  <2>. QED  BY <1>3, <2>1, <2>2, RelatesToSame DEF Sound
<1>5. DOMAIN at2 = DOMAIN at /\ at2 \in [DOMAIN at -> Int]
  <2>1. e \in Creates => e \in Messages
    BY ChartAssumption DEF ChartAssumption
  <2>. QED  BY <1>3, <1>4, <2>1, CreatePositionsAt
<1>6. d = [c2 EXCEPT
             !.events  = [i \in DOMAIN c2.events \cup DOMAIN at2 |->
                            IF i \in DOMAIN at2
                            THEN InsertOrAppend(Lifeline(c2, i), at2[i], e)
                            ELSE c2.events[i]],
             !.orphans = IF DOMAIN at2 = {} THEN Append(c2.orphans, e) ELSE c2.orphans,
             !.slots[e] = Counted(c2.slots[e] + 1)]
  <2>1. ~\E i \in DOMAIN at : ~RelatesTo(c, e, i) \/ i \notin DOMAIN c.events
    OBVIOUS
  <2>. QED  BY <2>1, Zenon DEF AddInstanceEvent, c1, c2
<1>. HIDE DEF at2, d
<1>7. /\ d.instances = c.instances
      /\ d.events = [i \in DOMAIN c.events |->
                       IF i \in DOMAIN at THEN InsertOrAppend(c.events[i], at2[i], e)
                       ELSE c.events[i]]
      /\ d.orphans = IF DOMAIN at = {} THEN Append(c.orphans, e) ELSE c.orphans
      /\ d.source = c.source /\ d.target = c.target /\ d.creator = c2.creator
      /\ d.slots = [c.slots EXCEPT ![e] = Counted(c.slots[e] + 1)]
      /\ d.alive = c.alive /\ DOMAIN d = Fields
  <2>1. \A i \in DOMAIN at : Lifeline(c2, i) = c.events[i]
    BY <1>3 DEF Lifeline
  <2>2. DOMAIN c2.events \cup DOMAIN at2 = DOMAIN c.events
    BY <1>3, <1>5
  <2>3. [i \in DOMAIN c2.events \cup DOMAIN at2 |->
            IF i \in DOMAIN at2 THEN InsertOrAppend(Lifeline(c2, i), at2[i], e)
            ELSE c2.events[i]]
          = [i \in DOMAIN c.events |->
               IF i \in DOMAIN at THEN InsertOrAppend(c.events[i], at2[i], e)
               ELSE c.events[i]]
    BY <1>3, <1>5, <2>1, <2>2
  <2>. QED  BY <1>3, <1>5, <1>6, <2>3 DEF Fields
<1>8. ASSUME NEW i \in DOMAIN at
      PROVE  /\ d.events[i] \in Seq(Events)
             /\ Range(d.events[i]) = Range(c.events[i]) \cup {e}
             /\ NoRepeat(d.events[i])
  <2>1. c.events[i] \in Seq(Events) /\ NoRepeat(c.events[i])
    BY <1>1, ListsOfChart DEF Sound
  <2>2. d.events[i] = InsertOrAppend(c.events[i], at2[i], e) /\ at2[i] \in Int
    BY <1>5, <1>7
  <2>3. e \notin Comments
    BY ChartAssumption DEF Sound, RelatesTo, ChartAssumption
  <2>4. e \notin Range(c.events[i])
    BY <2>3, InChartIs
  <2>5. \A line \in Seq(Events), p \in Int :
          NoRepeat(line) /\ e \notin Range(line) /\ d.events[i] = InsertOrAppend(line, p, e) =>
            /\ d.events[i] \in Seq(Events)
            /\ Range(d.events[i]) = Range(line) \cup {e}
            /\ NoRepeat(d.events[i])
    BY InsertedNew
  <2>. QED  BY <2>1, <2>2, <2>4, <2>5, Zenon
<1>9. \A i \in DOMAIN c.events \ DOMAIN at : d.events[i] = c.events[i]
  BY <1>7
<1>10. /\ d.orphans \in Seq(Events)
       /\ Range(d.orphans) = Range(c.orphans) \cup (IF DOMAIN at = {} THEN {e} ELSE {})
  <2>1. c.orphans \in Seq(Events)
    BY <1>1, ListsOfChart
  <2>2. /\ Append(c.orphans, e) \in Seq(Events)
        /\ Range(Append(c.orphans, e)) = Range(c.orphans) \cup {e}
    BY <2>1, AppendListProperties
  <2>. QED  BY <1>7, <2>1, <2>2
<1>11. c.slots[e] = 0 => d.slots[e] = 1
  BY <1>1, <1>7, ChartAssumption DEF IsChart, Counted, ChartAssumption
<1>12. d.slots \in [Events -> 0..MaxSlots]
  BY <1>1, <1>7, ChartAssumption DEF IsChart, Counted, ChartAssumption
<1>13. IsChart(d)
  <2>1. \A i \in DOMAIN d.events : d.events[i] \in Seq(Events)
    BY <1>1, <1>7, <1>8, <1>9, ListsOfChart
  <2>. QED  BY <1>1, <1>3, <1>7, <1>10, <1>12, <2>1 DEF IsChart
<1>14. ASSUME NEW x
       PROVE  x \in InChart(d) <=> x \in InChart(c) \/ x = e
  <2>1. x \in Range(d.orphans) <=> x \in Range(c.orphans) \/ (DOMAIN at = {} /\ x = e)
    BY <1>10
  <2>2. \A i \in DOMAIN c.events :
          x \in Range(d.events[i]) <=> x \in Range(c.events[i]) \/ (i \in DOMAIN at /\ x = e)
    <3>1. \A i \in DOMAIN at : x \in Range(d.events[i]) <=> x \in Range(c.events[i]) \/ x = e
      BY <1>8
    <3>2. \A i \in DOMAIN c.events \ DOMAIN at :
            x \in Range(d.events[i]) <=> x \in Range(c.events[i])
      BY <1>9
    <3>. QED  BY <3>1, <3>2
  <2>3. DOMAIN d.events = DOMAIN c.events
    BY <1>7
  <2>. QED  BY <2>1, <2>2, <2>3, InChartIs
<1>15. Sound(d)
  <2>1. \A i \in DOMAIN d.events : NoRepeat(d.events[i])
    BY <1>7, <1>8, <1>9 DEF Sound
  <2>2. \A i \in DOMAIN d.events : \A x \in Range(d.events[i]) : RelatesTo(d, x, i)
    <3>1. \A i \in DOMAIN c.events : \A x \in Range(c.events[i]) : RelatesTo(d, x, i)
      BY <1>7, RelatesToSame DEF Sound
    <3>2. \A i \in DOMAIN at : RelatesTo(d, e, i)
      BY <1>7, RelatesToSame
    <3>3. \A i \in DOMAIN at : \A x \in Range(d.events[i]) : RelatesTo(d, x, i)
      BY <1>8, <3>1, <3>2
    <3>4. \A i \in DOMAIN c.events \ DOMAIN at : \A x \in Range(d.events[i]) : RelatesTo(d, x, i)
      BY <1>9, <3>1
    <3>. QED  BY <1>7, <3>3, <3>4
  <2>3. \A x \in InChart(d) \ Comments : d.slots[x] = 1
    <3>1. InChart(c) \subseteq Events
      BY <1>1, ListsOfChart, InChartIs
    <3>. QED  BY <1>1, <1>7, <1>11, <1>14, <3>1 DEF Sound, IsChart
  <2>4. Range(d.orphans) \subseteq Comments
    BY <1>10 DEF Sound
  <2>5. \A x \in InChart(d) \cap Messages : d.source[x] # d.target[x]
    BY <1>7, <1>14 DEF Sound
  <2>. QED  BY <1>7, <1>13, <2>1, <2>2, <2>3, <2>4, <2>5 DEF Sound
<1>16. InChart(d) = InChart(c) \cup {e}
  BY <1>14
<1>17. OnlyMoves(c, d, e)
  <2>1. ASSUME NEW i \in DOMAIN at, NEW x \in Events \ {e}, NEW y \in Events \ {e}
        PROVE  Precedes(d.events[i], x, y) <=> Precedes(c.events[i], x, y)
    <3>1. c.events[i] \in Seq(Events) /\ at2[i] \in Int
      BY <1>1, <1>5, ListsOfChart
    <3>2. d.events[i] = InsertOrAppend(c.events[i], at2[i], e)
      BY <1>7
    <3>. QED  BY <3>1, <3>2, InsertOrAppendOrder
  <2>2. \A i \in DOMAIN at : Range(d.events[i]) = Range(c.events[i]) \cup {e}
    BY <1>8
  <2>. QED  BY <1>7, <1>9, <2>1, <2>2 DEF OnlyMoves
<1>18. CreatorGiven(c, d, e)
  BY <1>2, <1>3, <1>7 DEF CreatorGiven
<1>. QED  BY <1>7, <1>8, <1>9, <1>15, <1>16, <1>17, <1>18 DEF d

-------------------------------------------------------------------------------
(* Changing the ends of an event.                                              *)

\* b is c but for the ends of one event.
SameBut(b, c, e) ==
  /\ IsChart(b)
  /\ b.instances = c.instances /\ b.events = c.events /\ b.orphans = c.orphans
  /\ b.slots = c.slots
  /\ \A x \in Events \ {e} : b.source[x] = c.source[x] /\ b.target[x] = c.target[x]

\* The other events relate to what they related to.
LEMMA OthersRelate ==
  ASSUME NEW b, NEW c, NEW e, SameBut(b, c, e), NEW x \in Events \ {e}, NEW i
  PROVE  (RelatesTo(b, x, i) <=> RelatesTo(c, x, i)) /\ EndsOf(b, x) = EndsOf(c, x)
  BY DEF SameBut, RelatesTo, EndsOf

LEMMA SameButMoves ==
  ASSUME NEW b, NEW c, NEW e, SameBut(b, c, e)
  PROVE  /\ OnlyMoves(c, b, e)
         /\ (e \notin InChart(c) \/ e \notin Creates) /\ b.creator = c.creator => SameCreates(c, b)
<1>1. InChart(b) = InChart(c) /\ Creates \subseteq Events
  BY ChartAssumption DEF SameBut, InChart, Events, ChartAssumption
<1>. QED  BY <1>1 DEF SameBut, OnlyMoves, SameCreates

\* An event that is not in the chart may be given any ends that suit its kind.
LEMMA OutsideSound ==
  ASSUME NEW c, Sound(c), NEW e \in Events \ Comments, e \notin InChart(c),
         NEW b, SameBut(b, c, e), e \in Locals => b.target[e] = NoInstance
  PROVE  Sound(b) /\ InChart(b) = InChart(c) /\ (Complete(c) => Complete(b))
<1>1. InChart(b) = InChart(c) /\ InChart(c) \subseteq Events
  BY ListsOfChart, InChartIs DEF SameBut, InChart, Sound
<1>2. \A i \in DOMAIN c.events : \A x \in Range(c.events[i]) :
        x \in InChart(c) /\ x \in Events \ {e}
  BY <1>1, InChartIs
<1>3. \A i \in DOMAIN b.events : \A x \in Range(b.events[i]) : RelatesTo(b, x, i)
  <2>1. \A i \in DOMAIN c.events : \A x \in Range(c.events[i]) : RelatesTo(b, x, i)
    BY <1>2, OthersRelate DEF Sound
  <2>. QED  BY <2>1 DEF SameBut
<1>4. \A x \in Comments : b.source[x] = NoInstance /\ b.target[x] = NoInstance
  BY DEF Sound, SameBut, Events
<1>5. \A x \in Locals : b.target[x] = NoInstance
  BY DEF Sound, SameBut, Events
<1>6. \A x \in InChart(b) \cap Messages : b.source[x] # b.target[x]
  BY <1>1 DEF Sound, SameBut
<1>7. Sound(b)
  BY <1>1, <1>3, <1>4, <1>5, <1>6 DEF Sound, SameBut
<1>8. ASSUME Complete(c)
      PROVE  Complete(b)
  <2>1. \A x \in InChart(b) : x \in InChart(c) /\ EndsOf(b, x) = EndsOf(c, x)
    BY <1>1, OthersRelate
  <2>. QED  BY <1>8, <2>1 DEF Complete, SameBut
<1>. QED  BY <1>1, <1>7, <1>8

\* When one end of a message goes from one instance to another, the signal takes
\* the message from the one lifeline to the other.
LEMMA MoveBetweenSound ==
  ASSUME NEW c, Sound(c), Complete(c), NEW e \in Messages, e \in InChart(c),
         NEW b, SameBut(b, c, e),
         NEW added \in DOMAIN c.events \cup {NoInstance}, NEW removed \in Ends, NEW other \in Ends,
         {c.source[e], c.target[e]} = {removed, other},
         {b.source[e], b.target[e]} = {added, other},
         added \notin {removed, other}
  PROVE  LET d == MoveBetweenLifelines(b, e, added, removed)
         IN  /\ Sound(d) /\ Complete(d)
             /\ DOMAIN d.events = DOMAIN c.events
             /\ d.source = b.source /\ d.target = b.target /\ d.creator = b.creator
             /\ InChart(d) = InChart(c)
             /\ OnlyMoves(c, d, e)
<1>. DEFINE c1 == IF removed \in DOMAIN b.events /\ removed # NoInstance
                  THEN SetLifeline(b, removed, RemoveOne(b.events[removed], e)) ELSE b
            d  == MoveBetweenLifelines(b, e, added, removed)
<1>1. /\ IsChart(c) /\ IsChart(b) /\ DOMAIN b = Fields /\ NoInstance \notin Instances
      /\ DOMAIN c.events \subseteq Instances /\ b.events = c.events
      /\ b.events \in [DOMAIN b.events -> Seq(Events)]
      /\ e \in Events /\ e \notin Shared /\ e \notin Comments /\ e \notin Locals
  BY ChartAssumption DEF Sound, SameBut, IsChart, ChartAssumption, Events
<1>2. removed # other
  BY DEF Sound
<1>3. /\ removed # NoInstance => removed \in DOMAIN c.events
      /\ other # NoInstance => other \in DOMAIN c.events /\ e \in Range(c.events[other])
  BY <1>1 DEF Complete, EndsOf
<1>4. \A i \in DOMAIN c.events : e \in Range(c.events[i]) => i \in {removed, other}
  BY <1>1 DEF Sound, RelatesTo
<1>5. \A i : RelatesTo(b, e, i) <=> i \in {added, other}
  BY <1>1 DEF RelatesTo
<1>6. /\ c1.events = [j \in DOMAIN c.events |->
                        IF j = removed THEN RemoveOne(c.events[j], e) ELSE c.events[j]]
      /\ c1.instances = b.instances /\ c1.orphans = b.orphans /\ c1.source = b.source
      /\ c1.target = b.target /\ c1.creator = b.creator /\ c1.slots = b.slots
      /\ c1.alive = b.alive /\ DOMAIN c1 = Fields
  <2>1. CASE removed = NoInstance
    <3>1. c1 = b
      BY <2>1
    <3>2. c.events = [j \in DOMAIN c.events |->
                        IF j = removed THEN RemoveOne(c.events[j], e) ELSE c.events[j]]
      BY <1>1, <2>1
    <3>. QED  BY <1>1, <3>1, <3>2
  <2>2. CASE removed # NoInstance
    <3>1. removed \in DOMAIN c.events
      BY <1>3, <2>2
    <3>2. c1 = [b EXCEPT !.events = [j \in DOMAIN b.events \cup {removed} |->
                   IF j = removed THEN RemoveOne(b.events[removed], e) ELSE b.events[j]]]
      BY <1>1, <2>2, <3>1, Zenon DEF SetLifeline
    <3>3. [j \in DOMAIN b.events \cup {removed} |->
              IF j = removed THEN RemoveOne(b.events[removed], e) ELSE b.events[j]]
            = [j \in DOMAIN c.events |->
                 IF j = removed THEN RemoveOne(c.events[j], e) ELSE c.events[j]]
      BY <1>1, <3>1
    <3>. QED  BY <1>1, <3>2, <3>3 DEF Fields
  <2>. QED  BY <2>1, <2>2
<1>7. d = IF added = NoInstance THEN c1
          ELSE SetLifeline(c1, added, Append(Lifeline(c1, added), e))
  BY Zenon DEF MoveBetweenLifelines
<1>. HIDE DEF c1, d
<1>8. /\ d.events = [j \in DOMAIN c.events |->
                       IF j = added THEN Append(c.events[j], e)
                       ELSE IF j = removed THEN RemoveOne(c.events[j], e) ELSE c.events[j]]
      /\ d.instances = b.instances /\ d.orphans = b.orphans /\ d.source = b.source
      /\ d.target = b.target /\ d.creator = b.creator /\ d.slots = b.slots
      /\ d.alive = b.alive /\ DOMAIN d = Fields
  <2>1. CASE added = NoInstance
    <3>1. \A j \in DOMAIN c.events : j # added
      BY <1>1, <2>1
    <3>2. c1.events = [j \in DOMAIN c.events |->
                         IF j = added THEN Append(c.events[j], e)
                         ELSE IF j = removed THEN RemoveOne(c.events[j], e) ELSE c.events[j]]
      BY <1>6, <3>1
    <3>. QED  BY <1>6, <1>7, <2>1, <3>2
  <2>2. CASE added # NoInstance
    <3>1. added \in DOMAIN c.events /\ Lifeline(c1, added) = c.events[added]
      BY <1>6, <2>2 DEF Lifeline
    <3>2. d = [c1 EXCEPT !.events = [j \in DOMAIN c1.events \cup {added} |->
                 IF j = added THEN Append(c.events[added], e) ELSE c1.events[j]]]
      BY <1>7, <2>2, <3>1 DEF SetLifeline
    <3>3. [j \in DOMAIN c1.events \cup {added} |->
              IF j = added THEN Append(c.events[added], e) ELSE c1.events[j]]
            = [j \in DOMAIN c.events |->
                 IF j = added THEN Append(c.events[j], e)
                 ELSE IF j = removed THEN RemoveOne(c.events[j], e) ELSE c.events[j]]
      BY <1>6, <3>1
    <3>. QED  BY <1>6, <3>2, <3>3 DEF Fields
  <2>. QED  BY <2>1, <2>2
<1>9. ASSUME NEW j \in DOMAIN c.events
      PROVE  /\ d.events[j] \in Seq(Events) /\ NoRepeat(d.events[j])
             /\ \A x \in Range(d.events[j]) :
                  (x # e /\ x \in Range(c.events[j])) \/ (x = e /\ j \in {added, other})
             /\ \A x \in Range(c.events[j]) : x # e => x \in Range(d.events[j])
             /\ j \in {added, other} => e \in Range(d.events[j])
  <2>1. c.events[j] \in Seq(Events) /\ NoRepeat(c.events[j])
    BY <1>1, ListsOfChart DEF Sound
  <2>2. CASE j = added
    <3>1. e \notin Range(c.events[j])
      BY <1>4, <2>2
    <3>2. d.events[j] = Append(c.events[j], e)
      BY <1>8, <2>2
    <3>3. Append(c.events[j], e) \in Seq(Events)
      BY <1>1, <2>1, AppendListProperties
    <3>4. Range(Append(c.events[j], e)) = Range(c.events[j]) \cup {e}
      BY <1>1, <2>1, AppendListProperties
    <3>5. NoRepeat(Append(c.events[j], e))
      BY <1>1, <2>1, <3>1, AppendListProperties, Zenon
    <3>. QED  BY <2>2, <3>1, <3>2, <3>3, <3>4, <3>5
  <2>3. CASE j = removed
    <3>1. d.events[j] = RemoveOne(c.events[j], e)
      BY <1>8, <2>3
    <3>2. /\ RemoveOne(c.events[j], e) \in Seq(Events)
          /\ Range(RemoveOne(c.events[j], e)) = Range(c.events[j]) \ {e}
          /\ NoRepeat(RemoveOne(c.events[j], e))
      BY <2>1, RemoveOneProperties
    <3>3. j \notin {added, other}
      BY <1>2, <2>3
    <3>. QED  BY <3>1, <3>2, <3>3
  <2>4. CASE j # added /\ j # removed
    <3>1. d.events[j] = c.events[j]
      BY <1>8, <2>4
    <3>2. e \in Range(c.events[j]) <=> j = other
      BY <1>1, <1>3, <1>4, <2>4
    <3>. QED  BY <2>1, <2>4, <3>1, <3>2
  <2>. QED  BY <2>2, <2>3, <2>4
<1>10. DOMAIN d.events = DOMAIN c.events /\ d.orphans = c.orphans /\ d.instances = c.instances
  BY <1>8 DEF SameBut
<1>11. \E j \in DOMAIN c.events : j \in {added, other}
  <2>1. added # other /\ other \in Ends
    OBVIOUS
  <2>. QED  BY <1>3, <2>1
<1>12. ASSUME NEW x
       PROVE  x \in InChart(d) <=> x \in InChart(c)
  <2>1. CASE x = e
    BY <1>9, <1>10, <1>11, <2>1, InChartIs
  <2>2. CASE x # e
    <3>1. \A j \in DOMAIN c.events : x \in Range(d.events[j]) <=> x \in Range(c.events[j])
      BY <1>9, <2>2
    <3>. QED  BY <1>10, <3>1, InChartIs
  <2>. QED  BY <2>1, <2>2
<1>13. InChart(c) \subseteq Events
  BY <1>1, ListsOfChart, InChartIs
<1>14. IsChart(d)
  BY <1>1, <1>8, <1>9 DEF IsChart
<1>15. ASSUME NEW j \in DOMAIN d.events, NEW x \in Range(d.events[j])
       PROVE  RelatesTo(d, x, j)
  <2>1. CASE x = e
    <3>1. j \in {added, other}
      BY <1>9, <1>10, <2>1
    <3>2. RelatesTo(b, e, j)
      BY <1>5, <3>1
    <3>. QED  BY <1>8, <2>1, <3>2, RelatesToSame
  <2>2. CASE x # e
    <3>1. x \in Range(c.events[j]) /\ x \in Events \ {e}
      BY <1>9, <1>10, <1>12, <1>13, <2>2, InChartIs
    <3>2. RelatesTo(b, x, j)
      BY <1>10, <3>1, OthersRelate DEF Sound
    <3>. QED  BY <1>8, <3>2, RelatesToSame
  <2>. QED  BY <2>1, <2>2
<1>16. \A x \in InChart(d) \cap Messages : d.source[x] # d.target[x]
  <2>1. d.source[e] # d.target[e]
    <3>1. b.source[e] = b.target[e] => added = other
      OBVIOUS
    <3>. QED  BY <1>8, <3>1
  <2>2. \A x \in InChart(c) \cap Messages : x # e => b.source[x] # b.target[x]
    BY <1>13 DEF Sound, SameBut
  <2>. QED  BY <1>8, <1>12, <2>1, <2>2
<1>17. /\ \A x \in Comments : d.source[x] = NoInstance /\ d.target[x] = NoInstance
       /\ \A x \in Locals : d.target[x] = NoInstance
  <2>1. Comments \subseteq Events \ {e} /\ Locals \subseteq Events \ {e}
    BY <1>1 DEF Events
  <2>. QED  BY <1>8, <2>1 DEF Sound, SameBut
<1>18. Sound(d)
  <2>1. \A j \in DOMAIN d.events : NoRepeat(d.events[j])
    BY <1>9, <1>10
  <2>2. \A x \in InChart(d) \ Comments : d.slots[x] = 1
    BY <1>8, <1>12 DEF Sound, SameBut
  <2>. QED  BY <1>10, <1>14, <1>15, <1>16, <1>17, <2>1, <2>2 DEF Sound
<1>19. ASSUME NEW x \in InChart(d) \ Shared, NEW i \in EndsOf(d, x)
       PROVE  i \in DOMAIN d.events /\ x \in Range(d.events[i])
  <2>1. CASE x = e
    <3>1. i \in {added, other} /\ i # NoInstance
      BY <1>8, <1>19, <2>1 DEF EndsOf
    <3>2. i \in DOMAIN c.events
      BY <1>3, <3>1
    <3>. QED  BY <1>9, <1>10, <2>1, <3>1, <3>2
  <2>2. CASE x # e
    <3>1. x \in InChart(c) /\ x \in Events \ {e}
      BY <1>12, <1>13, <2>2
    <3>2. EndsOf(d, x) = EndsOf(c, x)
      <4>1. EndsOf(d, x) = EndsOf(b, x)
        BY <1>8, RelatesToSame
      <4>. QED  BY <3>1, <4>1, OthersRelate
    <3>3. i \in DOMAIN c.events /\ x \in Range(c.events[i])
      BY <1>19, <3>1, <3>2 DEF Complete
    <3>. QED  BY <1>9, <1>10, <2>2, <3>3
  <2>. QED  BY <2>1, <2>2
<1>20. Complete(d)
  BY <1>19 DEF Complete
<1>21. InChart(d) = InChart(c)
  BY <1>12
<1>22. OnlyMoves(c, d, e)
  <2>1. ASSUME NEW i \in DOMAIN c.events, NEW x \in Events \ {e}, NEW y \in Events \ {e}
        PROVE  Precedes(d.events[i], x, y) <=> Precedes(c.events[i], x, y)
    <3>1. c.events[i] \in Seq(Events) /\ NoRepeat(c.events[i])
      BY <1>1, ListsOfChart DEF Sound
    <3>2. d.events[i] = IF i = added THEN Append(c.events[i], e)
                        ELSE IF i = removed THEN RemoveOne(c.events[i], e) ELSE c.events[i]
      BY <1>8
    <3>. QED  BY <1>1, <3>1, <3>2, AppendOrder, RemoveOneOrder
  <2>2. \A i \in DOMAIN c.events : \A x \in Events \ {e} :
          x \in Range(d.events[i]) <=> x \in Range(c.events[i])
    BY <1>9
  <2>. QED  BY <1>10, <2>1, <2>2 DEF OnlyMoves
<1>. QED  BY <1>8, <1>10, <1>18, <1>20, <1>21, <1>22 DEF d

\* Moving an event along the lifelines of instances it relates to.
LEMMA MoveEventSound ==
  ASSUME NEW c, Sound(c), NEW e \in Events \ Comments, e \in InChart(c), NEW at,
         DOMAIN at \subseteq DOMAIN c.events, at \in [DOMAIN at -> Int],
         \A i \in DOMAIN at : RelatesTo(c, e, i)
  PROVE  LET d == MoveEvent(c, e, at)
         IN  /\ Sound(d) /\ (Complete(c) => Complete(d))
             /\ OnlyMoves(c, d, e) /\ SameCreates(c, d)
<1>. DEFINE d == MoveEvent(c, e, at)
<1>1. IsChart(c) /\ DOMAIN c = Fields /\ InChart(c) \subseteq Events
  BY ListsOfChart, InChartIs DEF Sound, IsChart
<1>2. CASE IndicesOfEvent(c, e) = at
  BY <1>2 DEF MoveEvent, OnlyMoves, SameCreates
<1>3. CASE /\ IndicesOfEvent(c, e) # at
           /\ \E i \in DOMAIN at : ~InsertDefined(RemoveAll(Lifeline(c, i), e), at[i])
  <2>1. d = [c EXCEPT !.alive = FALSE]
    BY <1>3, Zenon DEF MoveEvent
  <2>. HIDE DEF d
  <2>2. /\ d.instances = c.instances /\ d.events = c.events /\ d.orphans = c.orphans
        /\ d.source = c.source /\ d.target = c.target /\ d.slots = c.slots
        /\ d.creator = c.creator /\ d.alive = FALSE /\ DOMAIN d = Fields
    BY <1>1, <2>1 DEF Fields
  <2>3. IsChart(d)
    BY <1>1, <2>2 DEF IsChart
  <2>4. InChart(d) = InChart(c)
    BY <2>2 DEF InChart
  <2>5. Sound(d)
    BY <2>2, <2>3, <2>4, RelatesToSame DEF Sound
  <2>6. Complete(c) => Complete(d)
    BY <2>2, <2>4 DEF Complete, EndsOf
  <2>7. OnlyMoves(c, d, e) /\ SameCreates(c, d)
    BY <2>2, <2>4 DEF OnlyMoves, SameCreates
  <2>. QED  BY <2>5, <2>6, <2>7 DEF d
<1>4. CASE /\ IndicesOfEvent(c, e) # at
           /\ \A i \in DOMAIN at : InsertDefined(RemoveAll(Lifeline(c, i), e), at[i])
  <2>1. d = [c EXCEPT !.events = [i \in DOMAIN c.events \cup DOMAIN at |->
                                    IF i \in DOMAIN at
                                    THEN InsertAtPos(RemoveAll(Lifeline(c, i), e), at[i], e)
                                    ELSE c.events[i]]]
    BY <1>4, Zenon DEF MoveEvent
  <2>. HIDE DEF d
  <2>2. /\ DOMAIN d.events = DOMAIN c.events
        /\ \A i \in DOMAIN at : d.events[i] = InsertAtPos(RemoveAll(c.events[i], e), at[i], e)
        /\ \A i \in DOMAIN c.events \ DOMAIN at : d.events[i] = c.events[i]
        /\ d.events \in [DOMAIN d.events -> {d.events[i] : i \in DOMAIN d.events}]
        /\ d.instances = c.instances /\ d.orphans = c.orphans
        /\ d.source = c.source /\ d.target = c.target /\ d.slots = c.slots
        /\ d.creator = c.creator /\ d.alive = c.alive /\ DOMAIN d = Fields
    BY <1>1, <2>1 DEF Fields, Lifeline
  <2>3. ASSUME NEW i \in DOMAIN at
        PROVE  /\ d.events[i] \in Seq(Events) /\ NoRepeat(d.events[i])
               /\ Range(d.events[i]) = Range(c.events[i]) \cup {e}
    <3>1. c.events[i] \in Seq(Events) /\ NoRepeat(c.events[i])
      BY <1>1, ListsOfChart DEF Sound
    <3>2. InsertDefined(RemoveAll(c.events[i], e), at[i]) /\ at[i] \in Int
      BY <1>4 DEF Lifeline
    <3>3. /\ InsertAtPos(RemoveAll(c.events[i], e), at[i], e) \in Seq(Events)
          /\ Range(InsertAtPos(RemoveAll(c.events[i], e), at[i], e)) = Range(c.events[i]) \cup {e}
          /\ NoRepeat(InsertAtPos(RemoveAll(c.events[i], e), at[i], e))
      BY <3>1, <3>2, MovedElement
    <3>. QED  BY <2>2, <3>3
  <2>4. IsChart(d)
    <3>1. \A i \in DOMAIN d.events : d.events[i] \in Seq(Events)
      BY <1>1, <2>2, <2>3, ListsOfChart
    <3>2. d.events \in [DOMAIN d.events -> Seq(Events)]
      BY <2>2, <3>1
    <3>. QED  BY <1>1, <2>2, <3>2 DEF IsChart
  <2>5. ASSUME NEW x
        PROVE  x \in InChart(d) <=> x \in InChart(c)
    <3>1. CASE x = e
      BY <2>2, <2>3, <3>1, InChartIs
    <3>2. CASE x # e
      <4>1. \A i \in DOMAIN at : x \in Range(d.events[i]) <=> x \in Range(c.events[i])
        BY <2>3, <3>2
      <4>2. \A i \in DOMAIN c.events : x \in Range(d.events[i]) <=> x \in Range(c.events[i])
        BY <2>2, <4>1
      <4>. QED  BY <2>2, <4>2, InChartIs
    <3>. QED  BY <3>1, <3>2
  <2>6. ASSUME NEW i \in DOMAIN d.events, NEW x \in Range(d.events[i])
        PROVE  RelatesTo(d, x, i)
    <3>1. x \in Range(c.events[i]) \/ (i \in DOMAIN at /\ x = e)
      BY <2>2, <2>3
    <3>2. RelatesTo(c, x, i)
      BY <2>2, <3>1 DEF Sound
    <3>. QED  BY <2>2, <3>2, RelatesToSame
  <2>7. \A i \in DOMAIN d.events : NoRepeat(d.events[i])
    BY <2>2, <2>3 DEF Sound
  <2>8. Sound(d)
    BY <2>2, <2>4, <2>5, <2>6, <2>7 DEF Sound
  <2>9. ASSUME Complete(c)
        PROVE  Complete(d)
    <3>1. \A i \in DOMAIN c.events : Range(c.events[i]) \subseteq Range(d.events[i])
      BY <2>2, <2>3
    <3>2. ASSUME NEW x \in InChart(d) \ Shared, NEW i \in EndsOf(d, x)
          PROVE  i \in DOMAIN d.events /\ x \in Range(d.events[i])
      <4>1. x \in InChart(c) \ Shared /\ i \in EndsOf(c, x)
        BY <2>2, <2>5, <3>2, RelatesToSame
      <4>2. i \in DOMAIN c.events /\ x \in Range(c.events[i])
        BY <2>9, <4>1 DEF Complete
      <4>. QED  BY <2>2, <3>1, <4>2
    <3>. QED  BY <3>2 DEF Complete
  <2>10. ASSUME NEW i \in DOMAIN at, NEW x \in Events \ {e}, NEW y \in Events \ {e}
         PROVE  Precedes(d.events[i], x, y) <=> Precedes(c.events[i], x, y)
    <3>. DEFINE rest == RemoveAll(c.events[i], e)
    <3>1. c.events[i] \in Seq(Events) /\ NoRepeat(c.events[i])
      BY <1>1, ListsOfChart DEF Sound
    <3>2. rest \in Seq(Events) /\ InsertDefined(rest, at[i]) /\ at[i] \in Int
      BY <1>4, <3>1, KeepOnlyProperties DEF Lifeline, RemoveAll
    <3>3. Precedes(rest, x, y) <=> Precedes(c.events[i], x, y)
      BY <3>1, KeepOnlyOrder, PrecedesIsOrder DEF RemoveAll
    <3>4. d.events[i] = InsertAtPos(rest, at[i], e)
      BY <2>2
    <3>. HIDE DEF rest
    <3>. QED  BY <3>2, <3>3, <3>4, InsertAtPosOrder
  <2>11. \A i \in DOMAIN at : Range(d.events[i]) = Range(c.events[i]) \cup {e}
    BY <2>3
  <2>12. OnlyMoves(c, d, e)
    BY <2>2, <2>10, <2>11 DEF OnlyMoves
  <2>13. SameCreates(c, d)
    BY <2>2, <2>5 DEF SameCreates
  <2>. QED  BY <2>8, <2>9, <2>12, <2>13 DEF d
<1>. QED  BY <1>2, <1>3, <1>4

-------------------------------------------------------------------------------
(* The editor's calls.                                                         *)

\* WithEnds changes the ends of one event.
LEMMA WithEndsIs ==
  ASSUME NEW c, IsChart(c), NEW e \in Events, NEW s \in Ends, NEW t \in Ends
  PROVE  LET b == WithEnds(c, e, s, t)
         IN  SameBut(b, c, e) /\ b.source[e] = s /\ b.target[e] = t /\ b.creator = c.creator
<1>. DEFINE b == WithEnds(c, e, s, t)
<1>1. /\ b.instances = c.instances /\ b.events = c.events /\ b.orphans = c.orphans
      /\ b.slots = c.slots /\ b.creator = c.creator /\ b.alive = c.alive
      /\ b.source = [c.source EXCEPT ![e] = s] /\ b.target = [c.target EXCEPT ![e] = t]
      /\ DOMAIN b = Fields
  BY DEF WithEnds, IsChart, Fields
<1>. HIDE DEF b
<1>2. IsChart(b)
  BY <1>1 DEF IsChart
<1>. QED  BY <1>1, <1>2 DEF SameBut, IsChart, b

\* A position for one instance is a map of positions.
LEMMA AtOnlyIs ==
  ASSUME NEW i, NEW pos \in Int
  PROVE  DOMAIN AtOnly(i, pos) = {i} /\ AtOnly(i, pos) \in [{i} -> Int]
  BY DEF AtOnly

\* The layout's positions are numbers, one for each instance asked for.
LEMMA PlacementsAre ==
  ASSUME NEW c, NEW e, NEW S, NEW at \in Placements(c, e, S)
  PROVE  DOMAIN at = S /\ at \in [S -> Int]
<1>1. Cardinality(Events) \in Nat
  BY ChartAssumption, FS_CardinalityType DEF ChartAssumption
<1>. QED  BY <1>1 DEF Placements

\* A new event on the lifelines of all the instances it points to.
LEMMA AddEventComplete ==
  ASSUME NEW c, Sound(c), Complete(c),
         NEW e \in Events, NEW at, at \in [DOMAIN at -> Int],
         DOMAIN at \subseteq DOMAIN c.events,
         \A i \in DOMAIN at : RelatesTo(c, e, i),
         e \notin Comments => e \notin InChart(c) /\ c.slots[e] = 0 /\ DOMAIN at # {},
         e \in Messages => c.source[e] # c.target[e],
         e \in Creates => c.source[e] \in DOMAIN at /\ c.target[e] \in DOMAIN at,
         e \notin Shared => EndsOf(c, e) \subseteq DOMAIN at
  PROVE  LET d == AddInstanceEvent(c, e, at)
         IN  /\ Sound(d) /\ Complete(d) /\ OnlyMoves(c, d, e)
             /\ e \notin Creates => SameCreates(c, d)
<1>. DEFINE d == AddInstanceEvent(c, e, at)
<1>1. /\ Sound(d)
      /\ d.source = c.source /\ d.target = c.target
      /\ DOMAIN d.events = DOMAIN c.events
      /\ \A i \in DOMAIN at : Range(d.events[i]) = Range(c.events[i]) \cup {e}
      /\ \A i \in DOMAIN c.events \ DOMAIN at : d.events[i] = c.events[i]
      /\ InChart(d) = InChart(c) \cup {e}
      /\ OnlyMoves(c, d, e) /\ CreatorGiven(c, d, e)
  BY AddEventSound
<1>. HIDE DEF d
<1>2. ASSUME NEW x \in InChart(d) \ Shared, NEW i \in EndsOf(d, x)
      PROVE  i \in DOMAIN d.events /\ x \in Range(d.events[i])
  <2>1. i \in EndsOf(c, x)
    BY <1>1, <1>2, RelatesToSame
  <2>2. CASE x = e
    BY <1>1, <1>2, <2>1, <2>2
  <2>3. CASE x # e
    <3>1. i \in DOMAIN c.events /\ x \in Range(c.events[i])
      BY <1>1, <1>2, <2>1, <2>3 DEF Complete
    <3>. QED  BY <1>1, <3>1
  <2>. QED  BY <2>2, <2>3
<1>3. e \notin Creates => SameCreates(c, d)
  BY <1>1 DEF SameCreates, CreatorGiven
<1>. QED  BY <1>1, <1>2, <1>3 DEF Complete, d

\* One lemma for each action: it keeps the invariant, and leaves alone what it does
\* not mean to change.
LEMMA CreateInstanceStep ==
  ASSUME IInv, NEW i \in Instances, NEW pos \in Int, CreateInstance(i, pos)
  PROVE  IInv' /\ SameCreates(chart, chart') /\ InstanceMoves(chart, chart', i)
<1>. DEFINE c == chart
            d == AddInstance(c, i, pos)
<1>1. \A e \in Events \ Shared : RelatesTo(c, e, i) => e \notin InChart(c)
  BY DEF CreateInstance, FreshEvent
<1>2. Sound(c) /\ Complete(c) /\ i \notin Range(c.instances) /\ chart' = d
  BY DEF CreateInstance, InstancesIn, IInv
<1>. HIDE DEF c
<1>3. /\ Sound(d) /\ Complete(d) /\ SameCreates(c, d)
      /\ d.instances = InsertOrAppend(c.instances, pos, i)
      /\ \A j \in DOMAIN c.events : d.events[j] = c.events[j]
  BY <1>1, <1>2, AddInstanceSound
<1>. HIDE DEF d
<1>4. InOrder(c.instances, d.instances, i)
  <2>1. c.instances \in Seq(Instances)
    BY <1>2, ListsOfChart DEF Sound
  <2>. QED  BY <1>3, <2>1, InsertOrAppendOrder DEF InOrder
<1>5. InstanceMoves(c, d, i)
  BY <1>3, <1>4 DEF InstanceMoves, InOrder
<1>. QED  BY <1>2, <1>3, <1>5 DEF IInv, c

\* The other instances keep their order, and so do events of which some are gone.
LEMMA WithoutInstance ==
  ASSUME NEW c, Sound(c), NEW i, NEW d, d.instances = RemoveAll(c.instances, i), NEW E,
         \A j \in DOMAIN c.events \cap DOMAIN d.events :
           d.events[j] = c.events[j] \/ (Range(d.events[j]) \cap E = {} /\
             \A x, y \in Events \ E : Precedes(d.events[j], x, y) <=> Precedes(c.events[j], x, y))
  PROVE  InstanceMoves(c, d, i)
<1>1. IsChart(c) /\ c.instances \in Seq(Instances)
  BY ListsOfChart DEF Sound
<1>2. InOrder(c.instances, d.instances, i)
  BY <1>1, KeepOnlyOrder DEF InOrder, RemoveAll
<1>3. \A j \in DOMAIN c.events : Range(c.events[j]) \subseteq Events
  BY <1>1, ListsOfChart
<1>4. \A j \in DOMAIN c.events \cap DOMAIN d.events : InOrder(c.events[j], d.events[j], NoInstance)
  BY <1>3 DEF InOrder
<1>. QED  BY <1>2, <1>4 DEF InstanceMoves

\* No event can point to an instance whose lifeline is empty.
LEMMA UncreateInstanceStep ==
  ASSUME IInv, NEW i \in Instances, UncreateInstance(i)
  PROVE  IInv' /\ SameCreates(chart, chart') /\ InstanceMoves(chart, chart', i)
<1>. DEFINE c == chart
            d == RemoveInstance(c, i)
<1>1. Sound(c) /\ Complete(c) /\ i \in Range(c.instances) /\ Lifeline(c, i) = << >>
  BY DEF IInv, UncreateInstance, InstancesIn
<1>2. chart' = d
  BY DEF UncreateInstance
<1>. HIDE DEF c
<1>3. /\ Sound(d)
      /\ d.source = c.source /\ d.target = c.target
      /\ DOMAIN d.events = DOMAIN c.events \ {i}
      /\ \A j \in DOMAIN d.events : d.events[j] = c.events[j]
      /\ d.orphans = c.orphans /\ d.creator = c.creator
      /\ d.instances = RemoveAll(c.instances, i)
  BY <1>1, RemoveInstanceSound
<1>. HIDE DEF d
<1>4. i \in DOMAIN c.events /\ c.events[i] = << >>
  BY <1>1 DEF Sound, Lifeline
<1>5. ASSUME NEW x \in InChart(d) \ Shared, NEW j \in EndsOf(d, x)
      PROVE  j \in DOMAIN d.events /\ x \in Range(d.events[j])
  <2>1. x \in InChart(c) \ Shared /\ j \in EndsOf(c, x)
    BY <1>3, <1>5, RelatesToSame, InChartIs
  <2>2. j \in DOMAIN c.events /\ x \in Range(c.events[j])
    BY <1>1, <2>1 DEF Complete
  <2>3. j # i
    BY <1>4, <2>2, EmptyList
  <2>. QED  BY <1>3, <2>2, <2>3
<1>6. SameCreates(c, d)
  <2>1. \A x : x \in InChart(d) <=> x \in InChart(c)
    BY <1>3, <1>4, InChartIs, EmptyList
  <2>. QED  BY <1>3, <2>1 DEF SameCreates
<1>7. InstanceMoves(c, d, i)
  BY <1>1, <1>3, WithoutInstance
<1>. QED  BY <1>2, <1>3, <1>5, <1>6, <1>7 DEF IInv, Complete, c

\* The messages that pointed to the instance go with it, its other events were only
\* on its own lifeline.
LEMMA DeleteInstanceStep ==
  ASSUME IInv, NEW i \in Instances, DeleteInstance(i)
  PROVE  /\ IInv' /\ InstanceMoves(chart, chart', i)
         /\ chart'.source = chart.source /\ chart'.target = chart.target
         /\ CreatorsTaken(chart, chart', MessagesOf(chart, {i}))
         /\ \A x : x \in InChart(chart') <=>
              /\ x \notin MessagesOf(chart, {i})
              /\ x \in Range(chart.orphans) \/ \E j \in DOMAIN chart.events \ {i} : x \in Range(chart.events[j])
<1>. DEFINE c == chart
            b == RemoveInstance(c, i)
            E == MessagesOf(c, {i})
            d == RemoveInstanceEvents(b, E)
<1>1. Sound(c) /\ Complete(c) /\ i \in Range(c.instances)
  BY DEF IInv, DeleteInstance, InstancesIn
<1>2. chart' = d
  BY DEF DeleteInstance
<1>. HIDE DEF c
<1>3. /\ Sound(b)
      /\ b.source = c.source /\ b.target = c.target
      /\ DOMAIN b.events = DOMAIN c.events \ {i}
      /\ \A j \in DOMAIN b.events : b.events[j] = c.events[j]
      /\ b.orphans = c.orphans /\ b.creator = c.creator
      /\ b.instances = RemoveAll(c.instances, i)
  BY <1>1, RemoveInstanceSound
<1>. HIDE DEF b
<1>4. /\ Sound(d)
      /\ d.instances = b.instances
      /\ d.source = b.source /\ d.target = b.target
      /\ DOMAIN d.events = DOMAIN b.events
      /\ \A j \in DOMAIN b.events : Range(d.events[j]) = Range(b.events[j]) \ E
      /\ InChart(d) = InChart(b) \ E
      /\ CreatorsTaken(b, d, E)
      /\ \A j \in DOMAIN b.events : \A x, y \in Events \ E :
           Precedes(d.events[j], x, y) <=> Precedes(b.events[j], x, y)
  BY <1>3, RemoveEventsSound
<1>. HIDE DEF d
<1>5. ASSUME NEW x \in InChart(d) \ Shared, NEW j \in EndsOf(d, x)
      PROVE  j \in DOMAIN d.events /\ x \in Range(d.events[j])
  <2>1. x \in InChart(b) /\ x \notin E /\ x \in InChart(c) /\ x \notin Shared
    BY <1>3, <1>4, <1>5, InChartIs
  <2>2. j \in EndsOf(c, x)
    BY <1>3, <1>4, <1>5, RelatesToSame
  <2>3. j \in DOMAIN c.events /\ x \in Range(c.events[j])
    BY <1>1, <2>1, <2>2 DEF Complete
  <2>4. PICK k \in DOMAIN c.events \ {i} : x \in Range(c.events[k])
    <3>1. x \notin Range(c.orphans)
      <4>1. x \in Comments => EndsOf(c, x) = {}
        BY <1>1 DEF Sound, EndsOf
      <4>. QED  BY <1>1, <2>2, <4>1 DEF Sound
    <3>. QED  BY <1>3, <2>1, <3>1, InChartIs
  <2>5. RelatesTo(c, x, j) /\ RelatesTo(c, x, k)
    BY <1>1, <2>3, <2>4 DEF Sound
  <2>6. j # i
    <3>1. CASE x \in Messages
      <4>1. ~RelatesTo(c, x, i)
        BY <2>1, <2>4, <3>1 DEF MessagesOf, E
      <4>. QED  BY <2>5, <4>1
    <3>2. CASE x \notin Messages
      BY <2>1, <2>4, <2>5, <3>2 DEF RelatesTo
    <3>. QED  BY <3>1, <3>2
  <2>. QED  BY <1>3, <1>4, <2>1, <2>3, <2>6
<1>. HIDE DEF E
<1>6. InstanceMoves(c, d, i)
  BY <1>1, <1>3, <1>4, WithoutInstance
<1>7. CreatorsTaken(c, d, E)
  BY <1>3, <1>4 DEF CreatorsTaken
<1>8. \A x : x \in InChart(d) <=>
        /\ x \notin E
        /\ x \in Range(c.orphans) \/ \E j \in DOMAIN c.events \ {i} : x \in Range(c.events[j])
  BY <1>3, <1>4, InChartIs
<1>. QED  BY <1>2, <1>3, <1>4, <1>5, <1>6, <1>7, <1>8 DEF IInv, Complete, c, E

\* The new event points to the instance whose lifeline it is put on.
LEMMA CreateLocalStep ==
  ASSUME IInv, NEW e \in Locals, NEW i \in Instances, NEW pos, CreateLocal(e, i, pos)
  PROVE  IInv' /\ OnlyMoves(chart, chart', e) /\ SameCreates(chart, chart')
<1>. DEFINE c  == chart
            b  == WithEnds(c, e, i, NoInstance)
            at == AtOnly(i, pos)
<1>1. /\ Sound(c) /\ Complete(c) /\ i \in DOMAIN c.events /\ IsChart(c)
      /\ e \notin InChart(c) /\ c.slots[e] = 0
  BY DEF IInv, CreateLocal, InstancesIn, FreshEvent, Sound
<1>2. chart' = AddInstanceEvent(b, e, at)
  BY DEF CreateLocal
<1>3. pos \in Int
  BY DEF CreateLocal, DropPositions
<1>4. e \in Events /\ e \notin Comments /\ e \notin Messages /\ e \notin Creates
  BY ChartAssumption DEF Events, ChartAssumption
<1>. HIDE DEF c
<1>5. SameBut(b, c, e) /\ b.source[e] = i /\ b.target[e] = NoInstance /\ b.creator = c.creator
  BY <1>1, <1>4, WithEndsIs DEF Ends
<1>. HIDE DEF b
<1>6. Sound(b) /\ Complete(b) /\ InChart(b) = InChart(c)
  BY <1>1, <1>4, <1>5, OutsideSound
<1>7. DOMAIN at = {i} /\ at \in [DOMAIN at -> Int]
  BY <1>3, AtOnlyIs
<1>. HIDE DEF at
<1>8. /\ DOMAIN at \subseteq DOMAIN b.events /\ b.slots[e] = 0
      /\ \A j \in DOMAIN at : RelatesTo(b, e, j)
      /\ EndsOf(b, e) \subseteq DOMAIN at
  BY <1>1, <1>5, <1>7 DEF SameBut, RelatesTo, EndsOf
<1>. DEFINE d == AddInstanceEvent(b, e, at)
<1>9. Sound(d) /\ Complete(d) /\ OnlyMoves(b, d, e) /\ SameCreates(b, d)
  BY <1>1, <1>4, <1>6, <1>7, <1>8, AddEventComplete
<1>. HIDE DEF d
<1>10. OnlyMoves(c, b, e) /\ SameCreates(c, b)
  BY <1>1, <1>5, SameButMoves
<1>11. OnlyMoves(c, d, e) /\ SameCreates(c, d)
  BY <1>9, <1>10, LeftAloneTwice
<1>. QED  BY <1>2, <1>9, <1>11 DEF IInv, c, d

\* A shared condition relates to every instance.
LEMMA CreateSharedStep ==
  ASSUME IInv, NEW e \in Shared, NEW at, CreateShared(e, at)
  PROVE  IInv' /\ OnlyMoves(chart, chart', e) /\ SameCreates(chart, chart')
<1>. DEFINE c == chart
<1>1. /\ Sound(c) /\ Complete(c) /\ Range(c.instances) = DOMAIN c.events
      /\ e \notin InChart(c) /\ c.slots[e] = 0
  BY DEF IInv, CreateShared, FreshEvent, Sound
<1>2. chart' = AddInstanceEvent(c, e, at)
  BY DEF CreateShared
<1>3. DOMAIN at = DOMAIN c.events /\ at \in [DOMAIN at -> Int] /\ DOMAIN at # {}
  BY <1>1, PlacementsAre DEF CreateShared, InstancesIn
<1>. HIDE DEF c
<1>4. e \in Events /\ e \notin Comments /\ e \notin Messages /\ e \notin Creates
  BY ChartAssumption DEF Events, ChartAssumption
<1>5. \A j \in DOMAIN at : RelatesTo(c, e, j)
  BY DEF RelatesTo
<1>. DEFINE d == AddInstanceEvent(c, e, at)
<1>6. Sound(d) /\ Complete(d) /\ OnlyMoves(c, d, e) /\ SameCreates(c, d)
  BY <1>1, <1>3, <1>4, <1>5, AddEventComplete
<1>. QED  BY <1>2, <1>6 DEF IInv, c

\* The layout gives a position for each end that is an instance.
LEMMA CreateMessageStep ==
  ASSUME IInv, NEW e \in Messages, NEW s \in Ends, NEW t \in Ends, NEW at,
         CreateMessage(e, s, t, at)
  PROVE  /\ IInv' /\ OnlyMoves(chart, chart', e)
         /\ e \notin Creates => SameCreates(chart, chart')
         /\ e \in Creates => CreateAdded(chart, chart', e, s, t)
<1>. DEFINE c == chart
            b == WithEnds(c, e, s, t)
<1>1. /\ Sound(c) /\ Complete(c) /\ Range(c.instances) = DOMAIN c.events /\ IsChart(c)
      /\ e \notin InChart(c) /\ c.slots[e] = 0
      /\ s # t /\ {s, t} \subseteq DOMAIN c.events \cup {NoInstance}
      /\ DOMAIN c.events \subseteq Instances /\ NoInstance \notin Instances
  BY ChartAssumption
  DEF IInv, CreateMessage, InstancesIn, FreshEvent, Sound, IsChart, ChartAssumption
<1>2. chart' = AddInstanceEvent(b, e, at)
  BY DEF CreateMessage
<1>3. DOMAIN at = {s, t} \ {NoInstance} /\ at \in [DOMAIN at -> Int]
  BY PlacementsAre DEF CreateMessage
<1>4. e \in Creates => s # NoInstance /\ t # NoInstance
  BY DEF CreateMessage, ValidCreate
<1>5. e \in Events /\ e \notin Comments /\ e \notin Locals
  BY ChartAssumption DEF Events, ChartAssumption
<1>. HIDE DEF c
<1>6. SameBut(b, c, e) /\ b.source[e] = s /\ b.target[e] = t /\ b.creator = c.creator
  BY <1>1, <1>5, WithEndsIs
<1>. HIDE DEF b
<1>7. Sound(b) /\ Complete(b) /\ InChart(b) = InChart(c)
  BY <1>1, <1>5, <1>6, OutsideSound
<1>8. /\ DOMAIN at \subseteq DOMAIN b.events /\ b.slots[e] = 0 /\ DOMAIN at # {}
      /\ \A j \in DOMAIN at : RelatesTo(b, e, j)
      /\ EndsOf(b, e) \subseteq DOMAIN at
      /\ e \in Creates => b.source[e] \in DOMAIN at /\ b.target[e] \in DOMAIN at
  <2>1. b.events = c.events /\ b.slots = c.slots
    BY <1>6 DEF SameBut
  <2>2. EndsOf(b, e) = DOMAIN at
    BY <1>3, <1>6 DEF EndsOf
  <2>3. \A j \in DOMAIN at : RelatesTo(b, e, j)
    BY <1>3, <1>6 DEF RelatesTo
  <2>. QED  BY <1>1, <1>3, <1>4, <1>6, <2>1, <2>2, <2>3
<1>. DEFINE d == AddInstanceEvent(b, e, at)
<1>9. /\ Sound(d) /\ Complete(d) /\ OnlyMoves(b, d, e)
      /\ e \notin Creates => SameCreates(b, d)
  BY <1>1, <1>3, <1>5, <1>6, <1>7, <1>8, AddEventComplete
<1>10. /\ d.source = b.source /\ d.target = b.target
       /\ InChart(d) = InChart(b) \cup {e} /\ CreatorGiven(b, d, e)
  BY <1>1, <1>3, <1>5, <1>6, <1>7, <1>8, AddEventSound
<1>. HIDE DEF d
<1>11. OnlyMoves(c, b, e) /\ SameCreates(c, b)
  BY <1>1, <1>6, SameButMoves
<1>12. OnlyMoves(c, d, e) /\ (e \notin Creates => SameCreates(c, d))
  BY <1>9, <1>11, LeftAloneTwice
<1>13. e \in Creates => CreateAdded(c, d, e, s, t)
  <2>1. Creates \subseteq Events
    BY ChartAssumption DEF ChartAssumption, Events
  <2>. QED  BY <1>6, <1>7, <1>10, <2>1 DEF CreateAdded, CreatorGiven, SameBut
<1>. QED  BY <1>2, <1>9, <1>12, <1>13 DEF IInv, c, d

\* A comment points to no instance, and may be listed again.
LEMMA SetCommentStep ==
  ASSUME IInv, NEW e \in Comments, SetComment(e)
  PROVE  IInv' /\ OnlyMoves(chart, chart', e) /\ SameCreates(chart, chart')
<1>. DEFINE c  == chart
            at == [i \in {} |-> 0]
<1>1. Sound(c) /\ Complete(c)
  BY DEF IInv
<1>2. chart' = AddInstanceEvent(c, e, at)
  BY DEF SetComment
<1>3. DOMAIN at = {} /\ at \in [DOMAIN at -> Int]
  OBVIOUS
<1>. HIDE DEF c, at
<1>4. e \in Events /\ e \notin Messages /\ e \notin Creates
  BY ChartAssumption DEF Events, ChartAssumption
<1>5. EndsOf(c, e) = {}
  BY <1>1 DEF Sound, EndsOf
<1>. DEFINE d == AddInstanceEvent(c, e, at)
<1>6. Sound(d) /\ Complete(d) /\ OnlyMoves(c, d, e) /\ SameCreates(c, d)
  BY <1>1, <1>3, <1>4, <1>5, AddEventComplete
<1>. QED  BY <1>2, <1>6 DEF IInv, c

\* The other events stay where they are.
LEMMA DeleteEventStep ==
  ASSUME IInv, NEW e \in Events, DeleteEvent(e)
  PROVE  /\ IInv' /\ OnlyMoves(chart, chart', e)
         /\ InChart(chart') = InChart(chart) \ {e}
         /\ chart'.source = chart.source /\ chart'.target = chart.target
         /\ CreatorsTaken(chart, chart', {e})
<1>. DEFINE c == chart
            d == RemoveInstanceEvents(c, {e})
<1>1. Sound(c) /\ Complete(c)
  BY DEF IInv
<1>2. chart' = d
  BY DEF DeleteEvent
<1>. HIDE DEF c
<1>3. /\ Sound(d)
      /\ d.source = c.source /\ d.target = c.target
      /\ DOMAIN d.events = DOMAIN c.events
      /\ \A j \in DOMAIN c.events : Range(d.events[j]) = Range(c.events[j]) \ {e}
      /\ InChart(d) = InChart(c) \ {e}
      /\ CreatorsTaken(c, d, {e})
  BY <1>1, RemoveEventsSound
<1>5. OnlyMoves(c, d, e)
  BY <1>1, RemoveEventMoves
<1>. HIDE DEF d
<1>4. ASSUME NEW x \in InChart(d) \ Shared, NEW j \in EndsOf(d, x)
      PROVE  j \in DOMAIN d.events /\ x \in Range(d.events[j])
  <2>1. x \in InChart(c) \ Shared /\ x # e /\ j \in EndsOf(c, x)
    BY <1>3, <1>4, RelatesToSame
  <2>2. j \in DOMAIN c.events /\ x \in Range(c.events[j])
    BY <1>1, <2>1 DEF Complete
  <2>. QED  BY <1>3, <2>1, <2>2
<1>. QED  BY <1>2, <1>3, <1>4, <1>5 DEF IInv, Complete, c

\* The event leaves the chart and comes back to the instance's lifeline, then it is
\* moved along it.
LEMMA MoveLocalStep ==
  ASSUME IInv, NEW e \in Locals, NEW i \in Instances, NEW pos, MoveLocal(e, i, pos)
  PROVE  IInv' /\ OnlyMoves(chart, chart', e) /\ SameCreates(chart, chart')
<1>. DEFINE c == chart
            d == SetEventInstance(c, e, i)
<1>1. /\ Sound(c) /\ Complete(c) /\ i \in DOMAIN c.events /\ IsChart(c) /\ e \in InChart(c)
  BY DEF IInv, MoveLocal, InstancesIn, Sound
<1>2. chart' = MoveEvent(d, e, AtOnly(i, pos))
  BY DEF MoveLocal, UpdateLocalPos
<1>3. pos \in Int
  BY DEF MoveLocal, DropPositions
<1>4. /\ e \in Events /\ e \notin Comments /\ e \notin Messages /\ e \notin Creates
      /\ e \notin Shared /\ i # NoInstance
  BY ChartAssumption DEF Events, ChartAssumption
<1>. HIDE DEF c
<1>5. /\ Sound(d) /\ Complete(d) /\ i \in DOMAIN d.events /\ e \in InChart(d)
      /\ RelatesTo(d, e, i) /\ OnlyMoves(c, d, e) /\ SameCreates(c, d)
  <2>1. CASE c.source[e] = i
    BY <1>1, <2>1 DEF SetEventInstance, RelatesTo, OnlyMoves, SameCreates
  <2>2. CASE c.source[e] # i
    <3>. DEFINE r  == RemoveInstanceEvents(c, {e})
                b  == [r EXCEPT !.source[e] = i]
                at == AtOnly(i, -1)
    <3>1. d = AddInstanceEvent(b, e, at)
      BY <2>2, Zenon DEF SetEventInstance
    <3>. HIDE DEF d
    <3>2. /\ Sound(r)
          /\ r.source = c.source /\ r.target = c.target
          /\ DOMAIN r.events = DOMAIN c.events
          /\ \A j \in DOMAIN c.events : Range(r.events[j]) = Range(c.events[j]) \ {e}
          /\ InChart(r) = InChart(c) \ {e}
          /\ r.slots[e] = 0
      BY <1>1, RemoveEventsSound
    <3>11. OnlyMoves(c, r, e) /\ SameCreates(c, r)
      BY <1>1, <1>4, RemoveEventMoves
    <3>. HIDE DEF r
    <3>3. Complete(r)
      <4>1. ASSUME NEW x \in InChart(r) \ Shared, NEW j \in EndsOf(r, x)
            PROVE  j \in DOMAIN r.events /\ x \in Range(r.events[j])
        <5>1. x \in InChart(c) \ Shared /\ x # e /\ j \in EndsOf(c, x)
          BY <3>2, <4>1, RelatesToSame
        <5>2. j \in DOMAIN c.events /\ x \in Range(c.events[j])
          BY <1>1, <5>1 DEF Complete
        <5>. QED  BY <3>2, <5>1, <5>2
      <4>. QED  BY <4>1 DEF Complete
    <3>4. IsChart(r) /\ r.target[e] = NoInstance
      BY <3>2 DEF Sound
    <3>5. SameBut(b, r, e) /\ b.source[e] = i /\ b.target[e] = NoInstance /\ b.creator = r.creator
      <4>1. /\ b.instances = r.instances /\ b.events = r.events /\ b.orphans = r.orphans
            /\ b.slots = r.slots /\ b.creator = r.creator /\ b.alive = r.alive
            /\ b.source = [r.source EXCEPT ![e] = i] /\ b.target = r.target
            /\ DOMAIN b = Fields
        BY <3>4 DEF IsChart, Fields
      <4>. HIDE DEF b
      <4>2. IsChart(b)
        BY <3>4, <4>1 DEF IsChart, Ends
      <4>. QED  BY <1>4, <3>4, <4>1, <4>2 DEF SameBut, IsChart
    <3>. HIDE DEF b
    <3>6. Sound(b) /\ Complete(b) /\ InChart(b) = InChart(r)
      BY <1>4, <3>2, <3>3, <3>5, OutsideSound
    <3>7. DOMAIN at = {i} /\ at \in [DOMAIN at -> Int]
      BY DEF AtOnly
    <3>. HIDE DEF at
    <3>8. /\ DOMAIN at \subseteq DOMAIN b.events /\ b.slots[e] = 0
          /\ \A j \in DOMAIN at : RelatesTo(b, e, j)
          /\ EndsOf(b, e) \subseteq DOMAIN at /\ e \notin InChart(b)
      BY <1>1, <1>4, <3>2, <3>5, <3>6, <3>7 DEF SameBut, RelatesTo, EndsOf
    <3>12. OnlyMoves(r, b, e) /\ SameCreates(r, b)
      BY <1>4, <3>5, SameButMoves
    <3>9. Sound(d) /\ Complete(d) /\ OnlyMoves(b, d, e) /\ SameCreates(b, d)
      BY <1>4, <3>1, <3>6, <3>7, <3>8, AddEventComplete
    <3>10. /\ d.source = b.source /\ d.target = b.target
           /\ DOMAIN d.events = DOMAIN b.events
           /\ InChart(d) = InChart(b) \cup {e}
      BY <1>4, <3>1, <3>6, <3>7, <3>8, AddEventSound
    <3>13. OnlyMoves(c, d, e) /\ SameCreates(c, d)
      BY <3>9, <3>11, <3>12, LeftAloneTwice
    <3>. QED  BY <3>7, <3>8, <3>9, <3>10, <3>13, RelatesToSame
  <2>. QED  BY <2>1, <2>2
<1>. HIDE DEF d
<1>6. DOMAIN AtOnly(i, pos) = {i} /\ AtOnly(i, pos) \in [DOMAIN AtOnly(i, pos) -> Int]
  BY <1>3, AtOnlyIs
<1>. DEFINE m == MoveEvent(d, e, AtOnly(i, pos))
<1>7. Sound(m) /\ Complete(m) /\ OnlyMoves(d, m, e) /\ SameCreates(d, m)
  BY <1>4, <1>5, <1>6, MoveEventSound
<1>. HIDE DEF m
<1>8. OnlyMoves(c, m, e) /\ SameCreates(c, m)
  BY <1>5, <1>7, LeftAloneTwice
<1>. QED  BY <1>2, <1>7, <1>8 DEF IInv, c, m

\* A shared condition moves along one lifeline.
LEMMA MoveSharedStep ==
  ASSUME IInv, NEW e \in Shared, NEW i \in Instances, NEW pos, MoveShared(e, i, pos)
  PROVE  IInv' /\ OnlyMoves(chart, chart', e) /\ SameCreates(chart, chart')
<1>1. /\ Sound(chart) /\ Complete(chart) /\ i \in DOMAIN chart.events /\ e \in InChart(chart)
  BY DEF IInv, MoveShared, InstancesIn, Sound
<1>2. pos \in Int
  BY DEF MoveShared, DropPositions
<1>3. e \in Events \ Comments /\ RelatesTo(chart, e, i)
  BY ChartAssumption DEF Events, ChartAssumption, RelatesTo
<1>4. DOMAIN AtOnly(i, pos) = {i} /\ AtOnly(i, pos) \in [DOMAIN AtOnly(i, pos) -> Int]
  BY <1>2, AtOnlyIs
<1>. DEFINE d == MoveEvent(chart, e, AtOnly(i, pos))
<1>5. Sound(d) /\ Complete(d) /\ OnlyMoves(chart, d, e) /\ SameCreates(chart, d)
  BY <1>1, <1>3, <1>4, MoveEventSound
<1>. QED  BY <1>5 DEF IInv, MoveShared

\* A message moves along the lifelines of its ends.
LEMMA MoveMessageStep ==
  ASSUME IInv, NEW e \in Messages, NEW at, MoveMessage(e, at)
  PROVE  IInv' /\ OnlyMoves(chart, chart', e) /\ SameCreates(chart, chart')
<1>1. Sound(chart) /\ Complete(chart) /\ e \in InChart(chart)
  BY DEF IInv, MoveMessage
<1>2. DOMAIN at = EndsOf(chart, e) /\ at \in [DOMAIN at -> Int]
  BY PlacementsAre DEF MoveMessage
<1>3. e \in Events \ Comments /\ e \notin Shared
  BY ChartAssumption DEF Events, ChartAssumption
<1>4. DOMAIN at \subseteq DOMAIN chart.events
  BY <1>1, <1>2, <1>3 DEF Complete
<1>5. \A j \in DOMAIN at : RelatesTo(chart, e, j)
  BY <1>2 DEF RelatesTo, EndsOf
<1>. DEFINE d == MoveEvent(chart, e, at)
<1>6. Sound(d) /\ Complete(d) /\ OnlyMoves(chart, d, e) /\ SameCreates(chart, d)
  BY <1>1, <1>2, <1>3, <1>4, <1>5, MoveEventSound
<1>. QED  BY <1>6 DEF IInv, MoveMessage

\* The signal moves the message between two lifelines; then it is moved along those
\* of its ends.
LEMMA RetargetMessageStep ==
  ASSUME IInv, NEW e \in Messages \ Creates, NEW end, NEW i \in Ends, NEW pos \in Int,
         RetargetMessage(e, end, i, pos)
  PROVE  IInv' /\ OnlyMoves(chart, chart', e) /\ SameCreates(chart, chart')
<1>. DEFINE c == chart
            s == c.source[e]
            t == c.target[e]
            b == IF end = "tail" THEN [c EXCEPT !.source[e] = i] ELSE [c EXCEPT !.target[e] = i]
            d == IF end = "tail" THEN SetSource(c, e, i) ELSE SetTarget(c, e, i)
<1>1. /\ Sound(c) /\ Complete(c) /\ IsChart(c) /\ e \in InChart(c)
      /\ i \in DOMAIN c.events \cup {NoInstance} /\ i \notin {s, t}
      /\ DOMAIN c.events \subseteq Instances /\ NoInstance \notin Instances
  BY ChartAssumption
  DEF IInv, RetargetMessage, InstancesIn, Sound, IsChart, ChartAssumption
<1>2. /\ e \in Events /\ e \notin Shared /\ e \notin Comments /\ e \notin Locals
  BY ChartAssumption DEF Events, ChartAssumption
<1>3. chart' = UpdateMessageTarget(c, e, i, pos, end)
  BY DEF RetargetMessage
<1>. HIDE DEF c
<1>4. ~RelatesTo(c, e, i) /\ c.slots[e] = 1 /\ s \in Ends /\ t \in Ends /\ s # t
  BY <1>1, <1>2 DEF RelatesTo, Sound, IsChart
<1>5. SameBut(b, c, e) /\ b.creator = c.creator /\ b.source[e] = (IF end = "tail" THEN i ELSE s)
      /\ b.target[e] = (IF end = "tail" THEN t ELSE i)
  <2>1. CASE end = "tail"
    <3>1. /\ b.instances = c.instances /\ b.events = c.events /\ b.orphans = c.orphans
          /\ b.slots = c.slots /\ b.creator = c.creator /\ b.alive = c.alive
          /\ b.source = [c.source EXCEPT ![e] = i] /\ b.target = c.target
          /\ DOMAIN b = Fields
      BY <1>1, <2>1 DEF IsChart, Fields
    <3>. HIDE DEF b
    <3>2. IsChart(b)
      BY <1>1, <3>1 DEF IsChart
    <3>. QED  BY <1>1, <1>2, <2>1, <3>1, <3>2 DEF SameBut, IsChart
  <2>2. CASE end # "tail"
    <3>1. /\ b.instances = c.instances /\ b.events = c.events /\ b.orphans = c.orphans
          /\ b.slots = c.slots /\ b.creator = c.creator /\ b.alive = c.alive
          /\ b.source = c.source /\ b.target = [c.target EXCEPT ![e] = i]
          /\ DOMAIN b = Fields
      BY <1>1, <2>2 DEF IsChart, Fields
    <3>. HIDE DEF b
    <3>2. IsChart(b)
      BY <1>1, <3>1 DEF IsChart
    <3>. QED  BY <1>1, <1>2, <2>2, <3>1, <3>2 DEF SameBut, IsChart
  <2>. QED  BY <2>1, <2>2
<1>6. d = MoveBetweenLifelines(b, e, i, IF end = "tail" THEN s ELSE t)
  <2>1. b.slots[e] = 1
    BY <1>4, <1>5 DEF SameBut
  <2>2. CASE end = "tail"
    <3>1. d = EmitRelationChanged(b, e, i, s)
      BY <1>1, <2>2 DEF SetSource
    <3>. HIDE DEF b, d
    <3>. QED  BY <2>1, <2>2, <3>1 DEF EmitRelationChanged
  <2>3. CASE end # "tail"
    <3>1. d = EmitRelationChanged(b, e, i, t)
      BY <1>1, <2>3 DEF SetTarget
    <3>. HIDE DEF b, d
    <3>. QED  BY <2>1, <2>3, <3>1 DEF EmitRelationChanged
  <2>. QED  BY <2>2, <2>3
<1>. DEFINE u == d.source[e]
            v == d.target[e]
            at == IF v # NoInstance
                  THEN IF u = NoInstance THEN AtOnly(v, pos)
                       ELSE WithPosition(AtOnly(v, pos), u, IndexOf(Lifeline(d, u), e))
                  ELSE IF u = NoInstance THEN [j \in {} |-> 0] ELSE AtOnly(u, pos)
<1>7. UpdateMessageTarget(c, e, i, pos, end) = MoveEvent(d, e, at)
  BY <1>4, Zenon DEF UpdateMessageTarget
<1>. HIDE DEF b, d
<1>8. /\ Sound(d) /\ Complete(d) /\ InChart(d) = InChart(c) /\ OnlyMoves(c, d, e)
      /\ d.source = b.source /\ d.target = b.target /\ d.creator = b.creator
  <2>1. CASE end = "tail"
    <3>1. /\ {c.source[e], c.target[e]} = {s, t}
          /\ {b.source[e], b.target[e]} = {i, t}
          /\ i \notin {s, t}
      BY <1>1, <1>5, <2>1
    <3>. QED  BY <1>1, <1>4, <1>5, <1>6, <2>1, <3>1, MoveBetweenSound
  <2>2. CASE end # "tail"
    <3>1. /\ {c.source[e], c.target[e]} = {t, s}
          /\ {b.source[e], b.target[e]} = {i, s}
          /\ i \notin {t, s}
      BY <1>1, <1>5, <2>2
    <3>. QED  BY <1>1, <1>4, <1>5, <1>6, <2>2, <3>1, MoveBetweenSound
  <2>. QED  BY <2>1, <2>2
<1>9. /\ u # NoInstance => u \in DOMAIN d.events /\ e \in Range(d.events[u])
      /\ v # NoInstance => v \in DOMAIN d.events /\ e \in Range(d.events[v])
  BY <1>1, <1>2, <1>8 DEF Complete, EndsOf
<1>10. u # NoInstance => IndexOf(Lifeline(d, u), e) \in Int
  <2>. SUFFICES ASSUME u # NoInstance
                PROVE  IndexOf(Lifeline(d, u), e) \in Int
    OBVIOUS
  <2>1. /\ Lifeline(d, u) = d.events[u] /\ d.events[u] \in Seq(Events)
        /\ NoRepeat(d.events[u]) /\ e \in Range(d.events[u])
    BY <1>8, <1>9, ListsOfChart DEF Lifeline, Sound
  <2>2. IndexOf(d.events[u], e) \in 0..(Len(d.events[u]) - 1)
    BY <2>1, IndexOfProperties
  <2>. QED  BY <2>1, <2>2
<1>11. DOMAIN at = {u, v} \ {NoInstance} /\ at \in [DOMAIN at -> Int]
  <2>1. CASE v # NoInstance /\ u = NoInstance
    <3>1. at = AtOnly(v, pos)
      BY <2>1
    <3>. HIDE DEF at, u, v
    <3>2. DOMAIN at = {v} /\ at \in [{v} -> Int]
      BY <3>1, AtOnlyIs
    <3>3. {u, v} \ {NoInstance} = {v}
      BY <2>1
    <3>. QED  BY <3>2, <3>3
  <2>2. CASE v # NoInstance /\ u # NoInstance
    <3>. DEFINE p == IndexOf(Lifeline(d, u), e)
    <3>1. at = [j \in {v} \cup {u} |-> IF j = u THEN p ELSE pos]
      <4>1. at = WithPosition(AtOnly(v, pos), u, p)
        BY <2>2
      <4>. HIDE DEF at, u, v, p
      <4>2. WithPosition(AtOnly(v, pos), u, p) = [j \in {v} \cup {u} |-> IF j = u THEN p ELSE pos]
        BY DEF WithPosition, AtOnly
      <4>. QED  BY <4>1, <4>2
    <3>2. p \in Int
      BY <1>10, <2>2
    <3>. HIDE DEF at, u, v, p
    <3>3. {u, v} \ {NoInstance} = {v} \cup {u}
      BY <2>2
    <3>. QED  BY <3>1, <3>2, <3>3
  <2>3. CASE v = NoInstance /\ u = NoInstance
    BY <2>3
  <2>4. CASE v = NoInstance /\ u # NoInstance
    <3>1. at = AtOnly(u, pos)
      BY <2>4
    <3>. HIDE DEF at, u, v
    <3>2. DOMAIN at = {u} /\ at \in [{u} -> Int]
      BY <3>1, AtOnlyIs
    <3>3. {u, v} \ {NoInstance} = {u}
      BY <2>4
    <3>. QED  BY <3>2, <3>3
  <2>. QED  BY <2>1, <2>2, <2>3, <2>4
<1>. HIDE DEF at
<1>12. \A j \in DOMAIN at : RelatesTo(d, e, j)
  BY <1>11 DEF RelatesTo
<1>13. DOMAIN at \subseteq DOMAIN d.events
  BY <1>9, <1>11
<1>. DEFINE m == MoveEvent(d, e, at)
<1>14. Sound(m) /\ Complete(m) /\ OnlyMoves(d, m, e) /\ SameCreates(d, m)
  BY <1>1, <1>2, <1>8, <1>11, <1>12, <1>13, MoveEventSound
<1>. HIDE DEF m
<1>15. SameCreates(c, d)
  <2>1. Creates \subseteq Events \ {e}
    BY ChartAssumption DEF ChartAssumption, Events
  <2>. QED  BY <1>5, <1>8, <2>1 DEF SameCreates, SameBut
<1>16. OnlyMoves(c, m, e) /\ SameCreates(c, m)
  BY <1>8, <1>14, <1>15, LeftAloneTwice
<1>. QED  BY <1>3, <1>7, <1>14, <1>16 DEF IInv, c, m

\* The instance is taken out and put back elsewhere.
LEMMA MoveInstanceStep ==
  ASSUME IInv, NEW i \in Instances, NEW pos, MoveInstance(i, pos)
  PROVE  IInv' /\ SameCreates(chart, chart') /\ InstanceMoves(chart, chart', i)
<1>. DEFINE c == chart
            d == UpdateInstanceOrder(c, i, pos)
<1>1. /\ Sound(c) /\ Complete(c) /\ IsChart(c)
      /\ i \in Range(c.instances) /\ pos \in 0..(Len(c.instances) - 1)
  BY DEF IInv, Sound, MoveInstance, InstancesIn
<1>2. chart' = d
  BY DEF MoveInstance
<1>. HIDE DEF c
<1>3. c.instances \in Seq(Instances) /\ NoRepeat(c.instances) /\ Len(c.instances) \in Nat
  BY <1>1, ListsOfChart, LenProperties DEF Sound
<1>4. InsertDefined(RemoveAll(c.instances, i), pos)
  <2>1. Len(RemoveAll(c.instances, i)) = Len(c.instances) - 1
    BY <1>1, <1>3, RemoveAllLength
  <2>. QED  BY <1>1, <1>3, <2>1 DEF InsertDefined
<1>5. /\ d.instances = InsertAtPos(RemoveAll(c.instances, i), pos, i)
      /\ d.events = c.events /\ d.orphans = c.orphans
      /\ d.source = c.source /\ d.target = c.target /\ d.slots = c.slots
      /\ d.creator = c.creator /\ d.alive = c.alive /\ DOMAIN d = Fields
  BY <1>1 DEF UpdateInstanceOrder, IsChart, Fields
<1>. HIDE DEF d
<1>6. d.instances \in Seq(Instances) /\ NoRepeat(d.instances)
      /\ Range(d.instances) = Range(c.instances)
  <2>1. /\ InsertAtPos(RemoveAll(c.instances, i), pos, i) \in Seq(Instances)
        /\ Range(InsertAtPos(RemoveAll(c.instances, i), pos, i)) = Range(c.instances) \cup {i}
        /\ NoRepeat(InsertAtPos(RemoveAll(c.instances, i), pos, i))
    BY <1>1, <1>3, <1>4, MovedElement
  <2>. QED  BY <1>1, <1>5, <2>1
<1>7. IsChart(d)
  BY <1>1, <1>5, <1>6 DEF IsChart
<1>8. InChart(d) = InChart(c)
  BY <1>5 DEF InChart
<1>9. Sound(d)
  BY <1>1, <1>5, <1>6, <1>7, <1>8, RelatesToSame DEF Sound
<1>10. Complete(d)
  BY <1>1, <1>5, <1>8 DEF Complete, EndsOf
<1>11. SameCreates(c, d)
  BY <1>5, <1>8 DEF SameCreates
<1>12. InOrder(c.instances, d.instances, i)
  <2>. DEFINE rest == RemoveAll(c.instances, i)
  <2>1. rest \in Seq(Instances) /\ InsertDefined(rest, pos) /\ pos \in Int
    BY <1>1, <1>3, <1>4, KeepOnlyProperties DEF RemoveAll
  <2>2. \A x, y : x # i /\ y # i => (Precedes(rest, x, y) <=> Precedes(c.instances, x, y))
    BY <1>3, KeepOnlyOrder, PrecedesIsOrder DEF RemoveAll
  <2>3. d.instances = InsertAtPos(rest, pos, i)
    BY <1>5
  <2>. HIDE DEF rest
  <2>4. \A x, y : x # i /\ y # i => (Precedes(d.instances, x, y) <=> Precedes(rest, x, y))
    BY <2>1, <2>3, InsertAtPosOrder
  <2>. QED  BY <2>2, <2>4 DEF InOrder
<1>13. InstanceMoves(c, d, i)
  BY <1>5, <1>12 DEF InstanceMoves, InOrder
<1>. QED  BY <1>2, <1>9, <1>10, <1>11, <1>13 DEF IInv, c
-------------------------------------------------------------------------------
(* Create messages and creators.                                               *)

\* The creators are those that the create messages of the chart say, and no instance
\* has two; an instance ranks above its creator.
CreatorInv(c) ==
  /\ \A x \in Creates \cap InChart(c) :
       /\ c.source[x] \in DOMAIN c.events /\ c.target[x] \in DOMAIN c.events
       /\ c.creator[c.target[x]] = c.source[x]
  /\ \A x, y \in Creates \cap InChart(c) : c.target[x] = c.target[y] => x = y
  /\ \A i \in Instances :
       c.creator[i] # NoInstance => \E x \in Creates \cap InChart(c) : c.target[x] = i
RanksBelow(c, rank) ==
  \A i \in Instances : c.creator[i] # NoInstance => rank[c.creator[i]] < rank[i]
RankInv(c) == \E rank \in [Instances -> Nat] : RanksBelow(c, rank)

CreatedInv == CreatorInv(chart) /\ RankInv(chart)

\* The chain of creators above an instance, as CreatorsOf computes it, of some length.
Chain(c, s, up, N) ==
  up = [n \in 0..N |-> IF n = 0 THEN s
                       ELSE IF up[n - 1] = NoInstance THEN NoInstance ELSE c.creator[up[n - 1]]]

LEMMA ChainExists ==
  ASSUME NEW c, NEW s, NEW N \in Nat
  PROVE  \E up : Chain(c, s, up, N)
<1>. DEFINE Bad == {n \in Nat : ~\E up : Chain(c, s, up, n)}
            Next1(v) == IF v = NoInstance THEN NoInstance ELSE c.creator[v]
<1>1. SUFFICES ASSUME Bad # {}  PROVE FALSE
  OBVIOUS
<1>2. PICK n \in Bad : \A m \in Bad : n <= m
  BY <1>1, LeastNat
<1>3. n # 0
  <2>. DEFINE w == [m \in 0..0 |-> s]
  <2>1. Chain(c, s, w, 0)
    BY DEF Chain
  <2>. QED  BY <2>1
<1>4. n - 1 \in Nat /\ n - 1 \notin Bad
  BY <1>2, <1>3
<1>5. PICK v : Chain(c, s, v, n - 1)
  BY <1>4
<1>. DEFINE w == [m \in 0..n |-> IF m = 0 THEN s ELSE IF m < n THEN v[m] ELSE Next1(v[n - 1])]
<1>. HIDE DEF Next1
<1>6. \A m \in 0..(n - 1) : v[m] = IF m = 0 THEN s ELSE Next1(v[m - 1])
  BY <1>5, Zenon DEF Chain, Next1
<1>7. \A m \in 0..n : w[m] = IF m = 0 THEN s ELSE Next1(w[m - 1])
  <2>. SUFFICES ASSUME NEW m \in 0..n, m # 0  PROVE w[m] = Next1(w[m - 1])
    OBVIOUS
  <2>0. v[0] = s /\ m - 1 \in 0..(n - 1) /\ 0 \in 0..(n - 1)
    BY <1>3, <1>6
  <2>1. w[m - 1] = v[m - 1]
    BY <2>0
  <2>2. CASE m < n
    BY <1>6, <2>1, <2>2
  <2>3. CASE m = n
    BY <2>1, <2>3
  <2>. QED  BY <2>2, <2>3
<1>8. Chain(c, s, w, n)
  <2>1. w = [m \in 0..n |-> w[m]]
    OBVIOUS
  <2>. HIDE DEF w
  <2>2. w = [m \in 0..n |-> IF m = 0 THEN s ELSE Next1(w[m - 1])]
    BY <1>7, <2>1
  <2>. QED  BY <2>2 DEF Chain, Next1
<1>. QED  BY <1>2, <1>8

\* Along the chain the ranks fall, until it ends.
LEMMA ChainFalls ==
  ASSUME NEW c, IsChart(c), NEW rank \in [Instances -> Nat], RanksBelow(c, rank),
         NEW s \in Instances, NEW N \in Nat, NEW up, Chain(c, s, up, N)
  PROVE  \A n \in 0..N :
           /\ up[n] \in Ends
           /\ up[n] # NoInstance =>
                \A m \in 0..(n - 1) : up[m] \in Instances /\ rank[up[n]] < rank[up[m]]
<1>. DEFINE Falls(n) == /\ up[n] \in Ends
                        /\ up[n] # NoInstance =>
                             \A m \in 0..(n - 1) : up[m] \in Instances /\ rank[up[n]] < rank[up[m]]
            Bad == {n \in 0..N : ~Falls(n)}
<1>0. NoInstance \notin Instances /\ c.creator \in [Instances -> Ends]
  BY ChartAssumption DEF ChartAssumption, IsChart
<1>1. up[0] = s
  BY DEF Chain
<1>2. Falls(0)
  BY <1>1 DEF Ends
<1>3. ASSUME NEW n \in 1..N, Falls(n - 1)  PROVE Falls(n)
  <2>1. up[n] = IF up[n - 1] = NoInstance THEN NoInstance ELSE c.creator[up[n - 1]]
    <3>1. n \in 0..N /\ n # 0
      OBVIOUS
    <3>. QED  BY <3>1, Zenon DEF Chain
  <2>2. CASE up[n - 1] = NoInstance
    BY <2>1, <2>2 DEF Ends
  <2>3. CASE up[n - 1] # NoInstance
    <3>1. up[n - 1] \in Instances /\ up[n] = c.creator[up[n - 1]] /\ up[n] \in Ends
      BY <1>0, <1>3, <2>1, <2>3 DEF Ends
    <3>2. ASSUME up[n] # NoInstance, NEW m \in 0..(n - 1)
          PROVE  up[m] \in Instances /\ rank[up[n]] < rank[up[m]]
      <4>1. rank[up[n]] < rank[up[n - 1]] /\ up[n] \in Instances
        BY <3>1, <3>2 DEF RanksBelow, Ends
      <4>2. CASE m = n - 1
        BY <3>1, <4>1, <4>2
      <4>3. CASE m # n - 1
        <5>1. m \in 0..(n - 1 - 1)
          BY <4>3
        <5>2. up[m] \in Instances /\ rank[up[n - 1]] < rank[up[m]]
          BY <1>3, <2>3, <5>1
        <5>3. rank[up[m]] \in Nat /\ rank[up[n]] \in Nat /\ rank[up[n - 1]] \in Nat
          BY <3>1, <4>1, <5>2
        <5>. QED  BY <4>1, <5>2, <5>3
      <4>. QED  BY <4>2, <4>3
    <3>. QED  BY <3>1, <3>2
  <2>. QED  BY <2>2, <2>3
<1>. HIDE DEF Falls
<1>4. Bad = {}
  <2>1. SUFFICES ASSUME Bad # {}  PROVE FALSE
    OBVIOUS
  <2>2. PICK n \in Bad : \A m \in Bad : n <= m
    <3>1. Bad \in SUBSET Nat
      OBVIOUS
    <3>. QED  BY <2>1, <3>1, LeastNat, Zenon
  <2>3. n \in 1..N /\ n - 1 \in 0..N /\ n - 1 \notin Bad
    BY <1>2, <2>2
  <2>. QED  BY <1>3, <2>2, <2>3
<1>5. \A n \in 0..N : Falls(n)
  BY <1>4
<1>. QED  BY <1>5 DEF Falls

\* CreatorsOf has its instance's creator, and the creator of each instance it has: a
\* chain that falls is over before the instances are used up.
LEMMA CreatorsOfClosed ==
  ASSUME NEW c, IsChart(c), NEW rank \in [Instances -> Nat], RanksBelow(c, rank),
         NEW s \in Instances
  PROVE  /\ s \notin CreatorsOf(c, s)
         /\ \A i \in Instances \cap ({s} \cup CreatorsOf(c, s)) :
              c.creator[i] # NoInstance => c.creator[i] \in CreatorsOf(c, s)
<1>. DEFINE N  == Cardinality(Instances)
            up == CHOOSE f : Chain(c, s, f, N)
<1>1. N \in Nat /\ IsFiniteSet(Instances) /\ NoInstance \notin Instances
  BY ChartAssumption, FS_CardinalityType DEF ChartAssumption
<1>2. Chain(c, s, up, N)
  BY <1>1, ChainExists
<1>3. CreatorsOf(c, s) = {up[n] : n \in 1..N} \ {NoInstance}
  BY DEF CreatorsOf, Chain
<1>. HIDE DEF up
<1>4. \A n \in 0..N :
        /\ up[n] \in Ends
        /\ up[n] # NoInstance =>
             \A m \in 0..(n - 1) : up[m] \in Instances /\ rank[up[n]] < rank[up[m]]
  <2>. HIDE DEF N
  <2>. QED  BY <1>1, <1>2, ChainFalls
<1>5. up[0] = s
  BY <1>1, <1>2 DEF Chain
<1>6. s \notin CreatorsOf(c, s)
  <2>. SUFFICES ASSUME NEW n \in 1..N, up[n] = s  PROVE FALSE
    BY <1>3
  <2>1. 0 \in 0..(n - 1) /\ n \in 0..N
    BY <1>1
  <2>2. rank[s] < rank[s]
    BY <1>1, <1>4, <1>5, <2>1
  <2>. QED  BY <2>2
<1>7. up[N] = NoInstance
  <2>1. SUFFICES ASSUME up[N] # NoInstance  PROVE FALSE
    OBVIOUS
  <2>2. \A n \in 0..N : up[n] \in Instances
    BY <1>1, <1>4, <2>1 DEF Ends
  <2>3. IsFiniteSet(0..N) /\ Cardinality(0..N) = N + 1
    BY <1>1, FS_Interval
  <2>. DEFINE f == [n \in 0..N |-> up[n]]
  <2>4. f \in [0..N -> Instances]
    BY <2>2
  <2>. HIDE DEF f
  <2>5. PICK x \in 0..N, y \in 0..N : x # y /\ f[x] = f[y]
    BY <1>1, <2>3, <2>4, FS_PigeonHole
  <2>6. up[x] = up[y]
    BY <2>5 DEF f
  <2>7. x < y \/ y < x
    BY <1>1, <2>5
  <2>8. \A m, n \in 0..N : m < n => rank[up[n]] < rank[up[m]]
    BY <1>1, <1>4, <2>2
  <2>9. rank[up[x]] < rank[up[x]]
    BY <2>6, <2>7, <2>8
  <2>. QED  BY <2>2, <2>9
<1>8. ASSUME NEW i \in Instances \cap ({s} \cup CreatorsOf(c, s)), c.creator[i] # NoInstance
      PROVE  c.creator[i] \in CreatorsOf(c, s)
  <2>1. PICK n \in 0..N : up[n] = i
    BY <1>1, <1>3, <1>5
  <2>2. n # N
    BY <1>1, <1>7, <2>1
  <2>3. n + 1 \in 1..N /\ (n + 1) - 1 = n /\ n + 1 \in 0..N /\ n + 1 # 0
    BY <1>1, <2>2
  <2>4. up[n + 1] = IF up[(n + 1) - 1] = NoInstance THEN NoInstance ELSE c.creator[up[(n + 1) - 1]]
    BY <1>2, <2>3, Zenon DEF Chain
  <2>5. up[n + 1] = c.creator[i]
    BY <1>1, <2>1, <2>3, <2>4
  <2>. QED  BY <1>3, <1>8, <2>3, <2>5
<1>. QED  BY <1>6, <1>8

\* A new creator of an instance that none of its creators' creators is: every
\* instance outside the chain is raised above the chain.
LEMMA RankAdded ==
  ASSUME NEW c, IsChart(c), RankInv(c), NEW s \in Instances, NEW t \in Instances,
         s # t, t \notin CreatorsOf(c, s), NEW d, d.creator = [c.creator EXCEPT ![t] = s]
  PROVE  RankInv(d)
<1>1. PICK rank \in [Instances -> Nat] : RanksBelow(c, rank)
  BY DEF RankInv
<1>. DEFINE U   == {s} \cup CreatorsOf(c, s)
            new == [i \in Instances |-> IF i \in U THEN rank[i] ELSE rank[i] + rank[s] + 1]
<1>2. \A i \in Instances \cap U : c.creator[i] # NoInstance => c.creator[i] \in U
  BY <1>1, CreatorsOfClosed
<1>3. s \in U /\ t \notin U
  OBVIOUS
<1>. HIDE DEF U
<1>4. new \in [Instances -> Nat]
  OBVIOUS
<1>5. ASSUME NEW i \in Instances, d.creator[i] # NoInstance
      PROVE  new[d.creator[i]] < new[i]
  <2>0. c.creator \in [Instances -> Ends] /\ NoInstance \notin Instances
    BY ChartAssumption DEF IsChart, ChartAssumption
  <2>1. CASE i = t
    BY <1>3, <2>0, <2>1
  <2>2. CASE i # t
    <3>1. d.creator[i] = c.creator[i] /\ c.creator[i] \in Instances
      BY <1>5, <2>0, <2>2 DEF Ends
    <3>2. rank[c.creator[i]] < rank[i]
      BY <1>1, <1>5, <3>1 DEF RanksBelow
    <3>. DEFINE k == c.creator[i]
    <3>3. i \in U => k \in U
      BY <1>2, <1>5, <3>1
    <3>4. rank[k] \in Nat /\ rank[i] \in Nat /\ rank[s] \in Nat
      BY <3>1
    <3>. HIDE DEF k
    <3>5. k \in Instances /\ rank[k] < rank[i] /\ d.creator[i] = k
      BY <3>1, <3>2 DEF k
    <3>. QED  BY <3>3, <3>4, <3>5
  <2>. QED  BY <2>1, <2>2
<1>. QED  BY <1>4, <1>5 DEF RankInv, RanksBelow

\* Without some of the creators the ranks still fall.
LEMMA RankKept ==
  ASSUME NEW c, RankInv(c), NEW d,
         \A i \in Instances : d.creator[i] \in {c.creator[i], NoInstance}
  PROVE  RankInv(d)
  BY DEF RankInv, RanksBelow

\* The ends of a create message of the chart that are instances are in the chart.
LEMMA CreateEnds ==
  ASSUME NEW d, Complete(d), NEW x \in Creates \cap InChart(d),
         d.source[x] \in Instances, d.target[x] \in Instances
  PROVE  d.source[x] \in DOMAIN d.events /\ d.target[x] \in DOMAIN d.events
  BY ChartAssumption DEF Complete, EndsOf, ChartAssumption

\* One lemma for each way the create messages change.
LEMMA SameCreatesKeep ==
  ASSUME NEW c, Sound(c), CreatorInv(c), RankInv(c), NEW d, Sound(d), Complete(d), SameCreates(c, d)
  PROVE  CreatorInv(d) /\ RankInv(d)
<1>1. \A x \in Creates \cap InChart(d) :
        x \in InChart(c) /\ d.source[x] = c.source[x] /\ d.target[x] = c.target[x]
  BY DEF SameCreates
<1>2. \A x \in Creates \cap InChart(c) : x \in InChart(d) /\ d.target[x] = c.target[x]
  BY DEF SameCreates
<1>3. d.creator = c.creator
  BY DEF SameCreates
<1>4. \A x \in Creates \cap InChart(d) : d.source[x] \in DOMAIN d.events /\ d.target[x] \in DOMAIN d.events
  BY <1>1, CreateEnds DEF CreatorInv, Sound, IsChart
<1>5. CreatorInv(d)
  BY <1>1, <1>2, <1>3, <1>4 DEF CreatorInv
<1>6. RankInv(d)
  BY <1>3, RankKept
<1>. QED  BY <1>5, <1>6

LEMMA CreateAddedKeeps ==
  ASSUME NEW c, Sound(c), CreatorInv(c), RankInv(c), NEW d, Sound(d), Complete(d),
         NEW e \in Creates, e \notin InChart(c), NEW s \in Instances, NEW t \in Instances, s # t,
         c.creator[t] = NoInstance, t \notin CreatorsOf(c, s), CreateAdded(c, d, e, s, t)
  PROVE  CreatorInv(d) /\ RankInv(d)
<1>1. IsChart(c) /\ c.creator \in [Instances -> Ends] /\ NoInstance \notin Instances
  BY ChartAssumption DEF Sound, IsChart, ChartAssumption
<1>2. \A x \in Creates \cap InChart(c) :
        /\ x # e /\ d.source[x] = c.source[x] /\ d.target[x] = c.target[x]
        /\ c.source[x] \in Instances /\ c.target[x] \in Instances /\ c.target[x] # t
  BY <1>1 DEF CreateAdded, CreatorInv, IsChart
<1>3. \A x \in Creates \cap InChart(d) : x = e \/ x \in InChart(c)
  BY DEF CreateAdded
<1>4. /\ e \in InChart(d) /\ d.source[e] = s /\ d.target[e] = t
      /\ d.creator = [c.creator EXCEPT ![t] = s] /\ InChart(c) \subseteq InChart(d)
  BY DEF CreateAdded
<1>5. \A x \in Creates \cap InChart(d) :
        /\ d.source[x] \in Instances /\ d.target[x] \in Instances
        /\ d.creator[d.target[x]] = d.source[x]
  BY <1>1, <1>2, <1>3, <1>4 DEF CreatorInv
<1>6. \A x \in Creates \cap InChart(d) : d.source[x] \in DOMAIN d.events /\ d.target[x] \in DOMAIN d.events
  BY <1>5, CreateEnds
<1>7. \A x, y \in Creates \cap InChart(d) : d.target[x] = d.target[y] => x = y
  BY <1>2, <1>3, <1>4 DEF CreatorInv
<1>8. \A i \in Instances :
        d.creator[i] # NoInstance => \E x \in Creates \cap InChart(d) : d.target[x] = i
  <2>. SUFFICES ASSUME NEW i \in Instances, d.creator[i] # NoInstance
                PROVE  \E x \in Creates \cap InChart(d) : d.target[x] = i
    OBVIOUS
  <2>1. CASE i = t
    BY <1>4, <2>1
  <2>2. CASE i # t
    <3>1. c.creator[i] # NoInstance
      BY <1>1, <1>4, <2>2
    <3>2. PICK x \in Creates \cap InChart(c) : c.target[x] = i
      BY <3>1 DEF CreatorInv
    <3>. QED  BY <1>2, <1>4, <3>2
  <2>. QED  BY <2>1, <2>2
<1>9. CreatorInv(d)
  BY <1>5, <1>6, <1>7, <1>8 DEF CreatorInv
<1>10. RankInv(d)
  BY <1>1, <1>4, RankAdded
<1>. QED  BY <1>9, <1>10

LEMMA CreatesTakenKeep ==
  ASSUME NEW c, Sound(c), CreatorInv(c), RankInv(c), NEW d, Sound(d), Complete(d),
         NEW E, E \cap Creates \subseteq InChart(c), CreatorsTaken(c, d, E),
         d.source = c.source, d.target = c.target,
         \A x \in Creates : x \in InChart(d) <=> x \in InChart(c) /\ x \notin E
  PROVE  CreatorInv(d) /\ RankInv(d)
<1>1. IsChart(c) /\ c.creator \in [Instances -> Ends] /\ DOMAIN c.events \subseteq Instances
  BY DEF Sound, IsChart
<1>2. d.creator = [i \in Instances |-> IF \E e \in E \cap Creates : c.target[e] = i THEN NoInstance
                                       ELSE c.creator[i]]
  BY DEF CreatorsTaken
<1>3. \A x \in Creates \cap InChart(d) :
        /\ x \in InChart(c) /\ ~\E e \in E \cap Creates : c.target[e] = c.target[x]
        /\ c.source[x] \in Instances /\ c.target[x] \in Instances
  BY <1>1 DEF CreatorInv
<1>4. \A x \in Creates \cap InChart(d) : d.creator[d.target[x]] = d.source[x]
  BY <1>2, <1>3 DEF CreatorInv
<1>5. \A x \in Creates \cap InChart(d) : d.source[x] \in DOMAIN d.events /\ d.target[x] \in DOMAIN d.events
  BY <1>3, CreateEnds
<1>6. \A x, y \in Creates \cap InChart(d) : d.target[x] = d.target[y] => x = y
  BY <1>3 DEF CreatorInv
<1>7. ASSUME NEW i \in Instances, d.creator[i] # NoInstance
      PROVE  \E x \in Creates \cap InChart(d) : d.target[x] = i
  <2>1. c.creator[i] # NoInstance /\ ~\E e \in E \cap Creates : c.target[e] = i
    BY <1>2, <1>7
  <2>2. PICK x \in Creates \cap InChart(c) : c.target[x] = i
    BY <2>1 DEF CreatorInv
  <2>. QED  BY <2>1, <2>2
<1>8. CreatorInv(d)
  BY <1>4, <1>5, <1>6, <1>7 DEF CreatorInv
<1>9. \A i \in Instances : d.creator[i] \in {c.creator[i], NoInstance}
  BY <1>2
<1>10. RankInv(d)
  BY <1>9, RankKept
<1>. QED  BY <1>8, <1>10

\* A deleted instance takes with it the create messages of which it is an end, no more.
LEMMA DeletedCreates ==
  ASSUME NEW c, Sound(c), Complete(c), CreatorInv(c), NEW i \in Instances,
         NEW x \in Creates
  PROVE  LET E == MessagesOf(c, {i})
         IN  /\ x \in E => x \in InChart(c)
             /\ x \in InChart(c) /\ x \notin E =>
                  \E j \in DOMAIN c.events \ {i} : x \in Range(c.events[j])
<1>1. x \in MessagesOf(c, {i}) => x \in InChart(c)
  BY InChartIs DEF MessagesOf
<1>2. ASSUME x \in InChart(c)
      PROVE  \E j \in DOMAIN c.events \ {i} : x \in Range(c.events[j])
  <2>1. /\ c.source[x] \in DOMAIN c.events /\ c.target[x] \in DOMAIN c.events
        /\ x \in Messages /\ x \notin Shared /\ NoInstance \notin DOMAIN c.events
    BY <1>2, ChartAssumption DEF CreatorInv, ChartAssumption, Sound, IsChart
  <2>2. c.source[x] # c.target[x]
    BY <1>2, <2>1 DEF Sound
  <2>3. c.source[x] \in EndsOf(c, x) /\ c.target[x] \in EndsOf(c, x)
    BY <2>1 DEF EndsOf
  <2>4. x \in Range(c.events[c.source[x]]) /\ x \in Range(c.events[c.target[x]])
    BY <1>2, <2>1, <2>3 DEF Complete
  <2>. QED  BY <2>1, <2>2, <2>4
<1>. QED  BY <1>1, <1>2
-------------------------------------------------------------------------------
(* The theorems.                                                               *)

\* What any command does: it keeps the invariant; the create messages stay as they
\* are unless one is added, or an event or an instance deleted; and only one event
\* moves, or one instance.
LEMMA StepIs ==
  ASSUME IInv, Next
  PROVE  /\ IInv'
         /\ \/ SameCreates(chart, chart')
            \/ \E e \in Creates, s, t \in Ends : \E at : CreateMessage(e, s, t, at)
            \/ \E e \in Events : DeleteEvent(e)
            \/ \E i \in Instances : DeleteInstance(i)
         /\ \/ \E i \in Instances : InstanceMoves(chart, chart', i)
            \/ \E e \in Events : OnlyMoves(chart, chart', e)
<1>. DEFINE Kept1 == IInv' /\ SameCreates(chart, chart')
            OneInstance == \E i \in Instances : InstanceMoves(chart, chart', i)
            OneEvent == \E e \in Events : OnlyMoves(chart, chart', e)
<1>0. /\ Locals \subseteq Events /\ Shared \subseteq Events /\ Messages \subseteq Events
      /\ Comments \subseteq Events
  BY DEF Events
<1>1. ASSUME NEW i \in Instances, NEW pos \in -1..Len(chart.instances), CreateInstance(i, pos)
      PROVE  Kept1 /\ OneInstance
  BY <1>1, CreateInstanceStep
<1>2. ASSUME NEW i \in Instances, UncreateInstance(i)
      PROVE  Kept1 /\ OneInstance
  BY <1>2, UncreateInstanceStep
<1>3. ASSUME NEW i \in Instances, DeleteInstance(i)
      PROVE  IInv' /\ OneInstance
  BY <1>3, DeleteInstanceStep
<1>4. ASSUME NEW i \in Instances, NEW pos, MoveInstance(i, pos)
      PROVE  Kept1 /\ OneInstance
  BY <1>4, MoveInstanceStep
<1>5. ASSUME NEW e \in Locals, NEW i \in Instances, NEW pos, CreateLocal(e, i, pos)
      PROVE  Kept1 /\ OneEvent
  BY <1>0, <1>5, CreateLocalStep
<1>6. ASSUME NEW e \in Locals, NEW i \in Instances, NEW pos, MoveLocal(e, i, pos)
      PROVE  Kept1 /\ OneEvent
  BY <1>0, <1>6, MoveLocalStep
<1>7. ASSUME NEW e \in Shared, NEW at, CreateShared(e, at)
      PROVE  Kept1 /\ OneEvent
  BY <1>0, <1>7, CreateSharedStep
<1>8. ASSUME NEW e \in Shared, NEW i \in Instances, NEW pos, MoveShared(e, i, pos)
      PROVE  Kept1 /\ OneEvent
  BY <1>0, <1>8, MoveSharedStep
<1>9. ASSUME NEW e \in Messages, NEW s \in Ends, NEW t \in Ends, NEW at, CreateMessage(e, s, t, at)
      PROVE  IInv' /\ (e \notin Creates => SameCreates(chart, chart')) /\ OneEvent
  BY <1>0, <1>9, CreateMessageStep
<1>10. ASSUME NEW e \in Messages \ Creates, NEW end, NEW i \in Ends,
              NEW pos \in -1..Cardinality(Events), RetargetMessage(e, end, i, pos)
       PROVE  Kept1 /\ OneEvent
  <2>1. Cardinality(Events) \in Nat
    BY ChartAssumption, FS_CardinalityType DEF ChartAssumption
  <2>2. pos \in Int
    BY <2>1
  <2>. QED  BY <1>0, <1>10, <2>2, RetargetMessageStep
<1>11. ASSUME NEW e \in Messages, NEW at, MoveMessage(e, at)
       PROVE  Kept1 /\ OneEvent
  BY <1>0, <1>11, MoveMessageStep
<1>12. ASSUME NEW e \in Comments, SetComment(e)
       PROVE  Kept1 /\ OneEvent
  BY <1>0, <1>12, SetCommentStep
<1>13. ASSUME NEW e \in Events, DeleteEvent(e)
       PROVE  IInv' /\ OneEvent
  BY <1>13, DeleteEventStep
<1>. HIDE DEF OneInstance, OneEvent
<1>. QED
  BY <1>1, <1>2, <1>3, <1>4, <1>5, <1>6, <1>7, <1>8, <1>9, <1>10, <1>11, <1>12, <1>13
  DEF Next, OneInstance, OneEvent

\* The invariant is inductive: no command of the editor breaks it.
THEOREM InvariantHolds ==
  Spec => []IInv
<1>1. Init => IInv
  BY EmptySound DEF Init, IInv
<1>2. IInv /\ [Next]_chart => IInv'
  BY StepIs DEF IInv
<1>. QED  BY <1>1, <1>2, PTL DEF Spec

\* So is that the creators are those the create messages say, without cycles.
THEOREM CreatorsHold ==
  Spec => []CreatedInv
<1>1. Init => CreatedInv
  <2>. SUFFICES ASSUME chart = EmptyChart  PROVE CreatedInv
    BY DEF Init
  <2>1. /\ chart.orphans = << >> /\ DOMAIN chart.events = {}
        /\ chart.creator = [i \in Instances |-> NoInstance]
    BY DEF EmptyChart
  <2>2. InChart(chart) = {}
    BY <2>1, EmptyList, InChartIs
  <2>3. CreatorInv(chart)
    BY <2>1, <2>2 DEF CreatorInv
  <2>4. RankInv(chart)
    <3>1. [i \in Instances |-> 0] \in [Instances -> Nat]
      OBVIOUS
    <3>2. RanksBelow(chart, [i \in Instances |-> 0])
      BY <2>1 DEF RanksBelow
    <3>. QED  BY <3>1, <3>2 DEF RankInv
  <2>. QED  BY <2>3, <2>4 DEF CreatedInv
<1>2. IInv /\ CreatedInv /\ [Next]_chart => CreatedInv'
  <2>. SUFFICES ASSUME IInv, CreatedInv, [Next]_chart  PROVE CreatedInv'
    OBVIOUS
  <2>1. CASE UNCHANGED chart
    BY <2>1 DEF CreatedInv
  <2>2. CASE Next
    <3>1. /\ Sound(chart) /\ Complete(chart) /\ Sound(chart') /\ Complete(chart')
          /\ CreatorInv(chart) /\ RankInv(chart)
      BY <2>2, StepIs DEF IInv, CreatedInv
    <3>2. CASE SameCreates(chart, chart')
      BY <3>1, <3>2, SameCreatesKeep DEF CreatedInv
    <3>3. ASSUME NEW e \in Creates, NEW s \in Ends, NEW t \in Ends, NEW at, CreateMessage(e, s, t, at)
          PROVE  CreatedInv'
      <4>1. e \in Messages
        BY ChartAssumption DEF ChartAssumption
      <4>2. CreateAdded(chart, chart', e, s, t)
        BY <3>3, <4>1, CreateMessageStep
      <4>3. /\ e \notin InChart(chart) /\ s # t /\ s \in Instances /\ t \in Instances
            /\ chart.creator[t] = NoInstance /\ t \notin CreatorsOf(chart, s)
        BY <3>3 DEF CreateMessage, FreshEvent, ValidCreate, Ends
      <4>. QED  BY <3>1, <4>2, <4>3, CreateAddedKeeps DEF CreatedInv
    <3>4. ASSUME NEW e \in Events, DeleteEvent(e)
          PROVE  CreatedInv'
      <4>1. e \in InChart(chart)
        BY <3>4 DEF DeleteEvent
      <4>2. /\ InChart(chart') = InChart(chart) \ {e}
            /\ chart'.source = chart.source /\ chart'.target = chart.target
            /\ CreatorsTaken(chart, chart', {e})
        BY <3>4, DeleteEventStep
      <4>. QED  BY <3>1, <4>1, <4>2, CreatesTakenKeep DEF CreatedInv
    <3>5. ASSUME NEW i \in Instances, DeleteInstance(i)
          PROVE  CreatedInv'
      <4>. DEFINE E == MessagesOf(chart, {i})
      <4>1. /\ chart'.source = chart.source /\ chart'.target = chart.target
            /\ CreatorsTaken(chart, chart', E)
            /\ \A x : x \in InChart(chart') <=>
                 /\ x \notin E
                 /\ x \in Range(chart.orphans)
                      \/ \E j \in DOMAIN chart.events \ {i} : x \in Range(chart.events[j])
        BY <3>5, DeleteInstanceStep
      <4>2. \A x \in Creates :
              /\ x \in E => x \in InChart(chart)
              /\ x \in InChart(chart) /\ x \notin E =>
                   \E j \in DOMAIN chart.events \ {i} : x \in Range(chart.events[j])
        BY <3>1, DeletedCreates
      <4>. HIDE DEF E
      <4>3. \A x \in Creates : x \in InChart(chart') <=> x \in InChart(chart) /\ x \notin E
        BY <4>1, <4>2, InChartIs
      <4>. QED  BY <3>1, <4>1, <4>2, <4>3, CreatesTakenKeep DEF CreatedInv
    <3>. QED  BY <2>2, <3>2, <3>3, <3>4, <3>5, StepIs
  <2>. QED  BY <2>1, <2>2
<1>. QED  BY <1>1, <1>2, InvariantHolds, PTL DEF Spec

\* A chart is well formed after any commands.
THEOREM TypeCorrect ==
  Spec => []TypeOK
<1>1. IInv => TypeOK
  BY DEF IInv, Sound, TypeOK
<1>. QED  BY <1>1, InvariantHolds, PTL

\* No command puts an event on a lifeline twice, or an instance into the chart.
THEOREM NothingListedTwice ==
  Spec => []NoDuplicates
<1>1. IInv => NoDuplicates
  BY DEF IInv, Sound, NoDuplicates
<1>. QED  BY <1>1, InvariantHolds, PTL

\* No lifeline holds an event that does not point to its instance.
THEOREM ListedAreRelated ==
  Spec => []OnlyRelatedListed
<1>1. IInv => OnlyRelatedListed
  BY DEF IInv, Sound, OnlyRelatedListed
<1>. QED  BY <1>1, InvariantHolds, PTL

\* No event of the chart points to an instance that does not have it.
THEOREM RelatedAreListed ==
  Spec => []RelatedListed
<1>1. IInv => RelatedListed
  BY DEF IInv, Sound, Complete, RelatedListed, InstancesIn, Lifeline
<1>. QED  BY <1>1, InvariantHolds, PTL

\* There is a lifeline for each instance and for no other.
THEOREM LifelinesOfInstances ==
  Spec => []KeysAreInstances
<1>1. IInv => KeysAreInstances
  BY DEF IInv, Sound, KeysAreInstances, InstancesIn
<1>. QED  BY <1>1, InvariantHolds, PTL

\* The chart listens to each of its events exactly once.
THEOREM ListenedToOnce ==
  Spec => []ConnectedOnce
<1>1. IInv => ConnectedOnce
  BY DEF IInv, Sound, ConnectedOnce
<1>. QED  BY <1>1, InvariantHolds, PTL

\* An instance has a creator exactly when one create message of the chart says so.
THEOREM CreatorsAreCreates ==
  Spec => []CreatorHasCreate
<1>1. IInv /\ CreatedInv => CreatorHasCreate
  <2>. SUFFICES ASSUME IInv, CreatedInv, NEW i \in InstancesIn
                PROVE  LET creates == {e \in Creates \cap InChart(chart) : chart.target[e] = i}
                       IN  /\ Cardinality(creates) <= 1
                           /\ {chart.source[e] : e \in creates} = {chart.creator[i]} \ {NoInstance}
    BY DEF CreatorHasCreate
  <2>. DEFINE creates == {e \in Creates \cap InChart(chart) : chart.target[e] = i}
  <2>1. i \in Instances /\ CreatorInv(chart) /\ NoInstance \notin DOMAIN chart.events
    BY ChartAssumption, ListsOfChart
    DEF IInv, CreatedInv, Sound, IsChart, InstancesIn, ChartAssumption
  <2>2. CASE creates = {}
    <3>1. chart.creator[i] = NoInstance
      BY <2>1, <2>2 DEF CreatorInv
    <3>. QED  BY <2>2, <3>1, FS_EmptySet
  <2>3. CASE creates # {}
    <3>1. PICK e \in creates : TRUE
      BY <2>3
    <3>2. creates = {e}
      BY <2>1, <3>1 DEF CreatorInv
    <3>3. chart.creator[i] = chart.source[e] /\ chart.source[e] # NoInstance
      BY <2>1, <3>1 DEF CreatorInv
    <3>4. Cardinality(creates) = 1
      BY <3>2, FS_Singleton
    <3>. HIDE DEF creates
    <3>5. {chart.source[x] : x \in creates} = {chart.source[e]}
      BY <3>2
    <3>6. {chart.source[x] : x \in creates} = {chart.creator[i]} \ {NoInstance}
      BY <3>3, <3>5
    <3>. QED  BY <3>4, <3>6 DEF creates
  <2>. QED  BY <2>2, <2>3
<1>. QED  BY <1>1, InvariantHolds, CreatorsHold, PTL

\* No instance is among its own creators: the ranks fall along the chain.
THEOREM CreationHasNoCycle ==
  Spec => []NoCyclicCreation
<1>1. IInv /\ CreatedInv => NoCyclicCreation
  <2>. SUFFICES ASSUME IInv, CreatedInv, NEW i \in Instances
                PROVE  i \notin CreatorsOf(chart, i)
    BY DEF NoCyclicCreation
  <2>1. IsChart(chart)
    BY DEF IInv, Sound
  <2>2. PICK rank \in [Instances -> Nat] : RanksBelow(chart, rank)
    BY DEF CreatedInv, RankInv
  <2>. QED  BY <2>1, <2>2, CreatorsOfClosed
<1>. QED  BY <1>1, InvariantHolds, CreatorsHold, PTL

\* Lists in which the elements that stay, one apart, precede each other alike.
LEMMA InOrderIsKept ==
  ASSUME NEW S, NEW s \in Seq(S), NEW r \in Seq(S), NoRepeat(s), NoRepeat(r), NEW e, InOrder(s, r, e)
  PROVE  OrderKept(s, r, e)
<1>. DEFINE stay == (Range(s) \cap Range(r)) \ {e}
            a    == KeepOnly(s, stay)
            b    == KeepOnly(r, stay)
<1>1. stay \subseteq Range(s) /\ stay \subseteq Range(r)
  OBVIOUS
<1>2. \A x, y \in stay : Precedes(s, x, y) <=> Precedes(r, x, y)
  BY DEF InOrder
<1>. HIDE DEF stay
<1>3. a \in Seq(S) /\ Range(a) = Range(s) \cap stay /\ NoRepeat(a)
  BY KeepOnlyProperties
<1>4. b \in Seq(S) /\ Range(b) = Range(r) \cap stay /\ NoRepeat(b)
  BY KeepOnlyProperties
<1>5. \A x, y \in stay : Precedes(a, x, y) <=> Precedes(b, x, y)
  BY <1>2, KeepOnlyOrder
<1>. HIDE DEF a, b
<1>6. a = b
  BY <1>1, <1>3, <1>4, <1>5, OrderDetermines
<1>. QED  BY <1>6 DEF OrderKept, a, b, stay

\* No command changes the order of the events, or of the instances, it is not about.
THEOREM CommandsMoveOneThing ==
  Spec => OneEventMoves
<1>. DEFINE A == /\ \E i \in Ends : OrderKept(chart.instances, chart'.instances, i)
                 /\ \E e \in Events \cup {NoInstance} :
                      \A i \in DOMAIN chart.events \cap DOMAIN chart'.events :
                        OrderKept(chart.events[i], chart'.events[i], e)
<1>1. IInv /\ [Next]_chart => [A]_chart
  <2>. SUFFICES ASSUME IInv, Next  PROVE A
    OBVIOUS
  <2>. DEFINE d == chart'
  <2>1. Sound(chart) /\ Sound(d)
    BY StepIs DEF IInv
  <2>2. \/ \E i \in Instances : InstanceMoves(chart, d, i)
        \/ \E e \in Events : OnlyMoves(chart, d, e)
    BY StepIs
  <2>. HIDE DEF d
  <2>3. /\ chart.instances \in Seq(Instances) /\ NoRepeat(chart.instances)
        /\ d.instances \in Seq(Instances) /\ NoRepeat(d.instances)
        /\ \A j \in DOMAIN chart.events : chart.events[j] \in Seq(Events) /\ NoRepeat(chart.events[j])
        /\ \A j \in DOMAIN d.events : d.events[j] \in Seq(Events) /\ NoRepeat(d.events[j])
    BY <2>1, ListsOfChart DEF Sound
  <2>4. ASSUME NEW i \in Instances, InstanceMoves(chart, d, i)
        PROVE  /\ OrderKept(chart.instances, d.instances, i)
               /\ \A j \in DOMAIN chart.events \cap DOMAIN d.events :
                    OrderKept(chart.events[j], d.events[j], NoInstance)
    BY <2>3, <2>4, InOrderIsKept DEF InstanceMoves
  <2>5. ASSUME NEW e \in Events, OnlyMoves(chart, d, e)
        PROVE  /\ OrderKept(chart.instances, d.instances, NoInstance)
               /\ \A j \in DOMAIN chart.events \cap DOMAIN d.events :
                    OrderKept(chart.events[j], d.events[j], e)
    <3>1. \A j \in DOMAIN chart.events : Range(chart.events[j]) \subseteq Events
      BY <2>1, ListsOfChart DEF Sound
    <3>2. \A j \in DOMAIN chart.events \cap DOMAIN d.events : InOrder(chart.events[j], d.events[j], e)
      BY <2>5, <3>1 DEF OnlyMoves, InOrder
    <3>3. InOrder(chart.instances, d.instances, NoInstance)
      BY <2>5 DEF OnlyMoves, InOrder
    <3>. QED  BY <2>3, <3>2, <3>3, InOrderIsKept
  <2>6. \A i \in Instances : i \in Ends
    BY DEF Ends
  <2>7. NoInstance \in Ends
    BY DEF Ends
  <2>. QED  BY <2>2, <2>4, <2>5, <2>6, <2>7 DEF d
<1>. QED  BY <1>1, InvariantHolds, PTL DEF Spec, OneEventMoves
===============================================================================
