-------------------------- MODULE RemoteControlProofs --------------------------
(* What the commands of a chart do can be undone and done again, in any order  *)
(* the stack allows, for any number of instances, events and commands: where   *)
(* the sessions are exact, the stack of MscUndo implements UndoHistory.  On     *)
(* this rests the second part: any number of clients of the remote control, for *)
(* any chart, who is answered, and what a name finds.                           *)
EXTENDS RemoteControl, MscListsProofs

Pair(c, e) == <<c.source[e], c.target[e]>>

\* A chart in use: parts of the right kinds, no list with a position it lacks, and no
\* ends for what has none.
Shaped(c) ==
  /\ DOMAIN c = Fields /\ c.alive = TRUE
  /\ c.instances \in Seq(Instances) /\ NoRepeat(c.instances)
  /\ c.events \in [Range(c.instances) -> Seq(Events)]
  /\ c.orphans \in Seq(Comments)
  /\ c.source \in [Events -> Ends] /\ c.target \in [Events -> Ends]
  /\ c.creator \in [Instances -> Ends]
  /\ \A e \in Events \ Messages : c.target[e] = NoInstance
  /\ \A e \in Comments : c.source[e] = NoInstance

\* The creators are those that the create messages say.  (One from the environment
\* says nothing; only the remote control makes such.)
CreatorsAgree(c) ==
  /\ \A e \in Creates \cap InChart(c) :
       /\ c.target[e] \in Range(c.instances) /\ c.source[e] # c.target[e]
       /\ c.source[e] # NoInstance => /\ c.source[e] \in Range(c.instances)
                                     /\ c.creator[c.target[e]] = c.source[e]
  /\ \A i \in Instances :
       c.creator[i] # NoInstance =>
         \E e \in Creates \cap InChart(c) : c.target[e] = i /\ c.source[e] # NoInstance

\* What lists and pointers say of each other, in every chart of an exact session.
ListsAgree(c) ==
  /\ \A i \in DOMAIN c.events : NoRepeat(c.events[i]) /\ Range(c.events[i]) \subseteq Messages \cup Locals
  /\ \A i \in DOMAIN c.events : \A e \in Range(c.events[i]) : i \in EndsOf(c, e)
  /\ \A e \in InChart(c) : \A i \in EndsOf(c, e) : i \in DOMAIN c.events /\ e \in Range(c.events[i])

Good(c) == Shaped(c) /\ ListsAgree(c) /\ CreatorsAgree(c)

\* Charts that look alike to the user.
Same(c, d) ==
  /\ d.instances = c.instances /\ d.events = c.events /\ Range(d.orphans) = Range(c.orphans)
  /\ d.creator = c.creator
  /\ \A e \in InChart(c) : Pair(d, e) = Pair(c, e)

\* From a chart like c the command leads to one like d, if what is in d alone points
\* where it does in d; nothing else that is not in both gets other ends.
Keeps(x, y, c, d) ==
  \A e \in Events : e \notin InChart(c) \cap InChart(d) => Pair(y, e) = Pair(x, e)
RedoTo(c, cmd, d) ==
  \A x : Good(x) /\ Same(c, x) /\ (\A e \in InChart(d) \ InChart(c) : Pair(x, e) = Pair(d, e))
    => LET y == Redo(x, cmd) IN Shaped(y) /\ Same(d, y) /\ Keeps(x, y, c, d)
UndoTo(d, cmd, c) ==
  \A x : Good(x) /\ Same(d, x) /\ (\A e \in InChart(c) \ InChart(d) : Pair(x, e) = Pair(c, e))
    => LET y == Undo(x, cmd) IN Shaped(y) /\ Same(c, y) /\ Keeps(x, y, c, d)

\* The same of views, for the stack's invariant.
EndsFit(c, V, W) == \A e \in DOMAIN W.ends \ DOMAIN V.ends : Pair(c, e) = W.ends[e]
EndsKept(c, d, V, W) ==
  \A e \in Events : e \notin DOMAIN V.ends \cap DOMAIN W.ends => Pair(d, e) = Pair(c, e)
RedoLeads(V, cmd, W) ==
  \A c : Good(c) /\ View(c) = V /\ EndsFit(c, V, W)
    => LET d == Redo(c, cmd) IN Good(d) /\ View(d) = W /\ EndsKept(c, d, V, W)
UndoLeads(V, cmd, W) ==
  \A c : Good(c) /\ View(c) = W /\ EndsFit(c, W, V)
    => LET d == Undo(c, cmd) IN Good(d) /\ View(d) = V /\ EndsKept(c, d, V, W)
Leads(V, cmd, W) == RedoLeads(V, cmd, W) /\ UndoLeads(V, cmd, W)
-------------------------------------------------------------------------------
(* Charts and views.                                                           *)

\* An event is in the chart as an orphan or on a lifeline.
LEMMA InChartIs ==
  ASSUME NEW c, NEW e
  PROVE  e \in InChart(c) <=>
           \/ e \in Range(c.orphans)
           \/ \E i \in DOMAIN c.events : e \in Range(c.events[i])
  BY DEF InChart

LEMMA KindsDiffer ==
  /\ Messages \subseteq Events /\ Locals \subseteq Events /\ Comments \subseteq Events
  /\ Messages \cap Locals = {} /\ Comments \cap (Messages \cup Locals) = {}
  /\ Shared \cap (Messages \cup Locals \cup Comments) = {}
  /\ Creates \subseteq Messages
  /\ NoInstance \notin Instances /\ Instances \subseteq Ends /\ NoInstance \in Ends
  BY ChartAssumption DEF ChartAssumption, Events, Ends

\* The parts of a chart in use.
LEMMA ShapedParts ==
  ASSUME NEW c, Shaped(c)
  PROVE  /\ DOMAIN c.events = Range(c.instances) /\ Range(c.instances) \subseteq Instances
         /\ \A i \in DOMAIN c.events : /\ c.events[i] \in Seq(Events)
                                       /\ Range(c.events[i]) \subseteq Events
         /\ Range(c.orphans) \subseteq Comments
         /\ InChart(c) \subseteq Events
         /\ \A e \in Events : c.source[e] \in Ends /\ c.target[e] \in Ends
<1>1. /\ DOMAIN c.events = Range(c.instances)
      /\ \A i \in DOMAIN c.events : c.events[i] \in Seq(Events)
      /\ \A e \in Events : c.source[e] \in Ends /\ c.target[e] \in Ends
  BY DEF Shaped
<1>2. Range(c.instances) \subseteq Instances /\ Range(c.orphans) \subseteq Comments
  BY RangeOfSeq DEF Shaped
<1>3. \A i \in DOMAIN c.events : Range(c.events[i]) \subseteq Events
  BY <1>1, RangeOfSeq
<1>4. InChart(c) \subseteq Events
  BY <1>2, <1>3, InChartIs, KindsDiffer
<1>. QED  BY <1>1, <1>2, <1>3, <1>4

LEMMA SameInChart ==
  ASSUME NEW c, NEW d, Same(c, d)
  PROVE  InChart(d) = InChart(c)
  BY DEF Same, InChart

\* What the user sees is what Same compares.
LEMMA SameIsView ==
  ASSUME NEW c, Good(c), NEW d, Good(d)
  PROVE  View(c) = View(d) <=> Same(c, d)
<1>1. ASSUME Same(c, d)  PROVE View(c) = View(d)
  <2>1. InChart(d) = InChart(c)
    BY <1>1, SameInChart
  <2>2. [e \in InChart(c) |-> <<c.source[e], c.target[e]>>] = [e \in InChart(d) |-> <<d.source[e], d.target[e]>>]
    BY <1>1, <2>1 DEF Same, Pair
  <2>. QED  BY <1>1, <2>2 DEF Same, View
<1>2. ASSUME View(c) = View(d)  PROVE Same(c, d)
  <2>1. /\ c.instances = d.instances /\ c.events = d.events /\ Range(c.orphans) = Range(d.orphans)
        /\ [e \in InChart(c) |-> <<c.source[e], c.target[e]>>]
             = [e \in InChart(d) |-> <<d.source[e], d.target[e]>>]
        /\ [i \in Range(c.instances) |-> c.creator[i]] = [i \in Range(d.instances) |-> d.creator[i]]
    BY <1>2 DEF View
  <2>2. InChart(c) = InChart(d)
    BY <2>1 DEF InChart
  <2>3. \A e \in InChart(c) : Pair(d, e) = Pair(c, e)
    BY <2>1, <2>2 DEF Pair
  <2>4. \A i \in Range(c.instances) : c.creator[i] = d.creator[i]
    BY <2>1
  <2>5. ASSUME NEW x, Good(x), NEW i \in Instances \ Range(x.instances)
        PROVE  x.creator[i] = NoInstance
    BY <2>5 DEF Good, CreatorsAgree
  <2>6. c.creator = d.creator
    <3>1. \A i \in Instances : c.creator[i] = d.creator[i]
      BY <2>1, <2>4, <2>5
    <3>2. c.creator \in [Instances -> Ends] /\ d.creator \in [Instances -> Ends]
      BY DEF Good, Shaped
    <3>. QED  BY <3>1, <3>2
  <2>. QED  BY <2>1, <2>3, <2>6 DEF Same
<1>. QED  BY <1>1, <1>2

LEMMA SameIsGood ==
  ASSUME NEW c, Good(c), NEW d, Shaped(d), Same(c, d)
  PROVE  Good(d)
<1>1. InChart(d) = InChart(c)
  BY SameInChart
<1>2. \A e \in InChart(c) : d.source[e] = c.source[e] /\ d.target[e] = c.target[e] /\ EndsOf(d, e) = EndsOf(c, e)
  BY DEF Same, Pair, EndsOf
<1>3. \A i \in DOMAIN c.events : \A e \in Range(c.events[i]) : e \in InChart(c)
  BY InChartIs
<1>4. ListsAgree(d)
  BY <1>1, <1>2, <1>3 DEF Good, ListsAgree, Same
<1>5. CreatorsAgree(d)
  BY <1>1, <1>2 DEF Good, CreatorsAgree, Same
<1>. QED  BY <1>4, <1>5 DEF Good

LEMMA SameSymmetric ==
  ASSUME NEW c, NEW d, Same(c, d)
  PROVE  Same(d, c)
  BY SameInChart DEF Same

\* A command that leads from chart to chart leads from view to view.
LEMMA LeadsFrom ==
  ASSUME NEW c, Good(c), NEW d, Good(d), NEW cmd, RedoTo(c, cmd, d), UndoTo(d, cmd, c)
  PROVE  Leads(View(c), cmd, View(d))
<1>. DEFINE V == View(c)
            W == View(d)
<1>1. /\ DOMAIN V.ends = InChart(c) /\ \A e \in InChart(c) : V.ends[e] = Pair(c, e)
      /\ DOMAIN W.ends = InChart(d) /\ \A e \in InChart(d) : W.ends[e] = Pair(d, e)
  BY DEF View, Pair
<1>2. RedoLeads(V, cmd, W)
  <2>. SUFFICES ASSUME NEW x, Good(x), View(x) = V, EndsFit(x, V, W)
                PROVE  LET y == Redo(x, cmd) IN Good(y) /\ View(y) = W /\ EndsKept(x, y, V, W)
    BY DEF RedoLeads
  <2>. DEFINE y == Redo(x, cmd)
  <2>1. Same(c, x)
    BY SameIsView
  <2>2. \A e \in InChart(d) \ InChart(c) : Pair(x, e) = Pair(d, e)
    BY <1>1 DEF EndsFit
  <2>3. Shaped(y) /\ Same(d, y) /\ Keeps(x, y, c, d)
    BY <2>1, <2>2 DEF RedoTo
  <2>. HIDE DEF y
  <2>4. Good(y)
    BY <2>3, SameIsGood
  <2>5. View(y) = W
    BY <2>3, <2>4, SameIsView
  <2>6. EndsKept(x, y, V, W)
    BY <1>1, <2>3 DEF EndsKept, Keeps
  <2>. QED  BY <2>4, <2>5, <2>6 DEF y
<1>3. UndoLeads(V, cmd, W)
  <2>. SUFFICES ASSUME NEW x, Good(x), View(x) = W, EndsFit(x, W, V)
                PROVE  LET y == Undo(x, cmd) IN Good(y) /\ View(y) = V /\ EndsKept(x, y, V, W)
    BY DEF UndoLeads
  <2>. DEFINE y == Undo(x, cmd)
  <2>1. Same(d, x)
    BY SameIsView
  <2>2. \A e \in InChart(c) \ InChart(d) : Pair(x, e) = Pair(c, e)
    BY <1>1 DEF EndsFit
  <2>3. Shaped(y) /\ Same(c, y) /\ Keeps(x, y, c, d)
    BY <2>1, <2>2 DEF UndoTo
  <2>. HIDE DEF y
  <2>4. Good(y)
    BY <2>3, SameIsGood
  <2>5. View(y) = V
    BY <2>3, <2>4, SameIsView
  <2>6. EndsKept(x, y, V, W)
    BY <1>1, <2>3 DEF EndsKept, Keeps
  <2>. QED  BY <2>4, <2>5, <2>6 DEF y
<1>. QED  BY <1>2, <1>3 DEF Leads
-------------------------------------------------------------------------------
(* What one command does to a chart that it is given to: it leads to a good    *)
(* chart, it and its undo lead there and back from all charts that look the    *)
(* same, and only a creation brings a new event or instance.                   *)

Added(c, cmd, d) ==
  /\ \A e \in InChart(d) \ (InChart(c) \cup Comments) : cmd.kind = "event" /\ cmd.e = e
  /\ \A e \in Events : \/ e \in InChart(c) \cap InChart(d)
                       \/ cmd.kind = "event" /\ cmd.e = e
                       \/ Pair(d, e) = Pair(c, e)
  /\ \A i \in Range(d.instances) \ Range(c.instances) : cmd.kind = "instance" /\ cmd.i = i

Works(c, cmd, d) == Good(d) /\ RedoTo(c, cmd, d) /\ UndoTo(d, cmd, c) /\ Added(c, cmd, d)

\* A new instance gets an empty lifeline.
LEMMA AddInstanceIs ==
  ASSUME NEW c, Good(c), NEW i \in Instances \ Range(c.instances), NEW pos \in Int
  PROVE  LET d == AddInstance(c, i, pos)
         IN  /\ d.instances = InsertOrAppend(c.instances, pos, i)
             /\ Range(d.instances) = Range(c.instances) \cup {i}
             /\ d.events = [j \in Range(c.instances) \cup {i} |-> IF j = i THEN << >> ELSE c.events[j]]
             /\ d.orphans = c.orphans /\ d.creator = c.creator
             /\ d.source = c.source /\ d.target = c.target
             /\ InChart(d) = InChart(c)
             /\ Shaped(d)
<1>. DEFINE d       == AddInstance(c, i, pos)
            related == KeepOnly(c.orphans, {e \in Events : RelatesTo(c, e, i)})
<1>1. Shaped(c) /\ DOMAIN c.events = Range(c.instances) /\ c.orphans \in Seq(Comments)
  BY ShapedParts DEF Good, Shaped
<1>2. \A e \in Comments : ~RelatesTo(c, e, i)
  BY KindsDiffer DEF RelatesTo
<1>3. related \in Seq(Comments) /\ Range(related) = {}
  <2>1. /\ related \in Seq(Comments)
        /\ Range(related) = Range(c.orphans) \cap {e \in Events : RelatesTo(c, e, i)}
    BY <1>1, KeepOnlyProperties
  <2>2. Range(c.orphans) \subseteq Comments
    BY <1>1, ShapedParts
  <2>. QED  BY <1>2, <2>1, <2>2
<1>. HIDE DEF related
<1>4. related = << >>
  <2>1. Len(related) \in Nat /\ DOMAIN related = 1..Len(related)
    BY <1>3, LenProperties
  <2>2. Len(related) > 0 => related[1] \in Range(related)
    BY <2>1 DEF Range
  <2>. QED  BY <1>3, <2>1, <2>2, EmptySeq
<1>5. << >> \o << >> = << >> /\ Range(<< >>) = {} /\ << >> \in Seq(Events)
  BY DEF Range
<1>6. d = [[c EXCEPT !.instances = InsertOrAppend(c.instances, pos, i),
                     !.alive = c.alive /\ Range(<< >>) \cap Range(<< >>) = {}]
             EXCEPT !.events = [j \in DOMAIN c.events \cup {i} |->
                                  IF j = i THEN << >> ELSE c.events[j]]]
  <2>1. Lifeline(c, i) = << >>
    BY <1>1 DEF Lifeline
  <2>2. d = SetLifeline([c EXCEPT !.instances = InsertOrAppend(@, pos, i),
                                  !.alive = @ /\ Range(<< >>) \cap Range(<< >>) = {}], i, << >>)
    BY <1>4, <1>5, <2>1 DEF AddInstance, related
  <2>. QED  BY <1>1, <2>2 DEF SetLifeline, Shaped, Fields
<1>. HIDE DEF d
<1>7. /\ d.instances = InsertOrAppend(c.instances, pos, i)
      /\ d.events = [j \in Range(c.instances) \cup {i} |-> IF j = i THEN << >> ELSE c.events[j]]
      /\ d.orphans = c.orphans /\ d.source = c.source /\ d.target = c.target
      /\ d.creator = c.creator /\ d.alive = TRUE /\ DOMAIN d = Fields
  BY <1>1, <1>5, <1>6 DEF Shaped, Fields
<1>8. d.instances \in Seq(Instances) /\ Range(d.instances) = Range(c.instances) \cup {i} /\ NoRepeat(d.instances)
  <2>1. c.instances \in Seq(Instances) /\ NoRepeat(c.instances)
    BY <1>1 DEF Shaped
  <2>. QED  BY <1>7, <2>1, InsertedNew
<1>9. d.events \in [Range(d.instances) -> Seq(Events)]
  BY <1>1, <1>5, <1>7, <1>8, ShapedParts
<1>10. Shaped(d)
  BY <1>1, <1>7, <1>8, <1>9 DEF Shaped
<1>11. \A e : e \in InChart(d) <=> e \in InChart(c)
  BY <1>1, <1>5, <1>7, InChartIs
<1>. QED  BY <1>7, <1>8, <1>10, <1>11 DEF d

\* Taking an instance out takes its lifeline out.
LEMMA RemoveInstanceIs ==
  ASSUME NEW c, Shaped(c), NEW i \in Range(c.instances)
  PROVE  LET d == RemoveInstance(c, i)
         IN  /\ d.instances = RemoveAll(c.instances, i)
             /\ Range(d.instances) = Range(c.instances) \ {i}
             /\ d.events = [j \in Range(c.instances) \ {i} |-> c.events[j]]
             /\ d.orphans = c.orphans /\ d.creator = c.creator
             /\ d.source = c.source /\ d.target = c.target
             /\ Shaped(d)
<1>. DEFINE d == RemoveInstance(c, i)
<1>1. DOMAIN c.events = Range(c.instances)
  BY ShapedParts
<1>2. /\ d.instances = RemoveAll(c.instances, i)
      /\ d.events = [j \in Range(c.instances) \ {i} |-> c.events[j]]
      /\ d.orphans = c.orphans /\ d.source = c.source /\ d.target = c.target
      /\ d.creator = c.creator /\ d.alive = c.alive /\ DOMAIN d = Fields
  <2>1. d = [c EXCEPT !.instances = RemoveAll(c.instances, i), !.events = Restrict(c.events, DOMAIN c.events \ {i})]
    BY DEF RemoveInstance, Shaped, Fields
  <2>. QED  BY <1>1, <2>1 DEF Restrict, Shaped, Fields
<1>. HIDE DEF d
<1>3. d.instances \in Seq(Instances) /\ Range(d.instances) = Range(c.instances) \ {i} /\ NoRepeat(d.instances)
  <2>1. c.instances \in Seq(Instances) /\ NoRepeat(c.instances)
    BY DEF Shaped
  <2>2. /\ RemoveAll(c.instances, i) \in Seq(Instances)
        /\ Range(RemoveAll(c.instances, i)) = Range(c.instances) \cap (Range(c.instances) \ {i})
        /\ NoRepeat(RemoveAll(c.instances, i))
    BY <2>1, KeepOnlyProperties DEF RemoveAll
  <2>. QED  BY <1>2, <2>2
<1>4. d.events \in [Range(d.instances) -> Seq(Events)]
  BY <1>1, <1>2, <1>3, ShapedParts
<1>5. Shaped(d)
  BY <1>2, <1>3, <1>4 DEF Shaped
<1>. QED  BY <1>2, <1>3, <1>5 DEF d

LEMMA InstanceWorks ==
  ASSUME NEW c, Good(c), NEW i \in Instances \ Range(c.instances), NEW pos \in Int
  PROVE  LET cmd == [kind |-> "instance", i |-> i, pos |-> pos]
         IN  Works(c, cmd, Redo(c, cmd))
<1>. DEFINE cmd == [kind |-> "instance", i |-> i, pos |-> pos]
            d   == Redo(c, cmd)
<1>1. \A x : Redo(x, cmd) = AddInstance(x, i, pos) /\ Undo(x, cmd) = RemoveInstance(x, i)
  BY DEF Redo, Undo
<1>2. cmd.kind = "instance" /\ cmd.i = i
  OBVIOUS
<1>. HIDE DEF cmd
<1>3. /\ d.instances = InsertOrAppend(c.instances, pos, i)
      /\ Range(d.instances) = Range(c.instances) \cup {i}
      /\ d.events = [j \in Range(c.instances) \cup {i} |-> IF j = i THEN << >> ELSE c.events[j]]
      /\ d.orphans = c.orphans /\ d.creator = c.creator
      /\ d.source = c.source /\ d.target = c.target
      /\ InChart(d) = InChart(c)
      /\ Shaped(d)
  <2>1. d = AddInstance(c, i, pos)
    BY <1>1
  <2>. DEFINE a == AddInstance(c, i, pos)
  <2>2. /\ a.instances = InsertOrAppend(c.instances, pos, i)
        /\ Range(a.instances) = Range(c.instances) \cup {i}
        /\ a.events = [j \in Range(c.instances) \cup {i} |-> IF j = i THEN << >> ELSE c.events[j]]
        /\ a.orphans = c.orphans /\ a.creator = c.creator
        /\ a.source = c.source /\ a.target = c.target
        /\ InChart(a) = InChart(c)
        /\ Shaped(a)
    BY AddInstanceIs, Zenon
  <2>. HIDE DEF a, d
  <2>3. d = a
    BY <2>1 DEF a
  <2>. QED  BY <2>2, <2>3, Zenon
<1>. HIDE DEF d
<1>4. Good(d)
  <2>1. \A e : EndsOf(d, e) = EndsOf(c, e)
    BY <1>3 DEF EndsOf
  <2>2. NoRepeat(<< >>) /\ Range(<< >>) = {}
    BY DEF Range, NoRepeat
  <2>3. DOMAIN c.events = Range(c.instances)
    BY ShapedParts DEF Good
  <2>4. ListsAgree(d)
    BY <1>3, <2>1, <2>2, <2>3 DEF Good, ListsAgree
  <2>5. CreatorsAgree(d)
    BY <1>3 DEF Good, CreatorsAgree
  <2>. QED  BY <1>3, <2>4, <2>5 DEF Good
<1>5. RedoTo(c, cmd, d)
  <2>. SUFFICES ASSUME NEW x, Good(x), Same(c, x)
                PROVE  LET y == Redo(x, cmd) IN Shaped(y) /\ Same(d, y) /\ Keeps(x, y, c, d)
    BY DEF RedoTo
  <2>1. x.instances = c.instances /\ x.events = c.events
    BY DEF Same
  <2>. DEFINE y == Redo(x, cmd)
  <2>2. /\ y.instances = InsertOrAppend(x.instances, pos, i)
        /\ y.events = [j \in Range(x.instances) \cup {i} |-> IF j = i THEN << >> ELSE x.events[j]]
        /\ y.orphans = x.orphans /\ y.creator = x.creator
        /\ y.source = x.source /\ y.target = x.target /\ Shaped(y)
    BY <1>1, <2>1, AddInstanceIs
  <2>. HIDE DEF y
  <2>3. Same(d, y)
    BY <1>3, <2>1, <2>2 DEF Same, Pair
  <2>. QED  BY <2>2, <2>3 DEF Keeps, Pair, y
<1>6. UndoTo(d, cmd, c)
  <2>. SUFFICES ASSUME NEW x, Good(x), Same(d, x)
                PROVE  LET y == Undo(x, cmd) IN Shaped(y) /\ Same(c, y) /\ Keeps(x, y, c, d)
    BY DEF UndoTo
  <2>1. x.instances = d.instances /\ x.events = d.events
    BY DEF Same
  <2>. DEFINE y == Undo(x, cmd)
  <2>2. /\ y.instances = RemoveAll(x.instances, i)
        /\ y.events = [j \in Range(x.instances) \ {i} |-> x.events[j]]
        /\ y.orphans = x.orphans /\ y.creator = x.creator
        /\ y.source = x.source /\ y.target = x.target /\ Shaped(y)
    <3>1. Shaped(x) /\ i \in Range(x.instances)
      BY <1>3, <2>1 DEF Good
    <3>. QED  BY <1>1, <3>1, RemoveInstanceIs
  <2>. HIDE DEF y
  <2>3. y.instances = c.instances
    <3>1. c.instances \in Seq(Instances) /\ NoRepeat(c.instances)
      BY DEF Good, Shaped
    <3>. QED  BY <1>3, <2>1, <2>2, <3>1, InsertedRemoved
  <2>4. y.events = c.events
    <3>1. c.events \in [Range(c.instances) -> Seq(Events)]
      BY DEF Good, Shaped
    <3>2. Range(x.instances) \ {i} = Range(c.instances)
      BY <1>3, <2>1
    <3>3. \A j \in Range(c.instances) : x.events[j] = c.events[j]
      BY <1>3, <2>1
    <3>. QED  BY <2>2, <3>1, <3>2, <3>3
  <2>5. Same(c, y)
    BY <1>3, <2>2, <2>3, <2>4 DEF Same, Pair
  <2>. QED  BY <2>2, <2>5 DEF Keeps, Pair, y
<1>7. Added(c, cmd, d)
  BY <1>2, <1>3 DEF Added, Pair
<1>. QED  BY <1>4, <1>5, <1>6, <1>7 DEF Works, d, cmd

\* The order of the instances.
LEMMA OrderWorks ==
  ASSUME NEW c, Good(c), NEW i \in Range(c.instances), NEW pos \in 0..(Len(c.instances) - 1)
  PROVE  LET cmd == [kind |-> "order", i |-> i, to |-> pos, from |-> IndexOf(c.instances, i)]
         IN  Works(c, cmd, Redo(c, cmd))
<1>. DEFINE from == IndexOf(c.instances, i)
            cmd  == [kind |-> "order", i |-> i, to |-> pos, from |-> from]
            d    == Redo(c, cmd)
            rest == RemoveAll(c.instances, i)
            line == InsertAtPos(rest, pos, i)
<1>1. \A x : Redo(x, cmd) = UpdateInstanceOrder(x, i, pos) /\ Undo(x, cmd) = UpdateInstanceOrder(x, i, from)
  BY DEF Redo, Undo
<1>2. cmd.kind = "order"
  OBVIOUS
<1>. HIDE DEF cmd
<1>3. c.instances \in Seq(Instances) /\ NoRepeat(c.instances) /\ i \in Instances
  BY RangeOfSeq DEF Good, Shaped
<1>4. /\ rest \in Seq(Instances) /\ Range(rest) = Range(c.instances) \ {i} /\ NoRepeat(rest)
      /\ Len(rest) = Len(c.instances) - 1
  <2>1. rest \in Seq(Instances) /\ Range(rest) = Range(c.instances) \cap (Range(c.instances) \ {i}) /\ NoRepeat(rest)
    BY <1>3, KeepOnlyProperties DEF RemoveAll
  <2>. QED  BY <1>3, <2>1, RemoveAllLength
<1>5. InsertAtPos(rest, from, i) = c.instances
  BY <1>3, PutBack
<1>. HIDE DEF from
<1>6. pos \in Int /\ InsertDefined(rest, pos)
  BY <1>3, <1>4, LenProperties DEF InsertDefined
<1>7. line \in Seq(Instances) /\ Range(line) = Range(c.instances) /\ NoRepeat(line) /\ RemoveAll(line, i) = rest
  <2>1. line \in Seq(Instances) /\ Range(line) = Range(rest) \cup {i} /\ NoRepeat(line)
    BY <1>3, <1>4, <1>6, InsertAtPosProperties
  <2>2. line = InsertOrAppend(rest, pos, i)
    BY <1>3, <1>4, <1>6, InsertIsInsertOrAppend
  <2>3. RemoveAll(InsertOrAppend(rest, pos, i), i) = rest
    BY <1>3, <1>4, <1>6, InsertedRemoved
  <2>. QED  BY <1>4, <2>1, <2>2, <2>3
<1>. HIDE DEF rest, line
<1>8. ASSUME NEW x, Shaped(x), NEW p, NEW s, s \in Seq(Instances), NoRepeat(s), Range(s) = Range(x.instances),
             InsertAtPos(RemoveAll(x.instances, i), p, i) = s
      PROVE  LET y == UpdateInstanceOrder(x, i, p)
             IN  /\ y.instances = s /\ y.events = x.events /\ y.orphans = x.orphans /\ y.creator = x.creator
                 /\ y.source = x.source /\ y.target = x.target
                 /\ InChart(y) = InChart(x) /\ Shaped(y)
  <2>. DEFINE y == UpdateInstanceOrder(x, i, p)
  <2>1. y = [x EXCEPT !.instances = s]
    BY <1>8 DEF UpdateInstanceOrder, Shaped, Fields
  <2>. HIDE DEF y
  <2>2. /\ y.instances = s /\ y.events = x.events /\ y.orphans = x.orphans /\ y.creator = x.creator
        /\ y.source = x.source /\ y.target = x.target /\ y.alive = x.alive /\ DOMAIN y = Fields
    BY <1>8, <2>1 DEF Shaped, Fields
  <2>3. Shaped(y) /\ InChart(y) = InChart(x)
    BY <1>8, <2>2 DEF Shaped, InChart
  <2>. QED  BY <2>2, <2>3 DEF y
<1>9. /\ d.instances = line /\ d.events = c.events /\ d.orphans = c.orphans /\ d.creator = c.creator
      /\ d.source = c.source /\ d.target = c.target
      /\ InChart(d) = InChart(c) /\ Shaped(d)
  <2>1. d = UpdateInstanceOrder(c, i, pos) /\ InsertAtPos(RemoveAll(c.instances, i), pos, i) = line
    BY <1>1 DEF rest, line
  <2>. HIDE DEF d
  <2>. QED  BY <1>7, <1>8, <2>1 DEF Good
<1>. HIDE DEF d
<1>10. Good(d)
  <2>1. \A e : EndsOf(d, e) = EndsOf(c, e)
    BY <1>9 DEF EndsOf
  <2>2. ListsAgree(d) /\ CreatorsAgree(d)
    BY <1>7, <1>9, <2>1 DEF Good, ListsAgree, CreatorsAgree
  <2>. QED  BY <1>9, <2>2 DEF Good
<1>11. RedoTo(c, cmd, d)
  <2>. SUFFICES ASSUME NEW x, Good(x), Same(c, x)
                PROVE  LET y == Redo(x, cmd) IN Shaped(y) /\ Same(d, y) /\ Keeps(x, y, c, d)
    BY DEF RedoTo
  <2>. DEFINE y == Redo(x, cmd)
  <2>1. y = UpdateInstanceOrder(x, i, pos) /\ InsertAtPos(RemoveAll(x.instances, i), pos, i) = line
    BY <1>1 DEF rest, line, Same
  <2>2. Shaped(x) /\ Range(line) = Range(x.instances)
    BY <1>7 DEF Good, Same
  <2>. HIDE DEF y
  <2>3. /\ y.instances = line /\ y.events = x.events /\ y.orphans = x.orphans /\ y.creator = x.creator
        /\ y.source = x.source /\ y.target = x.target /\ Shaped(y)
    BY <1>7, <1>8, <2>1, <2>2
  <2>4. Same(d, y)
    BY <1>9, <2>3 DEF Same, Pair
  <2>. QED  BY <2>3, <2>4 DEF Keeps, Pair, y
<1>12. UndoTo(d, cmd, c)
  <2>. SUFFICES ASSUME NEW x, Good(x), Same(d, x)
                PROVE  LET y == Undo(x, cmd) IN Shaped(y) /\ Same(c, y) /\ Keeps(x, y, c, d)
    BY DEF UndoTo
  <2>. DEFINE y == Undo(x, cmd)
  <2>1. y = UpdateInstanceOrder(x, i, from) /\ InsertAtPos(RemoveAll(x.instances, i), from, i) = c.instances
    BY <1>1, <1>5, <1>7, <1>9 DEF Same
  <2>2. Shaped(x) /\ Range(c.instances) = Range(x.instances)
    BY <1>7, <1>9 DEF Good, Same
  <2>. HIDE DEF y
  <2>3. /\ y.instances = c.instances /\ y.events = x.events /\ y.orphans = x.orphans /\ y.creator = x.creator
        /\ y.source = x.source /\ y.target = x.target /\ Shaped(y)
    BY <1>3, <1>8, <2>1, <2>2
  <2>4. Same(c, y)
    BY <1>9, <2>3 DEF Same, Pair
  <2>. QED  BY <2>3, <2>4 DEF Keeps, Pair, y
<1>13. Added(c, cmd, d)
  BY <1>2, <1>7, <1>9 DEF Added, Pair
<1>. QED  BY <1>10, <1>11, <1>12, <1>13 DEF Works, d, cmd, from

\* Taking events out leaves the rest of each list.
WithoutEvents(c, E, d) ==
  /\ d.instances = c.instances
  /\ d.events = [j \in Range(c.instances) |-> KeepOnly(c.events[j], Events \ E)]
  /\ \A j \in Range(c.instances) : Range(d.events[j]) = Range(c.events[j]) \ E
  /\ Range(d.orphans) = Range(c.orphans) \ E
  /\ d.source = c.source /\ d.target = c.target
  /\ d.creator = [i \in Instances |-> IF \E e \in E \cap Creates : c.target[e] = i
                                      THEN NoInstance ELSE c.creator[i]]
  /\ InChart(d) = InChart(c) \ E
  /\ Shaped(d)
LEMMA RemoveEventsIs ==
  ASSUME NEW c, Shaped(c), NEW E \in SUBSET Events
  PROVE  WithoutEvents(c, E, RemoveInstanceEvents(c, E))
<1>. DEFINE d == RemoveInstanceEvents(c, E)
<1>1. DOMAIN c.events = Range(c.instances)
  BY ShapedParts
<1>2. /\ d.instances = c.instances
      /\ d.events = [j \in Range(c.instances) |-> KeepOnly(c.events[j], Events \ E)]
      /\ d.orphans = KeepOnly(c.orphans, Events \ E)
      /\ d.source = c.source /\ d.target = c.target
      /\ d.creator = [i \in Instances |-> IF \E e \in E \cap Creates : c.target[e] = i
                                          THEN NoInstance ELSE c.creator[i]]
      /\ d.alive = c.alive /\ DOMAIN d = Fields
  BY <1>1 DEF RemoveInstanceEvents, Shaped, Fields
<1>. HIDE DEF d
<1>3. \A j \in Range(c.instances) :
        d.events[j] \in Seq(Events) /\ Range(d.events[j]) = Range(c.events[j]) \ E
  <2>. SUFFICES ASSUME NEW j \in Range(c.instances)
                PROVE  d.events[j] \in Seq(Events) /\ Range(d.events[j]) = Range(c.events[j]) \ E
    OBVIOUS
  <2>1. c.events[j] \in Seq(Events) /\ Range(c.events[j]) \subseteq Events
    BY <1>1, ShapedParts
  <2>2. d.events[j] = KeepOnly(c.events[j], Events \ E)
    BY <1>2
  <2>3. /\ KeepOnly(c.events[j], Events \ E) \in Seq(Events)
        /\ Range(KeepOnly(c.events[j], Events \ E)) = Range(c.events[j]) \cap (Events \ E)
    BY <2>1, KeepOnlyProperties
  <2>. QED  BY <2>1, <2>2, <2>3
<1>4. d.orphans \in Seq(Comments) /\ Range(d.orphans) = Range(c.orphans) \ E
  <2>1. c.orphans \in Seq(Comments) /\ Range(c.orphans) \subseteq Events
    BY ShapedParts, KindsDiffer DEF Shaped
  <2>2. /\ KeepOnly(c.orphans, Events \ E) \in Seq(Comments)
        /\ Range(KeepOnly(c.orphans, Events \ E)) = Range(c.orphans) \cap (Events \ E)
    BY <2>1, KeepOnlyProperties
  <2>. QED  BY <1>2, <2>1, <2>2
<1>5. d.creator \in [Instances -> Ends]
  BY <1>2, KindsDiffer DEF Shaped
<1>6. Shaped(d)
  BY <1>2, <1>3, <1>4, <1>5 DEF Shaped
<1>7. \A e : e \in InChart(d) <=> e \in InChart(c) /\ e \notin E
  <2>. SUFFICES ASSUME NEW e  PROVE e \in InChart(d) <=> e \in InChart(c) /\ e \notin E
    OBVIOUS
  <2>1. DOMAIN d.events = DOMAIN c.events
    BY <1>1, <1>2
  <2>2. \A j \in DOMAIN c.events : e \in Range(d.events[j]) <=> e \in Range(c.events[j]) /\ e \notin E
    BY <1>1, <1>3
  <2>. QED  BY <1>4, <2>1, <2>2, InChartIs
<1>. QED  BY <1>2, <1>3, <1>4, <1>6, <1>7 DEF d, WithoutEvents

LEMMA RemoveGood ==
  ASSUME NEW c, Good(c), NEW E \in SUBSET Events, E \cap Creates = {}
  PROVE  Good(RemoveInstanceEvents(c, E)) /\ RemoveInstanceEvents(c, E).creator = c.creator
<1>. DEFINE d == RemoveInstanceEvents(c, E)
<1>1. WithoutEvents(c, E, d)
  BY RemoveEventsIs DEF Good
<1>. HIDE DEF d
<1>2. Shaped(c) /\ DOMAIN c.events = Range(c.instances) /\ \A j \in Range(c.instances) : c.events[j] \in Seq(Events)
  BY ShapedParts DEF Good
<1>3. d.creator = c.creator
  BY <1>1, <1>2 DEF Shaped, WithoutEvents
<1>4. \A e : EndsOf(d, e) = EndsOf(c, e)
  BY <1>1 DEF EndsOf, WithoutEvents
<1>5. \A j \in Range(c.instances) : NoRepeat(d.events[j])
  <2>. SUFFICES ASSUME NEW j \in Range(c.instances)  PROVE NoRepeat(d.events[j])
    OBVIOUS
  <2>1. c.events[j] \in Seq(Events) /\ NoRepeat(c.events[j])
    BY <1>2 DEF Good, ListsAgree
  <2>2. NoRepeat(KeepOnly(c.events[j], Events \ E))
    BY <2>1, KeepOnlyProperties
  <2>. QED  BY <1>1, <2>2 DEF WithoutEvents
<1>6. ListsAgree(d)
  <2>1. /\ DOMAIN d.events = DOMAIN c.events /\ InChart(d) = InChart(c) \ E
        /\ \A j \in DOMAIN c.events : Range(d.events[j]) = Range(c.events[j]) \ E
    BY <1>1, <1>2 DEF WithoutEvents
  <2>2. ListsAgree(c)
    BY DEF Good
  <2>3. \A i \in DOMAIN d.events : Range(d.events[i]) \subseteq Messages \cup Locals
    BY <2>1, <2>2 DEF ListsAgree
  <2>4. \A i \in DOMAIN d.events : \A e \in Range(d.events[i]) : i \in EndsOf(d, e)
    BY <1>4, <2>1, <2>2 DEF ListsAgree
  <2>5. \A e \in InChart(d) : \A i \in EndsOf(d, e) : i \in DOMAIN d.events /\ e \in Range(d.events[i])
    BY <1>4, <2>1, <2>2 DEF ListsAgree
  <2>. QED  BY <1>2, <1>5, <2>1, <2>3, <2>4, <2>5 DEF ListsAgree
<1>7. CreatorsAgree(d)
  BY <1>1, <1>3 DEF Good, CreatorsAgree, WithoutEvents
<1>. QED  BY <1>1, <1>3, <1>6, <1>7 DEF Good, d, WithoutEvents

\* A comment becomes an orphan.
NoPlace == [i \in {} |-> 0]
LEMMA AddCommentIs ==
  ASSUME NEW c, Good(c), NEW e \in Comments
  PROVE  LET d == AddInstanceEvent(c, e, NoPlace)
         IN  /\ d.instances = c.instances /\ d.events = c.events
             /\ Range(d.orphans) = Range(c.orphans) \cup {e}
             /\ d.creator = c.creator
             /\ d.source = c.source /\ d.target = c.target
             /\ InChart(d) = InChart(c) \cup {e}
             /\ Good(d)
<1>. DEFINE d == AddInstanceEvent(c, e, NoPlace)
<1>1. Shaped(c) /\ DOMAIN NoPlace = {} /\ e \notin Creates /\ e \in Events
  BY KindsDiffer DEF Good, NoPlace
<1>2. d = [c EXCEPT !.events = [i \in DOMAIN c.events |-> c.events[i]],
                    !.orphans = Append(c.orphans, e), !.slots[e] = Counted(@ + 1)]
  BY <1>1 DEF AddInstanceEvent, Shaped, Fields
<1>. HIDE DEF d
<1>3. /\ d.instances = c.instances /\ d.events = c.events /\ d.orphans = Append(c.orphans, e)
      /\ d.creator = c.creator /\ d.source = c.source /\ d.target = c.target
      /\ d.alive = c.alive /\ DOMAIN d = Fields
  BY <1>1, <1>2 DEF Shaped, Fields
<1>4. d.orphans \in Seq(Comments) /\ Range(d.orphans) = Range(c.orphans) \cup {e}
  BY <1>1, <1>3, AppendListProperties DEF Shaped
<1>5. Shaped(d)
  BY <1>1, <1>3, <1>4 DEF Shaped
<1>6. InChart(d) = InChart(c) \cup {e}
  BY <1>3, <1>4 DEF InChart
<1>7. \A x : EndsOf(d, x) = EndsOf(c, x)
  BY <1>3 DEF EndsOf
<1>8. EndsOf(c, e) = {}
  BY <1>1, KindsDiffer DEF Shaped, EndsOf
<1>9. ListsAgree(d)
  BY <1>3, <1>6, <1>7, <1>8 DEF Good, ListsAgree
<1>10. CreatorsAgree(d)
  BY <1>1, <1>3, <1>6 DEF Good, CreatorsAgree
<1>. QED  BY <1>3, <1>4, <1>5, <1>6, <1>9, <1>10 DEF Good, d

\* It is on no lifeline.
LEMMA RemoveCommentIs ==
  ASSUME NEW c, Good(c), NEW e \in Comments
  PROVE  LET d == RemoveInstanceEvents(c, {e})
         IN  /\ d.instances = c.instances /\ d.events = c.events
             /\ Range(d.orphans) = Range(c.orphans) \ {e}
             /\ d.creator = c.creator
             /\ d.source = c.source /\ d.target = c.target
             /\ InChart(d) = InChart(c) \ {e}
             /\ Good(d)
<1>. DEFINE d == RemoveInstanceEvents(c, {e})
<1>1. {e} \in SUBSET Events /\ {e} \cap Creates = {} /\ Shaped(c)
  BY KindsDiffer DEF Good
<1>2. WithoutEvents(c, {e}, d)
  BY <1>1, RemoveEventsIs
<1>3. Good(d) /\ d.creator = c.creator
  BY <1>1, RemoveGood
<1>. HIDE DEF d
<1>4. \A j \in Range(c.instances) : KeepOnly(c.events[j], Events \ {e}) = c.events[j]
  <2>. SUFFICES ASSUME NEW j \in Range(c.instances)
                PROVE  KeepOnly(c.events[j], Events \ {e}) = c.events[j]
    OBVIOUS
  <2>1. j \in DOMAIN c.events /\ c.events[j] \in Seq(Events) /\ Range(c.events[j]) \subseteq Events
    BY <1>1, ShapedParts
  <2>2. NoRepeat(c.events[j]) /\ e \notin Range(c.events[j])
    BY <2>1, KindsDiffer DEF Good, ListsAgree
  <2>. QED  BY <2>1, <2>2, KeepAll
<1>5. d.events = c.events
  <2>1. c.events \in [Range(c.instances) -> Seq(Events)]
    BY <1>1 DEF Shaped
  <2>. QED  BY <1>2, <1>4, <2>1 DEF WithoutEvents
<1>. QED  BY <1>2, <1>3, <1>5 DEF d, WithoutEvents

LEMMA CommentWorks ==
  ASSUME NEW c, Good(c), NEW e \in Comments \ Range(c.orphans)
  PROVE  LET cmd == [kind |-> "comment", e |-> e, at |-> NoPlace]
         IN  Works(c, cmd, Redo(c, cmd))
<1>. DEFINE cmd == [kind |-> "comment", e |-> e, at |-> NoPlace]
            d   == Redo(c, cmd)
<1>1. \A x : Redo(x, cmd) = AddInstanceEvent(x, e, NoPlace) /\ Undo(x, cmd) = RemoveInstanceEvents(x, {e})
  BY DEF Redo, Undo
<1>2. cmd.kind = "comment"
  OBVIOUS
<1>. HIDE DEF cmd
<1>3. /\ d.instances = c.instances /\ d.events = c.events
      /\ Range(d.orphans) = Range(c.orphans) \cup {e}
      /\ d.creator = c.creator /\ d.source = c.source /\ d.target = c.target
      /\ InChart(d) = InChart(c) \cup {e} /\ Good(d)
  BY <1>1, AddCommentIs
<1>. HIDE DEF d
<1>4. RedoTo(c, cmd, d)
  <2>. SUFFICES ASSUME NEW x, Good(x), Same(c, x), \A f \in InChart(d) \ InChart(c) : Pair(x, f) = Pair(d, f)
                PROVE  LET y == Redo(x, cmd) IN Shaped(y) /\ Same(d, y) /\ Keeps(x, y, c, d)
    BY DEF RedoTo
  <2>. DEFINE y == Redo(x, cmd)
  <2>1. /\ y.instances = x.instances /\ y.events = x.events
        /\ Range(y.orphans) = Range(x.orphans) \cup {e}
        /\ y.creator = x.creator /\ y.source = x.source /\ y.target = x.target
        /\ Good(y)
    BY <1>1, AddCommentIs
  <2>. HIDE DEF y
  <2>2. Same(d, y)
    BY <1>3, <2>1 DEF Same, Pair
  <2>. QED  BY <2>1, <2>2 DEF Keeps, Pair, Good, y
<1>5. UndoTo(d, cmd, c)
  <2>. SUFFICES ASSUME NEW x, Good(x), Same(d, x)
                PROVE  LET y == Undo(x, cmd) IN Shaped(y) /\ Same(c, y) /\ Keeps(x, y, c, d)
    BY DEF UndoTo
  <2>. DEFINE y == Undo(x, cmd)
  <2>1. /\ y.instances = x.instances /\ y.events = x.events
        /\ Range(y.orphans) = Range(x.orphans) \ {e}
        /\ y.creator = x.creator /\ y.source = x.source /\ y.target = x.target
        /\ Good(y)
    BY <1>1, RemoveCommentIs
  <2>. HIDE DEF y
  <2>2. Same(c, y)
    BY <1>3, <2>1 DEF Same, Pair
  <2>. QED  BY <2>1, <2>2 DEF Keeps, Pair, Good, y
<1>6. Added(c, cmd, d)
  BY <1>3 DEF Added, Pair
<1>. QED  BY <1>3, <1>4, <1>5, <1>6 DEF Works, d, cmd

LEMMA UncommentWorks ==
  ASSUME NEW c, Good(c), NEW e \in Comments \cap Range(c.orphans)
  PROVE  LET cmd == [kind |-> "uncomment", e |-> e, at |-> NoPlace]
         IN  Works(c, cmd, Redo(c, cmd))
<1>. DEFINE cmd == [kind |-> "uncomment", e |-> e, at |-> NoPlace]
            d   == Redo(c, cmd)
<1>1. \A x : Redo(x, cmd) = RemoveInstanceEvents(x, {e}) /\ Undo(x, cmd) = AddInstanceEvent(x, e, NoPlace)
  BY DEF Redo, Undo
<1>2. cmd.kind = "uncomment"
  OBVIOUS
<1>. HIDE DEF cmd
<1>3. /\ d.instances = c.instances /\ d.events = c.events
      /\ Range(d.orphans) = Range(c.orphans) \ {e}
      /\ d.creator = c.creator /\ d.source = c.source /\ d.target = c.target
      /\ InChart(d) = InChart(c) \ {e} /\ Good(d)
  BY <1>1, RemoveCommentIs
<1>. HIDE DEF d
<1>0. e \in InChart(c)
  BY InChartIs
<1>4. RedoTo(c, cmd, d)
  <2>. SUFFICES ASSUME NEW x, Good(x), Same(c, x)
                PROVE  LET y == Redo(x, cmd) IN Shaped(y) /\ Same(d, y) /\ Keeps(x, y, c, d)
    BY DEF RedoTo
  <2>. DEFINE y == Redo(x, cmd)
  <2>1. /\ y.instances = x.instances /\ y.events = x.events
        /\ Range(y.orphans) = Range(x.orphans) \ {e}
        /\ y.creator = x.creator /\ y.source = x.source /\ y.target = x.target
        /\ Good(y)
    BY <1>1, RemoveCommentIs
  <2>. HIDE DEF y
  <2>2. Same(d, y)
    BY <1>3, <2>1 DEF Same, Pair
  <2>. QED  BY <2>1, <2>2 DEF Keeps, Pair, Good, y
<1>5. UndoTo(d, cmd, c)
  <2>. SUFFICES ASSUME NEW x, Good(x), Same(d, x), \A f \in InChart(c) \ InChart(d) : Pair(x, f) = Pair(c, f)
                PROVE  LET y == Undo(x, cmd) IN Shaped(y) /\ Same(c, y) /\ Keeps(x, y, c, d)
    BY DEF UndoTo
  <2>. DEFINE y == Undo(x, cmd)
  <2>1. /\ y.instances = x.instances /\ y.events = x.events
        /\ Range(y.orphans) = Range(x.orphans) \cup {e}
        /\ y.creator = x.creator /\ y.source = x.source /\ y.target = x.target
        /\ Good(y)
    BY <1>1, AddCommentIs
  <2>. HIDE DEF y
  <2>2. Same(c, y)
    BY <1>0, <1>3, <2>1 DEF Same, Pair
  <2>. QED  BY <2>1, <2>2 DEF Keeps, Pair, Good, y
<1>6. Added(c, cmd, d)
  BY <1>3 DEF Added, Pair
<1>. QED  BY <1>3, <1>4, <1>5, <1>6 DEF Works, d, cmd

\* Where a new event is put: the positions of a create message are its own.
Places(c, e, at) == IF e \in Creates THEN CreatePositions(c, e, at) ELSE at

\* An event that can come: not in the chart, its ends in use, and a creation of an
\* instance that nothing creates.
Comes(c, e) ==
  /\ e \in (Messages \cup Locals) \ InChart(c)
  /\ EndsOf(c, e) # {} /\ EndsOf(c, e) \subseteq Range(c.instances)
  /\ e \in Creates => /\ c.source[e] \in Range(c.instances) \cup {NoInstance}
                      /\ c.target[e] \in Range(c.instances)
                      /\ c.source[e] # c.target[e] /\ c.creator[c.target[e]] = NoInstance
FromInside(c, e) == e \in Creates => c.source[e] # NoInstance

\* The messages with the same target on the lifeline of the source.
Fellows(c, e) ==
  LET line == Lifeline(c, c.source[e])
  IN  {k \in DOMAIN line : line[k] \in Messages /\ c.target[line[k]] = c.target[e]}

LEMMA FellowsAre ==
  ASSUME NEW c, Good(c), NEW e, Comes(c, e), FromInside(c, e), e \in Creates
  PROVE  /\ Lifeline(c, c.source[e]) = c.events[c.source[e]]
         /\ Fellows(c, e) \in SUBSET Nat
         /\ \A k \in Fellows(c, e) : /\ c.events[c.source[e]][k] \in InChart(c)
                                     /\ c.source[c.events[c.source[e]][k]] = c.source[e]
<1>. DEFINE s    == c.source[e]
            line == c.events[s]
<1>1. DOMAIN c.events = Range(c.instances) /\ s \in DOMAIN c.events /\ line \in Seq(Events)
  BY ShapedParts DEF Good, Comes, FromInside
<1>2. Lifeline(c, s) = line
  BY <1>1 DEF Lifeline
<1>3. DOMAIN line \in SUBSET Nat
  BY <1>1, LenProperties
<1>4. ASSUME NEW k \in Fellows(c, e)  PROVE line[k] \in InChart(c) /\ c.source[line[k]] = s
  <2>1. line[k] \in Range(line) /\ c.target[line[k]] = c.target[e]
    BY <1>2 DEF Fellows, Range
  <2>2. s \in EndsOf(c, line[k])
    BY <1>1, <2>1 DEF Good, ListsAgree
  <2>. QED  BY <1>1, <2>1, <2>2, InChartIs DEF EndsOf, Comes
<1>. QED  BY <1>2, <1>3, <1>4 DEF Fellows

\* What CreatePositions computes.
LEMMA CreatePlacesAre ==
  ASSUME NEW c, Good(c), NEW e, Comes(c, e), FromInside(c, e), e \in Creates, NEW at \in [EndsOf(c, e) -> Int]
  PROVE  LET s    == c.source[e]
             F    == Fellows(c, e)
             line == c.events[s]
             home == CHOOSE k \in F : \A j \in F : k <= j
         IN  CreatePositions(c, e, at) =
               [i \in EndsOf(c, e) |->
                  IF i = s THEN IF F = {} THEN at[s] ELSE IndexOf(line, line[home]) ELSE 0]
<1>. DEFINE s    == c.source[e]
            t    == c.target[e]
            F    == Fellows(c, e)
            line == c.events[s]
            home == CHOOSE k \in F : \A j \in F : k <= j
            front == WithPosition(at, t, 0)
<1>1. /\ Lifeline(c, s) = line /\ s \in Instances /\ t \in Instances /\ s # t
      /\ s # NoInstance /\ t # NoInstance /\ EndsOf(c, e) = {s, t} /\ DOMAIN at = {s, t}
  <2>1. Lifeline(c, s) = line
    BY FellowsAre
  <2>2. s \in Range(c.instances) /\ t \in Range(c.instances) /\ s # t /\ Range(c.instances) \subseteq Instances
    BY ShapedParts DEF Comes, Good, FromInside
  <2>3. s # NoInstance /\ t # NoInstance
    BY <2>2, KindsDiffer
  <2>4. EndsOf(c, e) = {s, t}
    BY <2>3 DEF EndsOf
  <2>. QED  BY <2>1, <2>2, <2>3, <2>4
<1>2. front = [i \in {s, t} |-> IF i = t THEN 0 ELSE at[i]]
  BY <1>1 DEF WithPosition
<1>3. CASE F = {}
  <2>1. CreatePositions(c, e, at) = front
    BY <1>1, <1>3 DEF CreatePositions, Fellows
  <2>. QED  BY <1>1, <1>2, <1>3, <2>1
<1>4. CASE F # {}
  <2>1. \E k \in F : \A j \in F : k <= j
    BY <1>4, FellowsAre, LeastNat
  <2>2. home \in F
    BY <2>1
  <2>3. c.source[line[home]] = s
    BY <2>2, FellowsAre
  <2>4. CreatePositions(c, e, at) = WithPosition(front, s, IndexOf(line, line[home]))
    BY <1>1, <1>4, <2>3 DEF CreatePositions, Fellows
  <2>. HIDE DEF front, home
  <2>5. WithPosition(front, s, IndexOf(line, line[home]))
          = [i \in {s, t} |-> IF i = s THEN IndexOf(line, line[home]) ELSE 0]
    BY <1>1, <1>2 DEF WithPosition
  <2>. QED  BY <1>1, <1>4, <2>4, <2>5 DEF home
<1>. QED  BY <1>3, <1>4

\* One from the environment is put first on the lifeline of its target.
LEMMA OutsidePlacesAre ==
  ASSUME NEW c, Good(c), NEW e, Comes(c, e), ~FromInside(c, e), NEW at \in [EndsOf(c, e) -> Int]
  PROVE  /\ EndsOf(c, e) = {c.target[e]} /\ c.target[e] \in Instances /\ c.target[e] # NoInstance
         /\ Places(c, e, at) = [i \in EndsOf(c, e) |-> 0]
<1>. DEFINE t == c.target[e]
<1>1. /\ e \in Creates /\ c.source[e] = NoInstance /\ t \in Instances /\ t # NoInstance
      /\ DOMAIN c.events \subseteq Instances /\ NoInstance \notin Instances
  BY ShapedParts, KindsDiffer DEF Good, Comes, FromInside
<1>2. EndsOf(c, e) = {t}
  BY <1>1 DEF EndsOf
<1>3. Lifeline(c, NoInstance) = << >>
  BY <1>1 DEF Lifeline
<1>4. CreatePositions(c, e, at) = WithPosition(at, t, 0)
  BY <1>1, <1>3 DEF CreatePositions
<1>5. WithPosition(at, t, 0) = [i \in {t} |-> 0]
  BY <1>2 DEF WithPosition
<1>. QED  BY <1>1, <1>2, <1>4, <1>5 DEF Places

LEMMA PlacesAre ==
  ASSUME NEW c, Good(c), NEW e, Comes(c, e), NEW at \in [EndsOf(c, e) -> Int]
  PROVE  Places(c, e, at) \in [EndsOf(c, e) -> Int]
<1>1. CASE e \notin Creates
  BY <1>1 DEF Places
<1>0. CASE ~FromInside(c, e)
  BY <1>0, OutsidePlacesAre
<1>2. CASE e \in Creates /\ FromInside(c, e)
  <2>. DEFINE s    == c.source[e]
              F    == Fellows(c, e)
              line == c.events[s]
              home == CHOOSE k \in F : \A j \in F : k <= j
  <2>1. Places(c, e, at) =
          [i \in EndsOf(c, e) |->
             IF i = s THEN IF F = {} THEN at[s] ELSE IndexOf(line, line[home]) ELSE 0]
    BY <1>2, CreatePlacesAre DEF Places
  <2>2. s \in EndsOf(c, e) /\ line \in Seq(Events) /\ NoRepeat(line)
    BY <1>2, ShapedParts, KindsDiffer DEF Good, ListsAgree, Comes, EndsOf, FromInside
  <2>3. F # {} => IndexOf(line, line[home]) \in Int
    <3>. SUFFICES ASSUME F # {}  PROVE IndexOf(line, line[home]) \in Int
      OBVIOUS
    <3>1. \E k \in F : \A j \in F : k <= j
      BY FellowsAre, <1>2, LeastNat
    <3>2. home \in F
      BY <3>1
    <3>3. home \in DOMAIN line
      BY <1>2, <3>2, FellowsAre DEF Fellows
    <3>. HIDE DEF home
    <3>4. line[home] \in Range(line)
      BY <3>3 DEF Range
    <3>. QED  BY <2>2, <3>4, IndexOfProperties
  <2>. HIDE DEF F, home, line
  <2>. QED  BY <2>1, <2>2, <2>3
<1>. QED  BY <1>0, <1>1, <1>2

\* Charts that look alike put an event with the same ends in the same places.
LEMMA PlacesSame ==
  ASSUME NEW c, Good(c), NEW x, Good(x), Same(c, x), NEW e, Comes(c, e), Pair(x, e) = Pair(c, e),
         NEW at \in [EndsOf(c, e) -> Int]
  PROVE  Comes(x, e) /\ EndsOf(x, e) = EndsOf(c, e) /\ Places(x, e, at) = Places(c, e, at)
<1>1. /\ x.source[e] = c.source[e] /\ x.target[e] = c.target[e] /\ EndsOf(x, e) = EndsOf(c, e)
      /\ x.events = c.events
  BY DEF Pair, EndsOf, Same
<1>2. Comes(x, e)
  BY <1>1, SameInChart DEF Comes, Same
<1>3. CASE e \notin Creates
  BY <1>1, <1>2, <1>3 DEF Places
<1>0. FromInside(x, e) <=> FromInside(c, e)
  BY <1>1 DEF FromInside
<1>5. CASE ~FromInside(c, e)
  <2>1. at \in [EndsOf(x, e) -> Int]
    BY <1>1
  <2>. QED  BY <1>0, <1>1, <1>2, <1>5, <2>1, OutsidePlacesAre
<1>4. CASE e \in Creates /\ FromInside(c, e)
  <2>1. Lifeline(c, c.source[e]) = c.events[c.source[e]] /\ Lifeline(x, c.source[e]) = c.events[c.source[e]]
    BY <1>0, <1>1, <1>2, <1>4, FellowsAre
  <2>2. \A k \in DOMAIN c.events[c.source[e]] :
          x.target[c.events[c.source[e]][k]] = c.target[c.events[c.source[e]][k]]
    <3>. SUFFICES ASSUME NEW k \in DOMAIN c.events[c.source[e]]
                  PROVE  x.target[c.events[c.source[e]][k]] = c.target[c.events[c.source[e]][k]]
      OBVIOUS
    <3>1. c.events[c.source[e]][k] \in Range(c.events[c.source[e]]) /\ c.source[e] \in DOMAIN c.events
      BY <1>4, ShapedParts DEF Range, Comes, Good, FromInside
    <3>2. c.events[c.source[e]][k] \in InChart(c)
      BY <3>1, InChartIs
    <3>. QED  BY <3>2 DEF Same, Pair
  <2>3. Fellows(x, e) = Fellows(c, e)
    BY <1>1, <2>1, <2>2 DEF Fellows
  <2>4. CreatePositions(x, e, at) = CreatePositions(c, e, at)
    <3>. DEFINE spots(y) ==
                  LET s    == y.source[e]
                      F    == Fellows(y, e)
                      line == y.events[s]
                      home == CHOOSE k \in F : \A j \in F : k <= j
                  IN  [i \in EndsOf(y, e) |->
                         IF i = s THEN IF F = {} THEN at[s] ELSE IndexOf(line, line[home]) ELSE 0]
    <3>1. CreatePositions(c, e, at) = spots(c)
      BY <1>4, CreatePlacesAre
    <3>2. at \in [EndsOf(x, e) -> Int]
      BY <1>1
    <3>3. CreatePositions(x, e, at) = spots(x)
      BY <1>0, <1>2, <1>4, <3>2, CreatePlacesAre
    <3>4. spots(x) = spots(c)
      BY <1>1, <2>3
    <3>. QED  BY <3>1, <3>3, <3>4
  <2>. QED  BY <1>1, <1>2, <1>4, <2>4 DEF Places
<1>. QED  BY <1>3, <1>4, <1>5

\* A new event is put on the lifelines of its ends; a creation names the creator.
WithEvent(c, e, p, d) ==
  /\ d.instances = c.instances /\ d.orphans = c.orphans
  /\ d.events = [j \in Range(c.instances) |->
                   IF j \in EndsOf(c, e) THEN InsertOrAppend(c.events[j], p[j], e) ELSE c.events[j]]
  /\ \A j \in Range(c.instances) :
       Range(d.events[j]) = Range(c.events[j]) \cup (IF j \in EndsOf(c, e) THEN {e} ELSE {})
  /\ d.source = c.source /\ d.target = c.target
  /\ d.creator = IF e \in Creates THEN [c.creator EXCEPT ![c.target[e]] = c.source[e]] ELSE c.creator
  /\ InChart(d) = InChart(c) \cup {e}
  /\ Shaped(d)

\* What the operation writes, p being the places.
EventPut(c, e, p, d) ==
  /\ DOMAIN d = Fields /\ d.alive = c.alive
  /\ d.instances = c.instances /\ d.orphans = c.orphans
  /\ d.events = [j \in Range(c.instances) |->
                   IF j \in EndsOf(c, e) THEN InsertOrAppend(c.events[j], p[j], e) ELSE c.events[j]]
  /\ d.source = c.source /\ d.target = c.target
  /\ d.creator = IF e \in Creates THEN [c.creator EXCEPT ![c.target[e]] = c.source[e]] ELSE c.creator

LEMMA PutIsWithEvent ==
  ASSUME NEW c, Good(c), NEW e, Comes(c, e), NEW p \in [EndsOf(c, e) -> Int], NEW d, EventPut(c, e, p, d)
  PROVE  WithEvent(c, e, p, d)
<1>. DEFINE S  == EndsOf(c, e)
            s  == c.source[e]
            t  == c.target[e]
            cr == IF e \in Creates THEN [c.creator EXCEPT ![t] = s] ELSE c.creator
<1>1. /\ Shaped(c) /\ DOMAIN c = Fields /\ DOMAIN c.events = Range(c.instances) /\ Range(c.instances) \subseteq Instances
      /\ e \in Messages \cup Locals /\ e \in Events /\ S \subseteq Range(c.instances) /\ S # {}
  BY ShapedParts, KindsDiffer DEF Good, Comes, Shaped
<1>3. p \in [S -> Int]
  OBVIOUS
<1>4. e \in Creates => s \in Ends /\ t \in Instances
  BY <1>1, KindsDiffer DEF Comes, Shaped
<1>9. /\ d.instances = c.instances /\ d.orphans = c.orphans
      /\ d.events = [j \in Range(c.instances) |->
                       IF j \in S THEN InsertOrAppend(c.events[j], p[j], e) ELSE c.events[j]]
      /\ d.source = c.source /\ d.target = c.target /\ d.creator = cr /\ d.alive = c.alive
      /\ DOMAIN d = Fields
  BY DEF EventPut
<1>. HIDE DEF cr
<1>10. \A j \in Range(c.instances) :
         /\ d.events[j] \in Seq(Events)
         /\ Range(d.events[j]) = Range(c.events[j]) \cup (IF j \in S THEN {e} ELSE {})
  <2>. SUFFICES ASSUME NEW j \in Range(c.instances)
                PROVE  /\ d.events[j] \in Seq(Events)
                       /\ Range(d.events[j]) = Range(c.events[j]) \cup (IF j \in S THEN {e} ELSE {})
    OBVIOUS
  <2>0. c.events[j] \in Seq(Events)
    BY <1>1, ShapedParts
  <2>1. CASE j \in S
    <3>1. d.events[j] = InsertOrAppend(c.events[j], p[j], e) /\ p[j] \in Int
      BY <1>3, <1>9, <2>1
    <3>. DEFINE line == c.events[j]
                pos  == p[j]
    <3>. HIDE DEF line, pos
    <3>2. line \in Seq(Events) /\ pos \in Int /\ e \in Events
      BY <1>1, <2>0, <3>1 DEF line, pos
    <3>3. InsertOrAppend(line, pos, e) \in Seq(Events)
      BY <3>2, InsertOrAppendProperties
    <3>4. Range(InsertOrAppend(line, pos, e)) = Range(line) \cup {e}
      BY <3>2, InsertOrAppendRange
    <3>. QED  BY <2>1, <3>1, <3>3, <3>4 DEF line, pos
  <2>2. CASE j \notin S
    BY <1>9, <2>0, <2>2
  <2>. QED  BY <2>1, <2>2
<1>11. cr \in [Instances -> Ends]
  <2>1. c.creator \in [Instances -> Ends] /\ s \in Ends
    BY <1>1, ShapedParts DEF Shaped
  <2>. QED  BY <1>4, <2>1 DEF cr
<1>12. Shaped(d)
  <2>1. d.events \in [Range(d.instances) -> Seq(Events)]
    BY <1>9, <1>10
  <2>. QED  BY <1>1, <1>9, <1>11, <2>1 DEF Shaped
<1>13. \A x : x \in InChart(d) <=> x \in InChart(c) \cup {e}
  <2>. SUFFICES ASSUME NEW x  PROVE x \in InChart(d) <=> x \in InChart(c) \cup {e}
    OBVIOUS
  <2>1. DOMAIN d.events = DOMAIN c.events
    BY <1>1, <1>9
  <2>2. \A j \in DOMAIN c.events : x \in Range(d.events[j]) <=> x \in Range(c.events[j]) \/ (j \in S /\ x = e)
    BY <1>1, <1>10
  <2>. QED  BY <1>1, <1>9, <2>1, <2>2, InChartIs
<1>14. InChart(d) = InChart(c) \cup {e}
  BY <1>13
<1>. QED  BY <1>9, <1>10, <1>12, <1>14 DEF WithEvent, cr

LEMMA AddEventIs ==
  ASSUME NEW c, Good(c), NEW e, Comes(c, e), FromInside(c, e), NEW at \in [EndsOf(c, e) -> Int]
  PROVE  WithEvent(c, e, Places(c, e, at), AddInstanceEvent(c, e, at))
<1>. DEFINE d  == AddInstanceEvent(c, e, at)
            p  == Places(c, e, at)
            S  == EndsOf(c, e)
            s  == c.source[e]
            t  == c.target[e]
            cr == IF e \in Creates THEN [c.creator EXCEPT ![t] = s] ELSE c.creator
            c1 == IF e \in Creates /\ t # NoInstance THEN [c EXCEPT !.creator[t] = s] ELSE c
            c2 == IF e \in Creates THEN SetLifeline(c1, s, Lifeline(c1, s)) ELSE c1
<1>1. /\ Shaped(c) /\ DOMAIN c = Fields /\ DOMAIN c.events = Range(c.instances) /\ Range(c.instances) \subseteq Instances
      /\ e \in Messages \cup Locals /\ e \in Events /\ S \subseteq Range(c.instances) /\ S # {}
      /\ DOMAIN at = S
  BY ShapedParts, KindsDiffer DEF Good, Comes, Shaped
<1>2. \A i \in S : RelatesTo(c, e, i)
  <2>1. e \notin Messages => t = NoInstance
    BY <1>1, KindsDiffer DEF Shaped
  <2>. QED  BY <1>1, <2>1 DEF RelatesTo, EndsOf
<1>3. p \in [S -> Int]
  BY PlacesAre
<1>4. e \in Creates => s \in DOMAIN c.events /\ t \in Instances /\ t # NoInstance
  BY <1>1, KindsDiffer DEF Comes, FromInside
<1>5. /\ DOMAIN c2 = Fields /\ c2.events = c.events /\ c2.source = c.source /\ c2.target = c.target
      /\ c2.instances = c.instances /\ c2.orphans = c.orphans /\ c2.creator = cr /\ c2.alive = c.alive
  <2>1. CASE e \notin Creates
    BY <1>1, <2>1
  <2>2. CASE e \in Creates
    <3>1. /\ DOMAIN c1 = Fields /\ c1.events = c.events /\ c1.source = c.source /\ c1.target = c.target
          /\ c1.instances = c.instances /\ c1.orphans = c.orphans /\ c1.creator = cr /\ c1.alive = c.alive
      BY <1>1, <1>4, <2>2 DEF Fields
    <3>. HIDE DEF c1
    <3>2. Lifeline(c1, s) = c.events[s]
      BY <1>4, <2>2, <3>1 DEF Lifeline
    <3>3. [j \in DOMAIN c.events \cup {s} |-> IF j = s THEN c.events[s] ELSE c.events[j]] = c.events
      <4>1. DOMAIN c.events \cup {s} = DOMAIN c.events
        BY <1>4, <2>2
      <4>2. c.events \in [DOMAIN c.events -> Seq(Events)]
        BY <1>1 DEF Shaped
      <4>. QED  BY <4>1, <4>2
    <3>4. c2 = [c1 EXCEPT !.events = c.events]
      BY <2>2, <3>1, <3>2, <3>3 DEF SetLifeline
    <3>. QED  BY <3>1, <3>4 DEF Fields
  <2>. QED  BY <2>1, <2>2
<1>6. \A q, y : y.events = c.events /\ y.source = c.source /\ y.target = c.target
                 => CreatePositions(y, e, q) = CreatePositions(c, e, q)
  BY DEF CreatePositions, Lifeline
<1>7. d = [c2 EXCEPT
             !.events  = [i \in DOMAIN @ \cup DOMAIN p |->
                            IF i \in DOMAIN p THEN InsertOrAppend(Lifeline(c2, i), p[i], e) ELSE @[i]],
             !.orphans = IF DOMAIN p = {} THEN Append(@, e) ELSE @,
             !.slots[e] = Counted(@ + 1)]
  <2>. DEFINE at2 == IF e \in Creates THEN CreatePositions(c2, e, at) ELSE at
  <2>1. p = at2
    <3>1. CreatePositions(c2, e, at) = CreatePositions(c, e, at)
      BY <1>5, <1>6
    <3>. QED  BY <3>1 DEF Places
  <2>2. ~ \E i \in DOMAIN at : ~RelatesTo(c, e, i) \/ i \notin DOMAIN c.events
    BY <1>1, <1>2
  <2>3. d = [c2 EXCEPT
             !.events  = [i \in DOMAIN @ \cup DOMAIN at2 |->
                            IF i \in DOMAIN at2 THEN InsertOrAppend(Lifeline(c2, i), at2[i], e) ELSE @[i]],
             !.orphans = IF DOMAIN at2 = {} THEN Append(@, e) ELSE @,
             !.slots[e] = Counted(@ + 1)]
    BY <2>2 DEF AddInstanceEvent
  <2>. HIDE DEF d, c2, p, at2
  <2>. QED  BY <2>1, <2>3
<1>. HIDE DEF p, d, c2
<1>8. DOMAIN p = S /\ S # {}
  BY <1>1, <1>3
<1>9. /\ d.instances = c.instances /\ d.orphans = c.orphans
      /\ d.events = [j \in Range(c.instances) |->
                       IF j \in S THEN InsertOrAppend(c.events[j], p[j], e) ELSE c.events[j]]
      /\ d.source = c.source /\ d.target = c.target /\ d.creator = cr /\ d.alive = c.alive
      /\ DOMAIN d = Fields
  <2>1. d.events = [i \in DOMAIN c2.events \cup DOMAIN p |->
                      IF i \in DOMAIN p THEN InsertOrAppend(Lifeline(c2, i), p[i], e) ELSE c2.events[i]]
    BY <1>5, <1>7 DEF Fields
  <2>2. DOMAIN c2.events \cup DOMAIN p = Range(c.instances)
    BY <1>1, <1>5, <1>8
  <2>3. \A i \in DOMAIN p : Lifeline(c2, i) = c.events[i]
    BY <1>1, <1>5, <1>8 DEF Lifeline
  <2>4. d.events = [j \in Range(c.instances) |->
                       IF j \in S THEN InsertOrAppend(c.events[j], p[j], e) ELSE c.events[j]]
    BY <1>5, <1>8, <2>1, <2>2, <2>3
  <2>5. /\ d.instances = c2.instances /\ d.orphans = c2.orphans /\ d.source = c2.source /\ d.target = c2.target
        /\ d.creator = c2.creator /\ d.alive = c2.alive /\ DOMAIN d = Fields
    BY <1>5, <1>7, <1>8 DEF Fields
  <2>. QED  BY <1>5, <2>4, <2>5
<1>10. EventPut(c, e, p, d)
  BY <1>9 DEF EventPut, cr
<1>. HIDE DEF cr
<1>11. WithEvent(c, e, p, d)
  BY <1>3, <1>10, PutIsWithEvent
<1>. QED  BY <1>11 DEF d, p

LEMMA AddEventGood ==
  ASSUME NEW c, Good(c), NEW e, Comes(c, e), NEW p \in [EndsOf(c, e) -> Int],
         NEW d, WithEvent(c, e, p, d)
  PROVE  Good(d)
<1>. DEFINE S == EndsOf(c, e)
<1>1. Shaped(c) /\ DOMAIN c.events = Range(c.instances) /\ \A j \in Range(c.instances) : c.events[j] \in Seq(Events)
  BY ShapedParts DEF Good
<1>2. /\ e \in Messages \cup Locals /\ e \in Events /\ e \notin InChart(c) /\ S \subseteq Range(c.instances)
      /\ ListsAgree(c) /\ CreatorsAgree(c)
  BY KindsDiffer DEF Comes, Good
<1>3. /\ \A x : EndsOf(d, x) = EndsOf(c, x)
      /\ DOMAIN d.events = DOMAIN c.events /\ InChart(d) = InChart(c) \cup {e}
      /\ \A j \in DOMAIN c.events :
           Range(d.events[j]) = Range(c.events[j]) \cup (IF j \in S THEN {e} ELSE {})
  BY <1>1 DEF WithEvent, EndsOf
<1>4. \A j \in DOMAIN d.events : NoRepeat(d.events[j])
  <2>. SUFFICES ASSUME NEW j \in DOMAIN c.events  PROVE NoRepeat(d.events[j])
    BY <1>3
  <2>. DEFINE line == c.events[j]
              pos  == p[j]
  <2>0. line \in Seq(Events) /\ NoRepeat(line) /\ e \notin Range(line)
    BY <1>1, <1>2, InChartIs DEF ListsAgree
  <2>1. CASE j \in S
    <3>1. d.events[j] = InsertOrAppend(line, pos, e) /\ pos \in Int
      BY <1>1, <2>1 DEF WithEvent
    <3>. HIDE DEF line, pos
    <3>. QED  BY <1>2, <2>0, <3>1, InsertedNew
  <2>2. CASE j \notin S
    BY <1>1, <2>0, <2>2 DEF WithEvent
  <2>. QED  BY <2>1, <2>2
<1>5. \A i \in DOMAIN d.events : Range(d.events[i]) \subseteq Messages \cup Locals
  BY <1>2, <1>3 DEF ListsAgree
<1>6. \A i \in DOMAIN d.events : \A x \in Range(d.events[i]) : i \in EndsOf(d, x)
  BY <1>2, <1>3 DEF ListsAgree
<1>7. \A x \in InChart(d) : \A i \in EndsOf(d, x) : i \in DOMAIN d.events /\ x \in Range(d.events[i])
  BY <1>1, <1>2, <1>3 DEF ListsAgree
<1>8. CreatorsAgree(d)
  <2>1. /\ d.instances = c.instances /\ d.source = c.source /\ d.target = c.target
        /\ d.creator = IF e \in Creates THEN [c.creator EXCEPT ![c.target[e]] = c.source[e]] ELSE c.creator
    BY DEF WithEvent
  <2>2. c.creator \in [Instances -> Ends] /\ Range(c.instances) \subseteq Instances
    BY <1>1, ShapedParts DEF Shaped
  <2>3. CASE e \notin Creates
    BY <1>2, <1>3, <2>1, <2>3 DEF CreatorsAgree
  <2>4. CASE e \in Creates
    <3>1. /\ c.source[e] \in Range(c.instances) \cup {NoInstance} /\ c.target[e] \in Range(c.instances)
          /\ c.source[e] # c.target[e] /\ c.creator[c.target[e]] = NoInstance
      BY <2>4 DEF Comes
    <3>2. \A i \in Instances : d.creator[i] = IF i = c.target[e] THEN c.source[e] ELSE c.creator[i]
      BY <2>1, <2>2, <2>4, <3>1
    <3>3. \A x \in Creates \cap InChart(c) : c.source[x] # NoInstance => c.target[x] # c.target[e]
      BY <1>2, <2>2, <3>1, KindsDiffer DEF CreatorsAgree
    <3>4. \A x \in Creates \cap InChart(d) :
            /\ d.target[x] \in Range(d.instances) /\ d.source[x] # d.target[x]
            /\ d.source[x] # NoInstance => /\ d.source[x] \in Range(d.instances)
                                          /\ d.creator[d.target[x]] = d.source[x]
      BY <1>2, <1>3, <2>1, <2>2, <3>1, <3>2, <3>3 DEF CreatorsAgree
    <3>5. \A i \in Instances :
            d.creator[i] # NoInstance =>
              \E x \in Creates \cap InChart(d) : d.target[x] = i /\ d.source[x] # NoInstance
      BY <1>2, <1>3, <2>1, <2>4, <3>2 DEF CreatorsAgree
    <3>. QED  BY <3>4, <3>5 DEF CreatorsAgree
  <2>. QED  BY <2>3, <2>4
<1>. QED  BY <1>4, <1>5, <1>6, <1>7, <1>8 DEF Good, ListsAgree, WithEvent

\* Taking the event out again leaves what was there before.
LEMMA AddedTakenOut ==
  ASSUME NEW c, Good(c), NEW e, Comes(c, e), NEW p \in [EndsOf(c, e) -> Int],
         NEW d, WithEvent(c, e, p, d), NEW x, Good(x), Same(d, x)
  PROVE  LET y == RemoveInstanceEvents(x, {e})
         IN  Shaped(y) /\ Same(c, y) /\ y.source = x.source /\ y.target = x.target
<1>. DEFINE y == RemoveInstanceEvents(x, {e})
            S == EndsOf(c, e)
<1>1. Shaped(c) /\ DOMAIN c.events = Range(c.instances) /\ \A j \in Range(c.instances) : c.events[j] \in Seq(Events)
  BY ShapedParts DEF Good
<1>2. e \in Messages \cup Locals /\ e \in Events /\ e \notin InChart(c) /\ ListsAgree(c) /\ {e} \in SUBSET Events
  BY KindsDiffer DEF Comes, Good
<1>3. WithoutEvents(x, {e}, y)
  BY <1>2, RemoveEventsIs DEF Good
<1>. HIDE DEF y
<1>4. /\ x.instances = c.instances /\ x.events = d.events /\ Range(x.orphans) = Range(c.orphans)
      /\ x.creator = d.creator /\ InChart(x) = InChart(c) \cup {e}
      /\ \A f \in InChart(c) \cup {e} : Pair(x, f) = Pair(c, f)
  BY SameInChart DEF Same, WithEvent, Pair
<1>5. y.instances = c.instances /\ Range(y.orphans) = Range(c.orphans)
  <2>1. e \notin Range(c.orphans)
    BY <1>2, InChartIs
  <2>. QED  BY <1>3, <1>4, <2>1 DEF WithoutEvents
<1>6. ASSUME NEW j \in Range(c.instances)
      PROVE  KeepOnly(d.events[j], Events \ {e}) = c.events[j]
  <2>. DEFINE line == c.events[j]
              pos  == p[j]
  <2>0. /\ line \in Seq(Events) /\ NoRepeat(line) /\ e \notin Range(line)
        /\ Range(line) \subseteq Events \ {e}
    BY <1>1, <1>2, InChartIs, RangeOfSeq DEF ListsAgree
  <2>1. CASE j \in S
    <3>1. d.events[j] = InsertOrAppend(line, pos, e) /\ pos \in Int
      BY <1>1, <2>1 DEF WithEvent
    <3>. HIDE DEF line, pos
    <3>2. KeepOnly(InsertOrAppend(line, pos, e), Events \ {e}) = line
      BY <1>2, <2>0, <3>1, InsertedTakenOut
    <3>. QED  BY <3>1, <3>2 DEF line
  <2>2. CASE j \notin S
    <3>1. d.events[j] = line
      BY <1>1, <2>2 DEF WithEvent
    <3>. HIDE DEF line
    <3>2. KeepOnly(line, Events \ {e}) = line
      BY <2>0, KeepAll
    <3>. QED  BY <3>1, <3>2 DEF line
  <2>. QED  BY <2>1, <2>2
<1>7. y.events = c.events
  <2>1. c.events \in [Range(c.instances) -> Seq(Events)]
    BY <1>1 DEF Shaped
  <2>2. y.events = [j \in Range(c.instances) |-> KeepOnly(d.events[j], Events \ {e})]
    BY <1>3, <1>4 DEF WithoutEvents
  <2>. QED  BY <1>6, <2>1, <2>2
<1>8. y.creator = c.creator
  <2>1. c.creator \in [Instances -> Ends]
    BY <1>1 DEF Shaped
  <2>2. x.target[e] = c.target[e]
    BY <1>4 DEF Pair
  <2>3. y.creator = [i \in Instances |-> IF e \in Creates /\ c.target[e] = i THEN NoInstance ELSE x.creator[i]]
    BY <1>3, <2>2 DEF WithoutEvents
  <2>4. e \in Creates => c.creator[c.target[e]] = NoInstance /\ c.target[e] \in Instances
    BY <1>1, ShapedParts DEF Comes
  <2>5. \A i \in Instances : y.creator[i] = c.creator[i]
    BY <1>4, <2>1, <2>3, <2>4 DEF WithEvent
  <2>6. y.creator = [i \in Instances |-> y.creator[i]]
    BY <2>3
  <2>. QED  BY <2>1, <2>5, <2>6
<1>9. \A f \in InChart(c) : Pair(y, f) = Pair(c, f)
  BY <1>3, <1>4 DEF WithoutEvents, Pair
<1>. QED  BY <1>3, <1>5, <1>7, <1>8, <1>9 DEF WithoutEvents, Same, y

\* Charts that look alike look alike with the event too.
LEMMA AddedAgain ==
  ASSUME NEW c, Good(c), NEW e, Comes(c, e), NEW p \in [EndsOf(c, e) -> Int], NEW d, WithEvent(c, e, p, d),
         NEW x, Good(x), Same(c, x), Pair(x, e) = Pair(c, e), NEW y, WithEvent(x, e, p, y)
  PROVE  Same(d, y) /\ y.source = x.source /\ y.target = x.target
<1>1. /\ y.instances = d.instances /\ Range(y.orphans) = Range(d.orphans)
      /\ y.source = x.source /\ y.target = x.target
  BY DEF WithEvent, Same
<1>2. EndsOf(x, e) = EndsOf(c, e)
  BY DEF Pair, EndsOf
<1>3. y.events = d.events
  BY <1>2 DEF WithEvent, Same
<1>4. y.creator = d.creator
  BY DEF WithEvent, Same, Pair
<1>5. \A f \in InChart(d) : Pair(y, f) = Pair(d, f)
  BY <1>1 DEF WithEvent, Same, Pair
<1>. QED  BY <1>1, <1>3, <1>4, <1>5 DEF Same

LEMMA EventWorks ==
  ASSUME NEW c, Good(c), NEW e, Comes(c, e), FromInside(c, e), NEW at \in [EndsOf(c, e) -> Int]
  PROVE  LET cmd == [kind |-> "event", e |-> e, at |-> at]
         IN  Works(c, cmd, Redo(c, cmd))
<1>. DEFINE cmd == [kind |-> "event", e |-> e, at |-> at]
            d   == Redo(c, cmd)
            p   == Places(c, e, at)
<1>1. \A x : Redo(x, cmd) = AddInstanceEvent(x, e, at) /\ Undo(x, cmd) = RemoveInstanceEvents(x, {e})
  BY DEF Redo, Undo
<1>2. cmd.kind = "event" /\ cmd.e = e
  OBVIOUS
<1>. HIDE DEF cmd
<1>3. WithEvent(c, e, p, d) /\ p \in [EndsOf(c, e) -> Int]
  BY <1>1, AddEventIs, PlacesAre
<1>. HIDE DEF d, p
<1>4. Good(d)
  BY <1>3, AddEventGood
<1>0. e \in InChart(d) \ InChart(c)
  BY <1>3 DEF WithEvent, Comes
<1>5. RedoTo(c, cmd, d)
  <2>. SUFFICES ASSUME NEW x, Good(x), Same(c, x), \A f \in InChart(d) \ InChart(c) : Pair(x, f) = Pair(d, f)
                PROVE  LET y == Redo(x, cmd) IN Shaped(y) /\ Same(d, y) /\ Keeps(x, y, c, d)
    BY DEF RedoTo
  <2>. DEFINE y == Redo(x, cmd)
  <2>1. Pair(x, e) = Pair(c, e)
    BY <1>0, <1>3 DEF WithEvent, Pair
  <2>2. Comes(x, e) /\ EndsOf(x, e) = EndsOf(c, e) /\ Places(x, e, at) = p
    BY <2>1, PlacesSame DEF p
  <2>3. WithEvent(x, e, p, y)
    <3>1. at \in [EndsOf(x, e) -> Int] /\ FromInside(x, e) /\ y = AddInstanceEvent(x, e, at)
      BY <1>1, <2>1, <2>2 DEF FromInside, Pair
    <3>. HIDE DEF y
    <3>2. WithEvent(x, e, Places(x, e, at), y)
      BY <2>2, <3>1, AddEventIs
    <3>. QED  BY <2>2, <3>2
  <2>. HIDE DEF y
  <2>4. Same(d, y) /\ y.source = x.source /\ y.target = x.target
    BY <1>3, <2>1, <2>3, AddedAgain
  <2>. QED  BY <2>3, <2>4 DEF Keeps, Pair, WithEvent, y
<1>6. UndoTo(d, cmd, c)
  <2>. SUFFICES ASSUME NEW x, Good(x), Same(d, x)
                PROVE  LET y == Undo(x, cmd) IN Shaped(y) /\ Same(c, y) /\ Keeps(x, y, c, d)
    BY DEF UndoTo
  <2>. DEFINE y == Undo(x, cmd)
  <2>1. y = RemoveInstanceEvents(x, {e})
    BY <1>1
  <2>. HIDE DEF y
  <2>2. Shaped(y) /\ Same(c, y) /\ y.source = x.source /\ y.target = x.target
    BY <1>3, <2>1, AddedTakenOut
  <2>. QED  BY <2>2 DEF Keeps, Pair, y
<1>7. Added(c, cmd, d)
  BY <1>2, <1>3 DEF Added, Pair, WithEvent
<1>. QED  BY <1>4, <1>5, <1>6, <1>7 DEF Works, d, cmd
-------------------------------------------------------------------------------
(* Moves.                                                                       *)

\* The lifelines of an event are those of its ends, and they repeat nothing.
LEMMA OnLines ==
  ASSUME NEW c, Good(c)
  PROVE  /\ DOMAIN c.events = Range(c.instances) /\ Range(c.instances) \subseteq Instances
         /\ \A j \in Range(c.instances) : /\ c.events[j] \in Seq(Events) /\ NoRepeat(c.events[j])
                                          /\ Range(c.events[j]) \subseteq Events
         /\ \A e \in InChart(c) \ Comments :
              /\ e \in Messages \cup Locals
              /\ EndsOf(c, e) # {} /\ EndsOf(c, e) \subseteq Range(c.instances)
              /\ \A j \in Range(c.instances) : e \in Range(c.events[j]) <=> j \in EndsOf(c, e)
<1>1. /\ DOMAIN c.events = Range(c.instances) /\ Range(c.instances) \subseteq Instances
      /\ \A j \in Range(c.instances) : c.events[j] \in Seq(Events) /\ Range(c.events[j]) \subseteq Events
      /\ Range(c.orphans) \subseteq Comments /\ ListsAgree(c)
  BY ShapedParts DEF Good
<1>2. ASSUME NEW e \in InChart(c) \ Comments
      PROVE  /\ e \in Messages \cup Locals
             /\ EndsOf(c, e) # {} /\ EndsOf(c, e) \subseteq Range(c.instances)
             /\ \A j \in Range(c.instances) : e \in Range(c.events[j]) <=> j \in EndsOf(c, e)
  <2>1. PICK i \in DOMAIN c.events : e \in Range(c.events[i])
    BY <1>1, InChartIs
  <2>2. e \in Messages \cup Locals /\ i \in EndsOf(c, e)
    BY <1>1, <2>1 DEF ListsAgree
  <2>. QED  BY <1>1, <2>2 DEF ListsAgree
<1>. QED  BY <1>1, <1>2 DEF ListsAgree

\* How many there are to drop an event among.
LEMMA DropsFit ==
  ASSUME NEW c, Good(c), NEW e, NEW i \in Range(c.instances), NEW pos \in DropPositions(c, e, i)
  PROVE  pos \in Int /\ InsertDefined(RemoveAll(c.events[i], e), pos)
<1>1. c.events[i] \in Seq(Events) /\ NoRepeat(c.events[i]) /\ i \in Instances
  BY OnLines
<1>2. ASSUME NEW x  PROVE x \in Others(c, e, i) <=> x \in Range(c.events[i]) \ {e}
  <2>1. CASE x \in InChart(c) \ Comments
    <3>1. /\ x \in Messages \cup Locals /\ EndsOf(c, x) \subseteq Range(c.instances)
          /\ x \in Range(c.events[i]) <=> i \in EndsOf(c, x)
      BY <2>1, OnLines
    <3>2. x \notin Messages => c.target[x] = NoInstance
      BY <3>1, KindsDiffer DEF Good, Shaped
    <3>3. i \in EndsOf(c, x) <=> RelatesTo(c, x, i)
      BY <1>1, <3>1, <3>2, KindsDiffer DEF EndsOf, RelatesTo
    <3>. QED  BY <2>1, <3>1, <3>3 DEF Others
  <2>2. CASE x \in Comments
    <3>1. ~RelatesTo(c, x, i)
      BY <2>2, KindsDiffer DEF RelatesTo
    <3>2. x \notin Range(c.events[i])
      BY <2>2, KindsDiffer, OnLines DEF Good, ListsAgree
    <3>. QED  BY <3>1, <3>2 DEF Others
  <2>3. CASE x \notin InChart(c)
    BY <2>3, InChartIs, OnLines DEF Others
  <2>. QED  BY <2>1, <2>2, <2>3
<1>3. Others(c, e, i) = Range(c.events[i]) \ {e}
  BY <1>2
<1>4. Len(RemoveAll(c.events[i], e)) = Cardinality(Range(c.events[i]) \ {e})
  BY <1>1, OthersCounted
<1>5. RemoveAll(c.events[i], e) \in Seq(Events)
  BY <1>1, KeepOnlyProperties DEF RemoveAll
<1>. QED  BY <1>3, <1>4, <1>5, LenProperties DEF DropPositions, InsertDefined

\* A move puts the event at another position of each of its lifelines.
Moved(c, e, at, d) ==
  /\ d.instances = c.instances /\ d.orphans = c.orphans /\ d.creator = c.creator
  /\ d.source = c.source /\ d.target = c.target
  /\ d.events = [j \in Range(c.instances) |->
                   IF j \in EndsOf(c, e) THEN InsertAtPos(RemoveAll(c.events[j], e), at[j], e)
                   ELSE c.events[j]]
  /\ \A j \in Range(c.instances) : /\ Range(d.events[j]) = Range(c.events[j])
                                   /\ RemoveAll(d.events[j], e) = RemoveAll(c.events[j], e)
  /\ InChart(d) = InChart(c)
  /\ Good(d)

LEMMA MoveIs ==
  ASSUME NEW c, Good(c), NEW e \in InChart(c) \ Comments, NEW at \in [EndsOf(c, e) -> Int],
         \A i \in EndsOf(c, e) : InsertDefined(RemoveAll(c.events[i], e), at[i])
  PROVE  Moved(c, e, at, MoveEvent(c, e, at))
<1>. DEFINE S == EndsOf(c, e)
            d == MoveEvent(c, e, at)
            line(j) == InsertAtPos(RemoveAll(c.events[j], e), at[j], e)
<1>1. /\ DOMAIN c.events = Range(c.instances) /\ DOMAIN c = Fields /\ Shaped(c)
      /\ S \subseteq Range(c.instances) /\ e \in Messages \cup Locals /\ e \in Events
      /\ \A j \in Range(c.instances) : /\ c.events[j] \in Seq(Events) /\ NoRepeat(c.events[j])
                                       /\ e \in Range(c.events[j]) <=> j \in S
      /\ DOMAIN at = S
  BY OnLines, KindsDiffer DEF Good, Shaped
<1>2. ASSUME NEW j \in S
      PROVE  /\ line(j) \in Seq(Events) /\ Range(line(j)) = Range(c.events[j]) /\ NoRepeat(line(j))
             /\ RemoveAll(line(j), e) = RemoveAll(c.events[j], e)
  <2>. DEFINE s == c.events[j]
              p == at[j]
  <2>1. /\ s \in Seq(Events) /\ NoRepeat(s) /\ e \in Events /\ e \in Range(s)
        /\ p \in Int /\ InsertDefined(RemoveAll(s, e), p)
    BY <1>1
  <2>. HIDE DEF s, p
  <2>2. /\ InsertAtPos(RemoveAll(s, e), p, e) \in Seq(Events)
        /\ Range(InsertAtPos(RemoveAll(s, e), p, e)) = Range(s) \cup {e}
        /\ NoRepeat(InsertAtPos(RemoveAll(s, e), p, e))
    BY <2>1, MovedElement
  <2>3. RemoveAll(InsertAtPos(RemoveAll(s, e), p, e), e) = RemoveAll(s, e)
    BY <2>1, MovedRemoved
  <2>. QED  BY <2>1, <2>2, <2>3 DEF s, p
<1>3. /\ d.instances = c.instances /\ d.orphans = c.orphans /\ d.creator = c.creator
      /\ d.source = c.source /\ d.target = c.target /\ d.alive = TRUE /\ DOMAIN d = Fields
      /\ d.events = [j \in Range(c.instances) |-> IF j \in S THEN line(j) ELSE c.events[j]]
  <2>. HIDE DEF line
  <2>1. CASE IndicesOfEvent(c, e) = at
    <3>1. d = c
      BY <2>1 DEF MoveEvent
    <3>. HIDE DEF d
    <3>2. \A j \in S : line(j) = c.events[j]
      <4>. SUFFICES ASSUME NEW j \in S  PROVE line(j) = c.events[j]
        OBVIOUS
      <4>1. at[j] = IndexOf(c.events[j], e)
        BY <1>1, <2>1 DEF IndicesOfEvent
      <4>2. c.events[j] \in Seq(Events) /\ NoRepeat(c.events[j]) /\ e \in Range(c.events[j])
        BY <1>1
      <4>. QED  BY <4>1, <4>2, PutBack DEF line
    <3>3. c.events \in [Range(c.instances) -> Seq(Events)]
      BY <1>1 DEF Shaped
    <3>. QED  BY <1>1, <3>1, <3>2, <3>3 DEF Shaped
  <2>2. CASE IndicesOfEvent(c, e) # at
    <3>1. \A i \in S : Lifeline(c, i) = c.events[i]
      BY <1>1 DEF Lifeline
    <3>2. ~ \E i \in DOMAIN at : ~InsertDefined(RemoveAll(Lifeline(c, i), e), at[i])
      BY <1>1, <3>1
    <3>3. d = [c EXCEPT !.events = [i \in DOMAIN c.events \cup DOMAIN at |->
                                      IF i \in DOMAIN at
                                      THEN InsertAtPos(RemoveAll(Lifeline(c, i), e), at[i], e)
                                      ELSE c.events[i]]]
      BY <2>2, <3>2 DEF MoveEvent
    <3>. HIDE DEF d
    <3>4. [i \in DOMAIN c.events \cup DOMAIN at |->
             IF i \in DOMAIN at THEN InsertAtPos(RemoveAll(Lifeline(c, i), e), at[i], e) ELSE c.events[i]]
            = [j \in Range(c.instances) |-> IF j \in S THEN line(j) ELSE c.events[j]]
      <4>1. DOMAIN c.events \cup DOMAIN at = Range(c.instances)
        BY <1>1
      <4>2. \A i \in S : InsertAtPos(RemoveAll(Lifeline(c, i), e), at[i], e) = line(i)
        BY <3>1 DEF line
      <4>. QED  BY <1>1, <4>1, <4>2
    <3>5. d = [c EXCEPT !.events = [j \in Range(c.instances) |-> IF j \in S THEN line(j) ELSE c.events[j]]]
      BY <3>3, <3>4
    <3>. QED  BY <1>1, <3>5 DEF Fields, Shaped
  <2>. QED  BY <2>1, <2>2
<1>. HIDE DEF d
<1>4. \A j \in Range(c.instances) :
        /\ d.events[j] \in Seq(Events) /\ NoRepeat(d.events[j])
        /\ Range(d.events[j]) = Range(c.events[j])
        /\ RemoveAll(d.events[j], e) = RemoveAll(c.events[j], e)
  BY <1>1, <1>2, <1>3
<1>. HIDE DEF line
<1>5. DOMAIN d.events = DOMAIN c.events /\ d.events \in [Range(d.instances) -> Seq(Events)]
  BY <1>1, <1>3, <1>4
<1>6. Shaped(d)
  BY <1>1, <1>3, <1>5 DEF Shaped
<1>7. InChart(d) = InChart(c)
  <2>1. \A x : x \in InChart(d) <=> x \in InChart(c)
    BY <1>1, <1>3, <1>4, <1>5, InChartIs
  <2>. QED  BY <2>1
<1>8. \A x : EndsOf(d, x) = EndsOf(c, x)
  BY <1>3 DEF EndsOf
<1>9. ListsAgree(d)
  <2>0. ListsAgree(c)
    BY DEF Good
  <2>1. \A i \in DOMAIN d.events : NoRepeat(d.events[i]) /\ Range(d.events[i]) \subseteq Messages \cup Locals
    BY <1>1, <1>4, <1>5, <2>0 DEF ListsAgree
  <2>2. \A i \in DOMAIN d.events : \A x \in Range(d.events[i]) : i \in EndsOf(d, x)
    BY <1>1, <1>4, <1>5, <1>8, <2>0 DEF ListsAgree
  <2>3. \A x \in InChart(d) : \A i \in EndsOf(d, x) : i \in DOMAIN d.events /\ x \in Range(d.events[i])
    BY <1>1, <1>4, <1>5, <1>7, <1>8, <2>0 DEF ListsAgree
  <2>. QED  BY <2>1, <2>2, <2>3 DEF ListsAgree
<1>10. CreatorsAgree(d)
  BY <1>3, <1>7 DEF Good, CreatorsAgree
<1>. QED  BY <1>3, <1>4, <1>6, <1>7, <1>9, <1>10 DEF Good, Moved, d, line

LEMMA PointsWorks ==
  ASSUME NEW c, Good(c), NEW e \in InChart(c) \ Comments, NEW at \in [EndsOf(c, e) -> Int],
         \A i \in EndsOf(c, e) : InsertDefined(RemoveAll(c.events[i], e), at[i])
  PROVE  LET cmd == [kind |-> "points", e |-> e, new |-> at, old |-> IndicesOfEvent(c, e)]
         IN  Works(c, cmd, Redo(c, cmd))
<1>. DEFINE old == IndicesOfEvent(c, e)
            cmd == [kind |-> "points", e |-> e, new |-> at, old |-> old]
            d   == Redo(c, cmd)
            S   == EndsOf(c, e)
<1>1. \A x : Redo(x, cmd) = MoveEvent(x, e, at) /\ Undo(x, cmd) = MoveEvent(x, e, old)
  BY DEF Redo, Undo
<1>2. cmd.kind = "points"
  OBVIOUS
<1>. HIDE DEF cmd
<1>3. Moved(c, e, at, d)
  BY <1>1, MoveIs
<1>. HIDE DEF d
<1>4. /\ S \subseteq Range(c.instances) /\ DOMAIN c.events = Range(c.instances)
      /\ \A j \in Range(c.instances) : /\ c.events[j] \in Seq(Events) /\ NoRepeat(c.events[j])
                                       /\ e \in Range(c.events[j]) <=> j \in S
  BY OnLines
<1>5. old = [j \in S |-> IndexOf(c.events[j], e)]
  BY <1>4 DEF IndicesOfEvent
<1>6. \A j \in S : /\ old[j] \in Int /\ InsertDefined(RemoveAll(c.events[j], e), old[j])
                   /\ InsertAtPos(RemoveAll(c.events[j], e), old[j], e) = c.events[j]
  <2>. SUFFICES ASSUME NEW j \in S
                PROVE  /\ old[j] \in Int /\ InsertDefined(RemoveAll(c.events[j], e), old[j])
                       /\ InsertAtPos(RemoveAll(c.events[j], e), old[j], e) = c.events[j]
    OBVIOUS
  <2>. DEFINE s == c.events[j]
  <2>1. old[j] = IndexOf(s, e) /\ s \in Seq(Events) /\ NoRepeat(s) /\ e \in Range(s)
    BY <1>4, <1>5
  <2>. HIDE DEF s, old
  <2>2. IndexOf(s, e) \in Int
    BY <2>1, IndexOfProperties
  <2>3. InsertDefined(RemoveAll(s, e), IndexOf(s, e)) /\ InsertAtPos(RemoveAll(s, e), IndexOf(s, e), e) = s
    BY <2>1, PutBack
  <2>. QED  BY <2>1, <2>2, <2>3 DEF s
<1>. HIDE DEF old
<1>7. RedoTo(c, cmd, d)
  <2>. SUFFICES ASSUME NEW x, Good(x), Same(c, x)
                PROVE  LET y == Redo(x, cmd) IN Shaped(y) /\ Same(d, y) /\ Keeps(x, y, c, d)
    BY DEF RedoTo
  <2>. DEFINE y == Redo(x, cmd)
  <2>1. x.events = c.events /\ EndsOf(x, e) = S /\ e \in InChart(x) \ Comments
    BY SameInChart DEF Same, Pair, EndsOf
  <2>2. Moved(x, e, at, y)
    BY <1>1, <2>1, MoveIs
  <2>. HIDE DEF y
  <2>3. Same(d, y)
    BY <1>3, <2>1, <2>2 DEF Same, Pair, Moved
  <2>. QED  BY <2>2, <2>3 DEF Keeps, Pair, Moved, Good, y
<1>8. UndoTo(d, cmd, c)
  <2>. SUFFICES ASSUME NEW x, Good(x), Same(d, x)
                PROVE  LET y == Undo(x, cmd) IN Shaped(y) /\ Same(c, y) /\ Keeps(x, y, c, d)
    BY DEF UndoTo
  <2>. DEFINE y == Undo(x, cmd)
  <2>1. x.events = d.events /\ EndsOf(x, e) = S /\ e \in InChart(x) \ Comments
    BY <1>3, SameInChart DEF Same, Pair, EndsOf, Moved
  <2>2. \A j \in S : RemoveAll(x.events[j], e) = RemoveAll(c.events[j], e)
    BY <1>3, <1>4, <2>1 DEF Moved
  <2>3. Moved(x, e, old, y)
    <3>1. old \in [EndsOf(x, e) -> Int]
      BY <1>5, <1>6, <2>1
    <3>2. \A j \in EndsOf(x, e) : InsertDefined(RemoveAll(x.events[j], e), old[j])
      BY <1>6, <2>1, <2>2
    <3>. QED  BY <1>1, <2>1, <3>1, <3>2, MoveIs
  <2>. HIDE DEF y
  <2>4. y.events = c.events
    <3>1. c.events \in [Range(c.instances) -> Seq(Events)]
      BY DEF Good, Shaped
    <3>2. \A j \in Range(c.instances) : y.events[j] = c.events[j]
      <4>. SUFFICES ASSUME NEW j \in Range(c.instances)  PROVE y.events[j] = c.events[j]
        OBVIOUS
      <4>1. CASE j \in S
        BY <1>3, <1>6, <2>1, <2>2, <2>3, <4>1 DEF Moved, Same
      <4>2. CASE j \notin S
        BY <1>3, <2>1, <2>3, <4>2 DEF Moved, Same
      <4>. QED  BY <4>1, <4>2
    <3>3. y.events = [j \in Range(c.instances) |-> y.events[j]]
      BY <1>3, <2>3 DEF Moved, Same
    <3>. QED  BY <3>1, <3>2, <3>3
  <2>5. Same(c, y)
    BY <1>3, <2>3, <2>4 DEF Same, Pair, Moved
  <2>. QED  BY <2>3, <2>5 DEF Keeps, Pair, Moved, Good, y
<1>9. Added(c, cmd, d)
  BY <1>3 DEF Added, Pair, Moved
<1>. QED  BY <1>3, <1>7, <1>8, <1>9 DEF Works, Moved, d, cmd, old

\* The events of one instance may come to another one.
Placed(c, e, i, pos, d) ==
  /\ d.instances = c.instances /\ Range(d.orphans) = Range(c.orphans) /\ d.creator = c.creator
  /\ d.source = [c.source EXCEPT ![e] = i] /\ d.target = c.target
  /\ d.events = [j \in Range(c.instances) |->
                   IF j = i THEN InsertAtPos(RemoveAll(c.events[i], e), pos, e)
                   ELSE RemoveAll(c.events[j], e)]
  /\ InChart(d) = InChart(c)
  /\ Good(d)

LEMMA LocalEnds ==
  ASSUME NEW c, Good(c), NEW e \in Locals \cap InChart(c)
  PROVE  /\ e \in InChart(c) \ Comments /\ e \notin Creates /\ e \in Events
         /\ c.target[e] = NoInstance /\ EndsOf(c, e) = {c.source[e]} /\ c.source[e] \in Range(c.instances)
<1>1. e \in InChart(c) \ Comments /\ e \notin Creates /\ e \in Events \ Messages
  BY KindsDiffer
<1>2. c.target[e] = NoInstance
  BY <1>1 DEF Good, Shaped
<1>3. EndsOf(c, e) # {} /\ EndsOf(c, e) \subseteq Range(c.instances)
  BY <1>1, OnLines
<1>. QED  BY <1>1, <1>2, <1>3 DEF EndsOf

LEMMA PlaceIs ==
  ASSUME NEW c, Good(c), NEW e \in Locals \cap InChart(c), NEW i \in Range(c.instances),
         NEW pos \in Int, InsertDefined(RemoveAll(c.events[i], e), pos)
  PROVE  Placed(c, e, i, pos, UpdateLocalPos(c, e, i, pos))
<1>. DEFINE d == UpdateLocalPos(c, e, i, pos)
            b == SetEventInstance(c, e, i)
<1>1. /\ e \in InChart(c) \ Comments /\ e \notin Creates /\ e \in Events
      /\ c.target[e] = NoInstance /\ EndsOf(c, e) = {c.source[e]} /\ c.source[e] \in Range(c.instances)
  BY LocalEnds
<1>2. /\ DOMAIN c.events = Range(c.instances) /\ i \in Instances /\ i # NoInstance
      /\ \A j \in Range(c.instances) : /\ c.events[j] \in Seq(Events) /\ NoRepeat(c.events[j])
                                       /\ Range(c.events[j]) \subseteq Events
                                       /\ e \in Range(c.events[j]) <=> j = c.source[e]
      /\ c.source \in [Events -> Ends]
  <2>1. /\ DOMAIN c.events = Range(c.instances) /\ Range(c.instances) \subseteq Instances
        /\ \A j \in Range(c.instances) : /\ c.events[j] \in Seq(Events) /\ NoRepeat(c.events[j])
                                         /\ Range(c.events[j]) \subseteq Events
    BY OnLines
  <2>2. \A j \in Range(c.instances) : e \in Range(c.events[j]) <=> j \in EndsOf(c, e)
    BY <1>1, OnLines
  <2>3. c.source \in [Events -> Ends]
    BY DEF Good, Shaped
  <2>. QED  BY <1>1, <2>1, <2>2, <2>3, KindsDiffer
<1>3. AtOnly(i, pos) \in [{i} -> Int] /\ AtOnly(i, pos)[i] = pos
  BY DEF AtOnly
<1>4. CASE c.source[e] = i
  <2>1. d = MoveEvent(c, e, AtOnly(i, pos))
    BY <1>4 DEF UpdateLocalPos, SetEventInstance
  <2>. HIDE DEF d
  <2>2. Moved(c, e, AtOnly(i, pos), d)
    BY <1>1, <1>3, <1>4, <2>1, MoveIs
  <2>3. [c.source EXCEPT ![e] = i] = c.source
    BY <1>2, <1>4
  <2>4. \A j \in Range(c.instances) \ {i} : RemoveAll(c.events[j], e) = c.events[j]
    BY <1>2, <1>4, RemovedNone
  <2>5. d.events = [j \in Range(c.instances) |->
                   IF j = i THEN InsertAtPos(RemoveAll(c.events[i], e), pos, e)
                   ELSE RemoveAll(c.events[j], e)]
    BY <1>1, <1>3, <1>4, <2>2, <2>4 DEF Moved
  <2>. QED  BY <2>2, <2>3, <2>5 DEF Moved, Placed, d
<1>5. CASE c.source[e] # i
  <2>. DEFINE r  == RemoveInstanceEvents(c, {e})
              r2 == [r EXCEPT !.source[e] = i]
              p  == AtOnly(i, -1)
  <2>0. {e} \in SUBSET Events /\ {e} \cap Creates = {}
    BY <1>1
  <2>1. WithoutEvents(c, {e}, r) /\ Good(r) /\ r.creator = c.creator
    BY <2>0, RemoveEventsIs, RemoveGood DEF Good
  <2>2. b = AddInstanceEvent(r2, e, p)
    BY <1>5 DEF SetEventInstance
  <2>3. d = MoveEvent(b, e, AtOnly(i, pos))
    BY DEF UpdateLocalPos
  <2>. HIDE DEF b, d, r
  <2>4. \A j \in Range(c.instances) : r.events[j] = RemoveAll(c.events[j], e)
    <3>. SUFFICES ASSUME NEW j \in Range(c.instances)  PROVE r.events[j] = RemoveAll(c.events[j], e)
      OBVIOUS
    <3>1. KeepOnly(c.events[j], Events \ {e}) = RemoveAll(c.events[j], e)
      BY <1>2, RemovedIsKept
    <3>. QED  BY <2>1, <3>1 DEF WithoutEvents
  <2>5. /\ DOMAIN r2 = Fields /\ r2.instances = c.instances /\ r2.events = r.events /\ r2.orphans = r.orphans
        /\ r2.creator = c.creator /\ r2.target = c.target /\ r2.source = [c.source EXCEPT ![e] = i]
        /\ r2.alive = r.alive
    BY <2>1 DEF WithoutEvents, Good, Shaped, Fields
  <2>. HIDE DEF r2
  <2>6. r2.source \in [Events -> Ends] /\ \A x \in Events \ {e} : r2.source[x] = c.source[x]
    BY <1>2, <2>5, KindsDiffer
  <2>7. InChart(r2) = InChart(r) /\ InChart(r) = InChart(c) \ {e}
    <3>1. InChart(r2) = InChart(r)
      BY <2>5 DEF InChart
    <3>. QED  BY <2>1, <3>1 DEF WithoutEvents
  <2>8. Good(r2)
    <3>1. Shaped(r2)
      <4>1. /\ Shaped(r) /\ r.instances = c.instances /\ r.source = c.source /\ r.target = c.target
            /\ r.creator = c.creator
        BY <2>1 DEF Good, WithoutEvents
      <4>2. \A x \in Comments : r2.source[x] = NoInstance
        BY <1>1, <2>6, <4>1, KindsDiffer DEF Shaped
      <4>3. /\ r2.instances \in Seq(Instances) /\ NoRepeat(r2.instances)
            /\ r2.events \in [Range(r2.instances) -> Seq(Events)] /\ r2.orphans \in Seq(Comments)
            /\ r2.target \in [Events -> Ends] /\ r2.creator \in [Instances -> Ends]
            /\ r2.alive = TRUE /\ \A x \in Events \ Messages : r2.target[x] = NoInstance
        BY <2>5, <4>1 DEF Shaped
      <4>. QED  BY <2>5, <2>6, <4>2, <4>3 DEF Shaped
    <3>2. \A x \in Events \ {e} : EndsOf(r2, x) = EndsOf(r, x)
      BY <2>1, <2>5, <2>6 DEF EndsOf, WithoutEvents
    <3>3. \A x \in InChart(r) : x \in Events \ {e}
      BY <2>1, <2>7, ShapedParts DEF Good
    <3>4. \A j \in DOMAIN r.events : \A x \in Range(r.events[j]) : x \in InChart(r)
      BY InChartIs
    <3>5. ListsAgree(r2)
      BY <2>1, <2>5, <2>7, <3>2, <3>3, <3>4 DEF Good, ListsAgree
    <3>6. CreatorsAgree(r2)
      <4>1. \A x \in InChart(r) : r2.source[x] = r.source[x] /\ r2.target[x] = r.target[x]
        BY <2>1, <2>5, <2>6, <3>3 DEF WithoutEvents
      <4>. QED  BY <2>1, <2>5, <2>7, <4>1 DEF Good, CreatorsAgree, WithoutEvents
    <3>. QED  BY <3>1, <3>5, <3>6 DEF Good
  <2>9. EndsOf(r2, e) = {i} /\ r2.source[e] = i /\ r2.target[e] = NoInstance
    BY <1>1, <1>2, <2>5 DEF EndsOf
  <2>10. Comes(r2, e) /\ FromInside(r2, e)
    BY <1>1, <2>5, <2>7, <2>9, KindsDiffer DEF Comes, FromInside
  <2>11. p \in [{i} -> Int] /\ p[i] = -1
    BY DEF AtOnly
  <2>. HIDE DEF p
  <2>12. WithEvent(r2, e, p, b) /\ Good(b)
    <3>1. Places(r2, e, p) = p
      BY <1>1 DEF Places
    <3>2. WithEvent(r2, e, p, b)
      BY <2>2, <2>8, <2>9, <2>10, <2>11, <3>1, AddEventIs
    <3>. QED  BY <2>8, <2>9, <2>10, <2>11, <3>2, AddEventGood
  <2>13. b.events = [j \in Range(c.instances) |->
                       IF j = i THEN InsertOrAppend(RemoveAll(c.events[i], e), -1, e) ELSE RemoveAll(c.events[j], e)]
    BY <2>4, <2>5, <2>9, <2>11, <2>12 DEF WithEvent
  <2>14. RemoveAll(b.events[i], e) = RemoveAll(c.events[i], e)
    <3>. DEFINE q == RemoveAll(c.events[i], e)
    <3>1. /\ q \in Seq(Events) /\ Range(q) = Range(c.events[i]) \cap (Range(c.events[i]) \ {e}) /\ NoRepeat(q)
      BY <1>2, KeepOnlyProperties DEF RemoveAll
    <3>2. e \notin Range(q) /\ b.events[i] = InsertOrAppend(q, -1, e)
      BY <2>13, <3>1
    <3>. HIDE DEF q
    <3>3. RemoveAll(InsertOrAppend(q, -1, e), e) = q
      BY <1>1, <3>1, <3>2, InsertedRemoved
    <3>. QED  BY <3>2, <3>3 DEF q
  <2>15. /\ EndsOf(b, e) = {i} /\ InChart(b) = InChart(c) /\ e \in InChart(b) \ Comments
         /\ b.instances = c.instances /\ b.creator = c.creator /\ b.target = c.target /\ b.source = r2.source
         /\ b.orphans = r.orphans
    BY <1>1, <2>5, <2>7, <2>9, <2>12 DEF WithEvent, EndsOf
  <2>16. Moved(b, e, AtOnly(i, pos), d)
    <3>1. AtOnly(i, pos) \in [EndsOf(b, e) -> Int]
      BY <1>3, <2>15
    <3>2. \A j \in EndsOf(b, e) : InsertDefined(RemoveAll(b.events[j], e), AtOnly(i, pos)[j])
      BY <1>3, <2>14, <2>15
    <3>. QED  BY <2>3, <2>12, <2>15, <3>1, <3>2, MoveIs
  <2>17. d.events = [j \in Range(c.instances) |->
                   IF j = i THEN InsertAtPos(RemoveAll(c.events[i], e), pos, e)
                   ELSE RemoveAll(c.events[j], e)]
    BY <1>3, <2>13, <2>14, <2>15, <2>16 DEF Moved
  <2>18. Range(r.orphans) = Range(c.orphans)
    <3>1. e \notin Range(c.orphans)
      BY <1>1, ShapedParts DEF Good
    <3>. QED  BY <2>1, <3>1 DEF WithoutEvents
  <2>. QED  BY <2>5, <2>15, <2>16, <2>17, <2>18 DEF Moved, Placed, d
<1>. QED  BY <1>4, <1>5

\* The same of views: where an event of one instance is placed, and that it can be.
PlaceIn(V, e, q) ==
  [instances |-> V.instances,
   events    |-> [j \in DOMAIN V.events |-> IF j = q[1] THEN InsertAtPos(RemoveAll(V.events[j], e), q[2], e)
                                           ELSE RemoveAll(V.events[j], e)],
   orphans   |-> V.orphans,
   ends      |-> [V.ends EXCEPT ![e] = <<q[1], NoInstance>>],
   creator   |-> V.creator]
Fits(V, e, q) ==
  q[1] \in Range(V.instances) /\ q[2] \in Int /\ InsertDefined(RemoveAll(V.events[q[1]], e), q[2])
IsView(V) == \E c : Good(c) /\ View(c) = V

\* The moves of an event of one instance can join: what they are and where they lead.
LocalLeads(V, cmd, W) ==
  /\ DOMAIN cmd = {"kind", "e", "new", "old"} /\ cmd.kind = "local"
  /\ cmd.e \in Locals \cap DOMAIN V.ends /\ IsView(V)
  /\ Fits(V, cmd.e, cmd.new) /\ Fits(V, cmd.e, cmd.old)
  /\ W = PlaceIn(V, cmd.e, cmd.new) /\ V = PlaceIn(W, cmd.e, cmd.old)

LEMMA ViewIs ==
  ASSUME NEW c, Good(c)
  PROVE  LET V == View(c)
         IN  /\ V.instances = c.instances /\ V.events = c.events /\ DOMAIN V.events = Range(c.instances)
             /\ DOMAIN V.ends = InChart(c) /\ \A e \in InChart(c) : V.ends[e] = Pair(c, e)
             /\ V.orphans = Range(c.orphans)
             /\ V.creator = [i \in Range(c.instances) |-> c.creator[i]]
  BY OnLines DEF View, Pair

LEMMA PlaceInView ==
  ASSUME NEW c, Good(c), NEW e \in Locals \cap InChart(c), NEW q, Fits(View(c), e, q)
  PROVE  LET d == UpdateLocalPos(c, e, q[1], q[2])
         IN  /\ Good(d) /\ View(d) = PlaceIn(View(c), e, q)
             /\ InChart(d) = InChart(c)
             /\ d.instances = c.instances
             /\ \A x \in Events \ {e} : Pair(d, x) = Pair(c, x)
<1>. DEFINE d == UpdateLocalPos(c, e, q[1], q[2])
            V == View(c)
<1>1. /\ V.instances = c.instances /\ V.events = c.events /\ DOMAIN V.events = Range(c.instances)
      /\ DOMAIN V.ends = InChart(c) /\ \A x \in InChart(c) : V.ends[x] = Pair(c, x)
      /\ V.orphans = Range(c.orphans) /\ V.creator = [i \in Range(c.instances) |-> c.creator[i]]
      /\ V.ends = [x \in InChart(c) |-> <<c.source[x], c.target[x]>>]
  BY ViewIs DEF View
<1>2. Placed(c, e, q[1], q[2], d)
  BY <1>1, PlaceIs DEF Fits
<1>. HIDE DEF d, V
<1>3. /\ c.source \in [Events -> Ends] /\ InChart(c) \subseteq Events /\ e \in Events /\ c.target[e] = NoInstance
  BY ShapedParts, LocalEnds DEF Good, Shaped
<1>4. \A x \in Events : d.source[x] = (IF x = e THEN q[1] ELSE c.source[x]) /\ d.target[x] = c.target[x]
  BY <1>2, <1>3 DEF Placed
<1>5. [x \in InChart(d) |-> <<d.source[x], d.target[x]>>] = [V.ends EXCEPT ![e] = <<q[1], NoInstance>>]
  <2>. DEFINE f == [x \in InChart(c) |-> IF x = e THEN <<q[1], NoInstance>> ELSE <<c.source[x], c.target[x]>>]
  <2>1. [x \in InChart(d) |-> <<d.source[x], d.target[x]>>] = f
    <3>1. InChart(d) = InChart(c)
      BY <1>2 DEF Placed
    <3>2. \A x \in InChart(c) : <<d.source[x], d.target[x]>>
                                = IF x = e THEN <<q[1], NoInstance>> ELSE <<c.source[x], c.target[x]>>
      BY <1>3, <1>4
    <3>. QED  BY <3>1, <3>2
  <2>2. [V.ends EXCEPT ![e] = <<q[1], NoInstance>>] = f
    BY <1>1
  <2>. QED  BY <2>1, <2>2
<1>6. [i \in Range(d.instances) |-> d.creator[i]] = V.creator
  BY <1>1, <1>2 DEF Placed
<1>7. d.events = [j \in DOMAIN V.events |-> IF j = q[1] THEN InsertAtPos(RemoveAll(V.events[j], e), q[2], e)
                                            ELSE RemoveAll(V.events[j], e)]
  BY <1>1, <1>2 DEF Placed
<1>8. d.instances = V.instances /\ Range(d.orphans) = V.orphans
  BY <1>1, <1>2 DEF Placed
<1>9. View(d) = PlaceIn(V, e, q)
  BY <1>5, <1>6, <1>7, <1>8 DEF View, PlaceIn
<1>10. \A x \in Events \ {e} : Pair(d, x) = Pair(c, x)
  BY <1>4 DEF Pair
<1>. QED  BY <1>2, <1>9, <1>10 DEF Placed, d, V

\* Where the event was does not matter to where it is placed.
LEMMA PlaceInTwice ==
  ASSUME NEW V, IsView(V), NEW e \in Locals \cap DOMAIN V.ends, NEW q, Fits(V, e, q)
  PROVE  LET W == PlaceIn(V, e, q)
         IN  /\ IsView(W) /\ DOMAIN W.ends = DOMAIN V.ends
             /\ \A r : PlaceIn(W, e, r) = PlaceIn(V, e, r)
             /\ \A r : Fits(W, e, r) <=> Fits(V, e, r)
<1>. DEFINE W == PlaceIn(V, e, q)
<1>1. PICK c : Good(c) /\ View(c) = V
  BY DEF IsView
<1>2. /\ V.instances = c.instances /\ V.events = c.events /\ DOMAIN V.events = Range(c.instances)
      /\ DOMAIN V.ends = InChart(c)
  BY <1>1, ViewIs
<1>3. IsView(W)
  BY <1>1, <1>2, PlaceInView DEF IsView
<1>4. /\ W.instances = V.instances /\ DOMAIN W.events = DOMAIN V.events /\ W.orphans = V.orphans
      /\ W.ends = [V.ends EXCEPT ![e] = <<q[1], NoInstance>>] /\ W.creator = V.creator
      /\ \A j \in DOMAIN V.events :
           W.events[j] = IF j = q[1] THEN InsertAtPos(RemoveAll(V.events[j], e), q[2], e)
                         ELSE RemoveAll(V.events[j], e)
  BY DEF PlaceIn
<1>. HIDE DEF W
<1>5. \A j \in DOMAIN V.events : RemoveAll(W.events[j], e) = RemoveAll(V.events[j], e)
  <2>. SUFFICES ASSUME NEW j \in DOMAIN V.events
                PROVE  RemoveAll(W.events[j], e) = RemoveAll(V.events[j], e)
    OBVIOUS
  <2>. DEFINE s == V.events[j]
              p == q[2]
  <2>1. s \in Seq(Events) /\ NoRepeat(s) /\ e \in Events
    BY <1>1, <1>2, OnLines, KindsDiffer
  <2>2. CASE j = q[1]
    <3>1. W.events[j] = InsertAtPos(RemoveAll(s, e), p, e) /\ p \in Int /\ InsertDefined(RemoveAll(s, e), p)
      BY <1>4, <2>2 DEF Fits
    <3>. HIDE DEF s, p
    <3>. QED  BY <2>1, <3>1, MovedRemoved DEF s
  <2>3. CASE j # q[1]
    <3>1. W.events[j] = RemoveAll(s, e)
      BY <1>4, <2>3
    <3>. HIDE DEF s
    <3>. QED  BY <2>1, <3>1, RemovedTwice DEF s
  <2>. QED  BY <2>2, <2>3
<1>6. ASSUME NEW r  PROVE PlaceIn(W, e, r) = PlaceIn(V, e, r)
  <2>1. [j \in DOMAIN W.events |-> IF j = r[1] THEN InsertAtPos(RemoveAll(W.events[j], e), r[2], e)
                                  ELSE RemoveAll(W.events[j], e)]
          = [j \in DOMAIN V.events |-> IF j = r[1] THEN InsertAtPos(RemoveAll(V.events[j], e), r[2], e)
                                      ELSE RemoveAll(V.events[j], e)]
    BY <1>4, <1>5
  <2>2. [W.ends EXCEPT ![e] = <<r[1], NoInstance>>] = [V.ends EXCEPT ![e] = <<r[1], NoInstance>>]
    BY <1>4
  <2>. QED  BY <1>4, <2>1, <2>2 DEF PlaceIn
<1>7. ASSUME NEW r  PROVE Fits(W, e, r) <=> Fits(V, e, r)
  BY <1>2, <1>4, <1>5 DEF Fits
<1>8. DOMAIN W.ends = DOMAIN V.ends
  BY <1>4
<1>. QED  BY <1>3, <1>6, <1>7, <1>8 DEF W

\* One place leads there, the other back.
LEMMA LocalLeadsThere ==
  ASSUME NEW V, NEW cmd, NEW W, LocalLeads(V, cmd, W)
  PROVE  Leads(V, cmd, W)
<1>1. /\ cmd.kind = "local" /\ cmd.e \in Locals \cap DOMAIN V.ends /\ IsView(V)
      /\ Fits(V, cmd.e, cmd.new) /\ Fits(V, cmd.e, cmd.old)
      /\ W = PlaceIn(V, cmd.e, cmd.new) /\ V = PlaceIn(W, cmd.e, cmd.old)
  BY DEF LocalLeads
<1>2. DOMAIN W.ends = DOMAIN V.ends /\ Fits(W, cmd.e, cmd.old)
  BY <1>1, PlaceInTwice
<1>3. /\ \A x : Redo(x, cmd) = UpdateLocalPos(x, cmd.e, cmd.new[1], cmd.new[2])
      /\ \A x : Undo(x, cmd) = UpdateLocalPos(x, cmd.e, cmd.old[1], cmd.old[2])
  BY <1>1 DEF Redo, Undo, UndoMove
<1>4. RedoLeads(V, cmd, W)
  <2>. SUFFICES ASSUME NEW c, Good(c), View(c) = V
                PROVE  LET d == Redo(c, cmd) IN Good(d) /\ View(d) = W /\ EndsKept(c, d, V, W)
    BY DEF RedoLeads
  <2>. DEFINE d == Redo(c, cmd)
  <2>1. cmd.e \in Locals \cap InChart(c) /\ DOMAIN V.ends = InChart(c)
    BY <1>1, ViewIs
  <2>2. Good(d) /\ View(d) = W /\ \A x \in Events \ {cmd.e} : Pair(d, x) = Pair(c, x)
    BY <1>1, <1>3, <2>1, PlaceInView
  <2>. QED  BY <1>2, <2>1, <2>2 DEF EndsKept
<1>5. UndoLeads(V, cmd, W)
  <2>. SUFFICES ASSUME NEW c, Good(c), View(c) = W
                PROVE  LET d == Undo(c, cmd) IN Good(d) /\ View(d) = V /\ EndsKept(c, d, V, W)
    BY DEF UndoLeads
  <2>. DEFINE d == Undo(c, cmd)
  <2>1. cmd.e \in Locals \cap InChart(c) /\ DOMAIN W.ends = InChart(c)
    BY <1>1, <1>2, ViewIs
  <2>2. Good(d) /\ View(d) = V /\ \A x \in Events \ {cmd.e} : Pair(d, x) = Pair(c, x)
    BY <1>1, <1>2, <1>3, <2>1, PlaceInView
  <2>. QED  BY <1>2, <2>1, <2>2 DEF EndsKept
<1>. QED  BY <1>4, <1>5 DEF Leads

\* Two that join lead to the second place, and back from it to the first.
LEMMA MergedLeads ==
  ASSUME NEW V, NEW A, NEW W, NEW B, NEW X, LocalLeads(V, A, W), LocalLeads(W, B, X), A.e = B.e
  PROVE  LocalLeads(V, Merged(A, B), X)
<1>. DEFINE M == Merged(A, B)
            e == A.e
<1>1. DOMAIN M = {"kind", "e", "new", "old"} /\ M.kind = "local" /\ M.e = e /\ M.new = B.new /\ M.old = A.old
  BY DEF Merged, LocalLeads
<1>. HIDE DEF M
<1>2. /\ e \in Locals \cap DOMAIN V.ends /\ IsView(V) /\ Fits(V, e, A.new) /\ Fits(V, e, A.old)
      /\ W = PlaceIn(V, e, A.new) /\ V = PlaceIn(W, e, A.old)
      /\ IsView(W) /\ Fits(W, e, B.new) /\ Fits(W, e, B.old)
      /\ X = PlaceIn(W, e, B.new) /\ W = PlaceIn(X, e, B.old)
  BY DEF LocalLeads
<1>. HIDE DEF e
<1>3. Fits(V, e, B.new) /\ X = PlaceIn(V, e, B.new) /\ DOMAIN W.ends = DOMAIN V.ends
  <2>1. \A r : PlaceIn(PlaceIn(V, e, A.new), e, r) = PlaceIn(V, e, r)
    BY <1>2, PlaceInTwice
  <2>2. \A r : Fits(PlaceIn(V, e, A.new), e, r) <=> Fits(V, e, r)
    BY <1>2, PlaceInTwice
  <2>3. DOMAIN W.ends = DOMAIN V.ends
    BY <1>2, PlaceInTwice
  <2>. QED  BY <1>2, <2>1, <2>2, <2>3
<1>4. V = PlaceIn(X, e, A.old)
  <2>1. \A r : PlaceIn(PlaceIn(W, e, B.new), e, r) = PlaceIn(W, e, r)
    BY <1>2, <1>3, PlaceInTwice
  <2>. QED  BY <1>2, <2>1
<1>. QED  BY <1>1, <1>2, <1>3, <1>4 DEF LocalLeads, M

LEMMA LocalWorks ==
  ASSUME NEW c, Good(c), NEW e \in Locals \cap InChart(c), NEW i \in Range(c.instances),
         NEW pos \in DropPositions(c, e, i)
  PROVE  LET s   == c.source[e]
             cmd == [kind |-> "local", e |-> e, new |-> <<i, pos>>, old |-> <<s, IndexOf(c.events[s], e)>>]
             d   == Redo(c, cmd)
         IN  Good(d) /\ LocalLeads(View(c), cmd, View(d)) /\ Added(c, cmd, d)
<1>. DEFINE s    == c.source[e]
            line == c.events[s]
            k    == IndexOf(line, e)
            new  == <<i, pos>>
            old  == <<s, k>>
            cmd  == [kind |-> "local", e |-> e, new |-> new, old |-> old]
            d    == Redo(c, cmd)
            V    == View(c)
<1>1. /\ cmd.kind = "local" /\ cmd.e = e /\ cmd.new = new /\ cmd.old = old
      /\ DOMAIN cmd = {"kind", "e", "new", "old"} /\ new[1] = i /\ new[2] = pos /\ old[1] = s /\ old[2] = k
  OBVIOUS
<1>. HIDE DEF cmd, new, old
<1>2. d = UpdateLocalPos(c, e, new[1], new[2])
  BY <1>1 DEF Redo
<1>. HIDE DEF d
<1>3. /\ V.instances = c.instances /\ V.events = c.events /\ DOMAIN V.events = Range(c.instances)
      /\ DOMAIN V.ends = InChart(c) /\ V.ends[e] = <<s, NoInstance>>
      /\ V = [instances |-> V.instances, events |-> V.events, orphans |-> V.orphans, ends |-> V.ends,
              creator |-> V.creator]
      /\ V.ends = [x \in InChart(c) |-> V.ends[x]]
  <2>1. c.target[e] = NoInstance
    BY LocalEnds
  <2>. QED  BY <2>1, ViewIs DEF View
<1>4. s \in Range(c.instances) /\ e \in InChart(c) \ Comments /\ EndsOf(c, e) = {s}
  BY LocalEnds
<1>5. /\ \A j \in Range(c.instances) : /\ c.events[j] \in Seq(Events) /\ NoRepeat(c.events[j])
                                       /\ e \in Range(c.events[j]) <=> j = s
      /\ c.events \in [Range(c.instances) -> Seq(Events)]
  BY <1>4, OnLines DEF Good, Shaped
<1>6. k \in Int /\ InsertDefined(RemoveAll(line, e), k) /\ InsertAtPos(RemoveAll(line, e), k, e) = line
  <2>1. line \in Seq(Events) /\ NoRepeat(line) /\ e \in Range(line)
    BY <1>4, <1>5
  <2>. HIDE DEF line
  <2>2. IndexOf(line, e) \in Int
    BY <2>1, IndexOfProperties
  <2>3. InsertDefined(RemoveAll(line, e), IndexOf(line, e)) /\ InsertAtPos(RemoveAll(line, e), IndexOf(line, e), e) = line
    BY <2>1, PutBack
  <2>. QED  BY <2>2, <2>3
<1>. HIDE DEF k
<1>7. Fits(V, e, new) /\ Fits(V, e, old)
  BY <1>1, <1>3, <1>4, <1>6, DropsFit DEF Fits
<1>. HIDE DEF V
<1>8. /\ Good(d) /\ View(d) = PlaceIn(V, e, new) /\ InChart(d) = InChart(c)
      /\ d.instances = c.instances /\ \A x \in Events \ {e} : Pair(d, x) = Pair(c, x)
  BY <1>2, <1>7, PlaceInView DEF V
<1>9. IsView(V) /\ e \in Locals \cap DOMAIN V.ends
  BY <1>3 DEF IsView, V
<1>10. PlaceIn(View(d), e, old) = V
  <2>1. PlaceIn(View(d), e, old) = PlaceIn(V, e, old)
    BY <1>7, <1>8, <1>9, PlaceInTwice
  <2>2. [j \in DOMAIN V.events |-> IF j = old[1] THEN InsertAtPos(RemoveAll(V.events[j], e), old[2], e)
                                  ELSE RemoveAll(V.events[j], e)] = V.events
    <3>1. \A j \in Range(c.instances) \ {s} : RemoveAll(c.events[j], e) = c.events[j]
      BY <1>5, RemovedNone
    <3>2. \A j \in Range(c.instances) :
            (IF j = s THEN InsertAtPos(RemoveAll(c.events[j], e), k, e) ELSE RemoveAll(c.events[j], e)) = c.events[j]
      BY <1>6, <3>1
    <3>3. [j \in Range(c.instances) |-> IF j = s THEN InsertAtPos(RemoveAll(c.events[j], e), k, e)
                                       ELSE RemoveAll(c.events[j], e)]
            = [j \in Range(c.instances) |-> c.events[j]]
      BY <3>2
    <3>4. c.events = [j \in Range(c.instances) |-> c.events[j]]
      BY <1>5
    <3>. HIDE DEF s
    <3>. QED  BY <1>1, <1>3, <3>3, <3>4
  <2>3. [V.ends EXCEPT ![e] = <<old[1], NoInstance>>] = V.ends
    BY <1>1, <1>3
  <2>4. PlaceIn(V, e, old) = [instances |-> V.instances, events |-> V.events, orphans |-> V.orphans,
                              ends |-> V.ends, creator |-> V.creator]
    BY <2>2, <2>3 DEF PlaceIn
  <2>. QED  BY <1>3, <2>1, <2>4
<1>11. LocalLeads(V, cmd, View(d))
  BY <1>1, <1>7, <1>8, <1>9, <1>10 DEF LocalLeads
<1>12. Added(c, cmd, d)
  <2>1. \A x \in Events : x \in InChart(c) \cap InChart(d) \/ Pair(d, x) = Pair(c, x)
    BY <1>8
  <2>. QED  BY <1>8, <2>1 DEF Added
<1>. QED  BY <1>8, <1>11, <1>12 DEF d, cmd, V, k, new, old
-------------------------------------------------------------------------------
(* Deletions.                                                                   *)

\* The lists of before a deletion, with nothing destroyed.
SetBack(a, events, orphans, d) ==
  /\ d.instances = a.instances /\ d.events = events /\ d.orphans = orphans
  /\ d.source = a.source /\ d.target = a.target /\ d.creator = a.creator
  /\ Shaped(d)
LEMMA SetEventsIs ==
  ASSUME NEW a, Shaped(a), NEW events \in [Range(a.instances) -> Seq(Events)],
         NEW orphans \in Seq(Comments), Range(orphans) \subseteq Range(a.orphans),
         \A j \in Range(a.instances) : Range(a.events[j]) \subseteq Range(events[j])
  PROVE  SetBack(a, events, orphans, SetInstanceEvents(a, events, orphans))
<1>. DEFINE d         == SetInstanceEvents(a, events, orphans)
            stays(i)  == IF i \in DOMAIN events THEN Range(events[i]) ELSE {}
            destroyed == UNION {Range(a.events[i]) \ stays(i) : i \in DOMAIN a.events}
                           \cup (Range(orphans) \ Range(a.orphans))
            listed    == Range(orphans) \cup UNION {Range(events[i]) : i \in DOMAIN events}
<1>1. DOMAIN a.events = Range(a.instances) /\ DOMAIN a = Fields /\ a.alive = TRUE
  BY DEF Shaped
<1>2. destroyed = {}
  BY <1>1
<1>3. destroyed \cap listed = {}
  BY <1>2
<1>4. /\ d.instances = a.instances /\ d.events = events /\ d.orphans = orphans
      /\ d.source = a.source /\ d.target = a.target /\ d.creator = a.creator
      /\ d.alive = (a.alive /\ destroyed \cap listed = {}) /\ DOMAIN d = Fields
  BY <1>1 DEF SetInstanceEvents, Fields
<1>. HIDE DEF d, destroyed, listed
<1>5. d.alive = TRUE
  BY <1>1, <1>3, <1>4
<1>6. Shaped(d)
  BY <1>4, <1>5 DEF Shaped
<1>. QED  BY <1>4, <1>6 DEF d, SetBack

\* An event that no comment is about and that creates nothing.
LEMMA DeleteEventWorks ==
  ASSUME NEW c, Good(c), NEW e \in InChart(c) \ (Comments \cup Creates)
  PROVE  LET cmd == [kind |-> "delete", i |-> NoInstance, pos |-> -1, gone |-> {e},
                     events |-> c.events, orphans |-> c.orphans]
         IN  Works(c, cmd, Redo(c, cmd))
<1>. DEFINE cmd == [kind |-> "delete", i |-> NoInstance, pos |-> -1, gone |-> {e},
                    events |-> c.events, orphans |-> c.orphans]
            d   == Redo(c, cmd)
<1>1. \A x : /\ Redo(x, cmd) = RemoveInstanceEvents(x, {e})
             /\ Undo(x, cmd) = SetInstanceEvents(x, c.events, c.orphans)
  BY DEF Redo, Undo
<1>2. cmd.kind = "delete"
  OBVIOUS
<1>. HIDE DEF cmd
<1>3. {e} \in SUBSET Events /\ {e} \cap Creates = {} /\ e \notin Comments
  BY OnLines, KindsDiffer
<1>4. WithoutEvents(c, {e}, d) /\ Good(d) /\ d.creator = c.creator
  BY <1>1, <1>3, RemoveEventsIs, RemoveGood DEF Good
<1>. HIDE DEF d
<1>5. Range(d.orphans) = Range(c.orphans)
  <2>1. Range(c.orphans) \subseteq Comments
    BY ShapedParts DEF Good
  <2>. QED  BY <1>3, <1>4, <2>1 DEF WithoutEvents
<1>6. RedoTo(c, cmd, d)
  <2>. SUFFICES ASSUME NEW x, Good(x), Same(c, x)
                PROVE  LET y == Redo(x, cmd) IN Shaped(y) /\ Same(d, y) /\ Keeps(x, y, c, d)
    BY DEF RedoTo
  <2>. DEFINE y == Redo(x, cmd)
  <2>1. WithoutEvents(x, {e}, y) /\ y.creator = x.creator
    BY <1>1, <1>3, RemoveEventsIs, RemoveGood DEF Good
  <2>. HIDE DEF y
  <2>2. Same(d, y)
    BY <1>4, <2>1 DEF Same, Pair, WithoutEvents
  <2>. QED  BY <2>1, <2>2 DEF Keeps, Pair, WithoutEvents, y
<1>7. UndoTo(d, cmd, c)
  <2>. SUFFICES ASSUME NEW x, Good(x), Same(d, x), \A f \in InChart(c) \ InChart(d) : Pair(x, f) = Pair(c, f)
                PROVE  LET y == Undo(x, cmd) IN Shaped(y) /\ Same(c, y) /\ Keeps(x, y, c, d)
    BY DEF UndoTo
  <2>. DEFINE y == Undo(x, cmd)
  <2>1. /\ c.events \in [Range(x.instances) -> Seq(Events)] /\ c.orphans \in Seq(Comments)
        /\ Range(c.orphans) \subseteq Range(x.orphans)
        /\ \A j \in Range(x.instances) : Range(x.events[j]) \subseteq Range(c.events[j])
    <3>1. x.instances = c.instances /\ x.events = d.events /\ Range(x.orphans) = Range(c.orphans)
      BY <1>4, <1>5 DEF Same, WithoutEvents
    <3>2. \A j \in Range(c.instances) : Range(d.events[j]) = Range(c.events[j]) \ {e}
      BY <1>4 DEF WithoutEvents
    <3>. QED  BY <3>1, <3>2 DEF Good, Shaped
  <2>2. SetBack(x, c.events, c.orphans, y)
    <3>. DEFINE f == c.events
                o == c.orphans
    <3>1. y = SetInstanceEvents(x, f, o) /\ Shaped(x)
      BY <1>1 DEF Good
    <3>2. /\ f \in [Range(x.instances) -> Seq(Events)] /\ o \in Seq(Comments)
          /\ Range(o) \subseteq Range(x.orphans)
          /\ \A j \in Range(x.instances) : Range(x.events[j]) \subseteq Range(f[j])
      BY <2>1
    <3>. HIDE DEF f, o, y
    <3>3. SetBack(x, f, o, SetInstanceEvents(x, f, o))
      BY <3>1, <3>2, SetEventsIs
    <3>. QED  BY <3>1, <3>3 DEF f, o
  <2>. HIDE DEF y
  <2>3. \A f \in InChart(c) : Pair(x, f) = Pair(c, f)
    <3>1. \A f \in InChart(d) : Pair(x, f) = Pair(c, f)
      BY <1>4 DEF Same, WithoutEvents, Pair
    <3>. QED  BY <3>1
  <2>4. Same(c, y)
    BY <1>4, <2>2, <2>3 DEF Same, Pair, WithoutEvents, SetBack
  <2>. QED  BY <2>2, <2>4 DEF Keeps, Pair, SetBack, y
<1>8. Added(c, cmd, d)
  BY <1>4 DEF Added, Pair, WithoutEvents
<1>. QED  BY <1>4, <1>6, <1>7, <1>8 DEF Works, d, cmd

\* An instance goes with its lifeline and the messages that end on another one.
Deleted(c, i, E, d) ==
  /\ d.instances = RemoveAll(c.instances, i) /\ Range(d.instances) = Range(c.instances) \ {i}
  /\ d.events = [j \in Range(c.instances) \ {i} |-> KeepOnly(c.events[j], Events \ E)]
  /\ \A j \in Range(c.instances) \ {i} : Range(d.events[j]) = Range(c.events[j]) \ E
  /\ Range(d.orphans) = Range(c.orphans)
  /\ d.source = c.source /\ d.target = c.target /\ d.creator = c.creator
  /\ Shaped(d)

LEMMA RemoveInstanceAlso ==
  ASSUME NEW c, Shaped(c), NEW i \in Range(c.instances)
  PROVE  LET d == RemoveInstance(c, i)
         IN  /\ Shaped(d) /\ Range(d.instances) = Range(c.instances) \ {i}
             /\ d.instances = RemoveAll(c.instances, i)
             /\ \A j \in Range(c.instances) \ {i} : d.events[j] = c.events[j]
             /\ d.orphans = c.orphans /\ d.creator = c.creator
             /\ d.source = c.source /\ d.target = c.target
<1>1. RemoveInstance(c, i).events = [j \in Range(c.instances) \ {i} |-> c.events[j]]
  BY RemoveInstanceIs
<1>2. \A j \in Range(c.instances) \ {i} : RemoveInstance(c, i).events[j] = c.events[j]
  BY <1>1
<1>. QED  BY <1>2, RemoveInstanceIs

LEMMA DeleteIs ==
  ASSUME NEW c, Shaped(c), NEW i \in Range(c.instances),
         NEW E \in SUBSET Messages, E \cap Creates = {}
  PROVE  /\ Deleted(c, i, E, RemoveInstanceEvents(RemoveInstance(c, i), E))
         /\ Deleted(c, i, E, RemoveInstance(RemoveInstanceEvents(c, E), i))
<1>. DEFINE b == RemoveInstance(c, i)
            d == RemoveInstanceEvents(b, E)
            r == RemoveInstanceEvents(c, E)
            y == RemoveInstance(r, i)
<1>0. E \in SUBSET Events /\ E \cap Comments = {}
  BY KindsDiffer
<1>1. /\ Shaped(b) /\ Range(b.instances) = Range(c.instances) \ {i}
      /\ b.instances = RemoveAll(c.instances, i)
      /\ \A j \in Range(c.instances) \ {i} : b.events[j] = c.events[j]
      /\ b.orphans = c.orphans /\ b.creator = c.creator /\ b.source = c.source /\ b.target = c.target
  BY RemoveInstanceAlso
<1>2. WithoutEvents(c, E, r)
  BY <1>0, RemoveEventsIs
<1>. HIDE DEF b, r
<1>3. WithoutEvents(b, E, d)
  BY <1>0, <1>1, RemoveEventsIs
<1>4. i \in Range(r.instances) /\ Shaped(r) /\ r.instances = c.instances
  BY <1>2 DEF WithoutEvents
<1>5. /\ Shaped(y) /\ Range(y.instances) = Range(r.instances) \ {i}
      /\ y.instances = RemoveAll(r.instances, i)
      /\ y.orphans = r.orphans /\ y.creator = r.creator /\ y.source = r.source /\ y.target = r.target
  BY <1>4, RemoveInstanceAlso
<1>6. \A j \in Range(r.instances) \ {i} : y.events[j] = r.events[j]
  BY <1>4, RemoveInstanceAlso
<1>. HIDE DEF d, y
<1>7. Range(c.orphans) \ E = Range(c.orphans)
  BY <1>0, ShapedParts
<1>8. c.creator \in [Instances -> Ends]
  BY DEF Shaped
<1>9. Deleted(c, i, E, d)
  <2>1. d.creator = c.creator
    BY <1>1, <1>3, <1>8 DEF WithoutEvents
  <2>2. d.events = [j \in Range(c.instances) \ {i} |-> KeepOnly(c.events[j], Events \ E)]
    BY <1>1, <1>3 DEF WithoutEvents
  <2>3. \A j \in Range(c.instances) \ {i} : Range(d.events[j]) = Range(c.events[j]) \ E
    BY <1>1, <1>3 DEF WithoutEvents
  <2>. QED  BY <1>1, <1>3, <1>7, <2>1, <2>2, <2>3 DEF Deleted, WithoutEvents
<1>10. Deleted(c, i, E, y)
  <2>1. y.creator = c.creator
    BY <1>2, <1>5, <1>8 DEF WithoutEvents
  <2>2. \A j \in Range(c.instances) \ {i} : /\ y.events[j] = KeepOnly(c.events[j], Events \ E)
                                            /\ Range(y.events[j]) = Range(c.events[j]) \ E
    BY <1>2, <1>4, <1>6 DEF WithoutEvents
  <2>3. y.events = [j \in Range(c.instances) \ {i} |-> KeepOnly(c.events[j], Events \ E)]
    <3>1. y.events \in [Range(c.instances) \ {i} -> Seq(Events)]
      BY <1>4, <1>5 DEF Shaped
    <3>2. y.events = [j \in Range(c.instances) \ {i} |-> y.events[j]]
      BY <3>1
    <3>. QED  BY <2>2, <3>2
  <2>. QED  BY <1>2, <1>5, <1>7, <2>1, <2>2, <2>3 DEF Deleted, WithoutEvents
<1>. QED  BY <1>9, <1>10 DEF b, d, r, y

\* The messages that go with an instance.
LEMMA MessagesOfIs ==
  ASSUME NEW c, Good(c), NEW i \in Range(c.instances)
  PROVE  MessagesOf(c, {i}) =
           {e \in Messages : i \in EndsOf(c, e) /\ \E j \in Range(c.instances) \ {i} : e \in Range(c.events[j])}
<1>1. DOMAIN c.events = Range(c.instances) /\ i \in Instances /\ i # NoInstance
  BY OnLines, KindsDiffer
<1>2. IndexOf(c.instances, i) \in Int
  <2>1. c.instances \in Seq(Instances) /\ NoRepeat(c.instances)
    BY DEF Good, Shaped
  <2>2. IndexOf(c.instances, i) \in 0..(Len(c.instances) - 1)
    BY <2>1, IndexOfProperties
  <2>. QED  BY <2>2
<1>3. \A e \in Messages : RelatesTo(c, e, i) <=> i \in EndsOf(c, e)
  BY <1>1, KindsDiffer DEF RelatesTo, EndsOf
<1>4. \A j : (j \in {i} => IndexOf(c.instances, j) > IndexOf(c.instances, i)) <=> j # i
  BY <1>2
<1>. QED  BY <1>1, <1>3, <1>4 DEF MessagesOf

LEMMA DeleteGood ==
  ASSUME NEW c, Good(c), NEW i \in Range(c.instances), MessagesOf(c, {i}) \cap Creates = {},
         NEW d, Deleted(c, i, MessagesOf(c, {i}), d)
  PROVE  Good(d) /\ InChart(d) \subseteq InChart(c)
<1>. DEFINE E == MessagesOf(c, {i})
<1>1. E = {e \in Messages : i \in EndsOf(c, e) /\ \E j \in Range(c.instances) \ {i} : e \in Range(c.events[j])}
  BY MessagesOfIs
<1>. HIDE DEF E
<1>2. /\ DOMAIN c.events = Range(c.instances)
      /\ \A j \in Range(c.instances) : c.events[j] \in Seq(Events) /\ NoRepeat(c.events[j])
      /\ ListsAgree(c) /\ CreatorsAgree(c)
  BY OnLines DEF Good
<1>3. /\ DOMAIN d.events = Range(c.instances) \ {i}
      /\ \A j \in Range(c.instances) \ {i} : /\ d.events[j] = KeepOnly(c.events[j], Events \ E)
                                             /\ Range(d.events[j]) = Range(c.events[j]) \ E
      /\ \A x : EndsOf(d, x) = EndsOf(c, x)
  BY DEF Deleted, E, EndsOf
<1>4. \A j \in DOMAIN d.events : NoRepeat(d.events[j])
  <2>. SUFFICES ASSUME NEW j \in DOMAIN d.events  PROVE NoRepeat(d.events[j])
    OBVIOUS
  <2>1. c.events[j] \in Seq(Events) /\ NoRepeat(c.events[j]) /\ d.events[j] = KeepOnly(c.events[j], Events \ E)
    BY <1>2, <1>3
  <2>2. NoRepeat(KeepOnly(c.events[j], Events \ E))
    BY <2>1, KeepOnlyProperties
  <2>. QED  BY <2>1, <2>2
<1>5. \A x : x \in InChart(d) <=>
               x \in Range(c.orphans) \/ \E j \in Range(c.instances) \ {i} : x \in Range(c.events[j]) \ E
  <2>1. Range(d.orphans) = Range(c.orphans)
    BY DEF Deleted
  <2>. QED  BY <1>3, <2>1, InChartIs
<1>6. InChart(d) \subseteq InChart(c)
  BY <1>2, <1>5, InChartIs
<1>7. ASSUME NEW x \in InChart(d)  PROVE i \notin EndsOf(c, x)
  <2>1. CASE x \in Comments
    BY <2>1, KindsDiffer, OnLines DEF Good, Shaped, EndsOf
  <2>2. CASE x \notin Comments
    <3>1. Range(c.orphans) \subseteq Comments
      BY ShapedParts DEF Good
    <3>2. PICK j \in Range(c.instances) \ {i} : x \in Range(c.events[j]) \ E
      BY <1>5, <2>2, <3>1
    <3>3. x \in Messages => i \notin EndsOf(c, x)
      BY <1>1, <3>2
    <3>4. x \in Locals => i \notin EndsOf(c, x)
      <4>. SUFFICES ASSUME x \in Locals  PROVE i \notin EndsOf(c, x)
        OBVIOUS
      <4>1. EndsOf(c, x) = {c.source[x]} /\ j \in EndsOf(c, x)
        BY <1>2, <1>6, <3>2, LocalEnds DEF ListsAgree
      <4>. QED  BY <4>1
    <3>5. x \in Messages \cup Locals
      BY <1>6, <2>2, OnLines
    <3>. QED  BY <3>3, <3>4, <3>5
  <2>. QED  BY <2>1, <2>2
<1>8. ListsAgree(d)
  <2>1. \A j \in DOMAIN d.events : Range(d.events[j]) \subseteq Messages \cup Locals
    BY <1>2, <1>3 DEF ListsAgree
  <2>2. \A j \in DOMAIN d.events : \A x \in Range(d.events[j]) : j \in EndsOf(d, x)
    BY <1>2, <1>3 DEF ListsAgree
  <2>3. \A x \in InChart(d) : x \notin E
    BY <1>1, <1>7
  <2>4. \A x \in InChart(d) : \A j \in EndsOf(d, x) : j \in DOMAIN d.events /\ x \in Range(d.events[j])
    BY <1>2, <1>3, <1>6, <1>7, <2>3 DEF ListsAgree
  <2>. QED  BY <1>4, <2>1, <2>2, <2>4 DEF ListsAgree
<1>9. ASSUME NEW x \in Creates \cap InChart(c), c.source[x] # NoInstance
      PROVE  x \in InChart(d)
  <2>1. c.source[x] \in Range(c.instances) /\ c.target[x] \in Range(c.instances) /\ c.source[x] # c.target[x]
    BY <1>2, <1>9 DEF CreatorsAgree
  <2>2. x \in Messages /\ c.target[x] # NoInstance
    BY <2>1, OnLines, KindsDiffer
  <2>3. c.source[x] \in EndsOf(c, x) /\ c.target[x] \in EndsOf(c, x)
    BY <1>9, <2>2 DEF EndsOf
  <2>4. x \in Range(c.events[c.source[x]]) /\ x \in Range(c.events[c.target[x]])
    BY <1>2, <2>3 DEF ListsAgree
  <2>5. x \notin E
    BY DEF E
  <2>6. c.source[x] # i /\ c.target[x] # i
    BY <1>1, <2>1, <2>2, <2>3, <2>4, <2>5
  <2>. QED  BY <1>5, <2>1, <2>4, <2>5, <2>6
<1>10. CreatorsAgree(d)
  <2>1. \A x \in Creates \cap InChart(d) :
          /\ x \in InChart(c) /\ c.source[x] # i /\ c.target[x] # i
          /\ c.target[x] \in Range(c.instances) /\ c.source[x] # c.target[x]
          /\ c.source[x] # NoInstance => /\ c.source[x] \in Range(c.instances)
                                        /\ c.creator[c.target[x]] = c.source[x]
    <3>. SUFFICES ASSUME NEW x \in Creates \cap InChart(d)
                  PROVE  c.source[x] # i /\ c.target[x] # i
      BY <1>2, <1>6 DEF CreatorsAgree
    <3>1. i # NoInstance /\ i \notin EndsOf(c, x)
      BY <1>7, OnLines, KindsDiffer
    <3>. QED  BY <3>1 DEF EndsOf
  <2>. QED  BY <1>2, <1>9, <2>1 DEF CreatorsAgree, Deleted
<1>. QED  BY <1>6, <1>8, <1>10 DEF Good, Deleted

LEMMA DeleteInstanceWorks ==
  ASSUME NEW c, Good(c), NEW i \in Range(c.instances), MessagesOf(c, {i}) \cap Creates = {}
  PROVE  LET cmd == [kind |-> "delete", i |-> i, pos |-> IndexOf(c.instances, i), gone |-> MessagesOf(c, {i}),
                     events |-> c.events, orphans |-> c.orphans]
         IN  Works(c, cmd, Redo(RemoveInstance(c, i), cmd))
<1>. DEFINE pos == IndexOf(c.instances, i)
            E   == MessagesOf(c, {i})
            cmd == [kind |-> "delete", i |-> i, pos |-> pos, gone |-> E,
                    events |-> c.events, orphans |-> c.orphans]
            d   == Redo(RemoveInstance(c, i), cmd)
<1>0. i \in Instances /\ i # NoInstance
  BY OnLines, KindsDiffer
<1>1. \A x : /\ Redo(x, cmd) = RemoveInstance(RemoveInstanceEvents(x, E), i)
             /\ Undo(x, cmd) = SetInstanceEvents(AddInstance(x, i, pos), c.events, c.orphans)
  BY <1>0 DEF Redo, Undo
<1>2. cmd.kind = "delete"
  OBVIOUS
<1>. HIDE DEF cmd
<1>3. E \in SUBSET Messages /\ E \cap Creates = {} /\ E \in SUBSET Events
  BY KindsDiffer DEF MessagesOf
<1>. HIDE DEF E
<1>4. Deleted(c, i, E, d)
  <2>1. Deleted(c, i, E, RemoveInstanceEvents(RemoveInstance(c, i), E))
    BY <1>3, DeleteIs DEF Good
  <2>2. RemoveInstance(RemoveInstanceEvents(RemoveInstance(c, i), E), i)
          = RemoveInstanceEvents(RemoveInstance(c, i), E)
    BY <2>1 DEF Deleted, RemoveInstance
  <2>. QED  BY <1>1, <2>1, <2>2
<1>. HIDE DEF d
<1>5. Good(d) /\ InChart(d) \subseteq InChart(c)
  BY <1>4, DeleteGood DEF E
<1>6. RedoTo(c, cmd, d)
  <2>. SUFFICES ASSUME NEW x, Good(x), Same(c, x)
                PROVE  LET y == Redo(x, cmd) IN Shaped(y) /\ Same(d, y) /\ Keeps(x, y, c, d)
    BY DEF RedoTo
  <2>. DEFINE y == Redo(x, cmd)
  <2>1. Shaped(x) /\ i \in Range(x.instances) /\ y = RemoveInstance(RemoveInstanceEvents(x, E), i)
    BY <1>1 DEF Good, Same
  <2>. HIDE DEF y
  <2>2. Deleted(x, i, E, y)
    BY <1>3, <2>1, DeleteIs
  <2>3. Same(d, y)
    BY <1>4, <1>5, <2>2 DEF Same, Pair, Deleted
  <2>. QED  BY <2>2, <2>3 DEF Keeps, Pair, Deleted, y
<1>7. UndoTo(d, cmd, c)
  <2>. SUFFICES ASSUME NEW x, Good(x), Same(d, x), \A f \in InChart(c) \ InChart(d) : Pair(x, f) = Pair(c, f)
                PROVE  LET y == Undo(x, cmd) IN Shaped(y) /\ Same(c, y) /\ Keeps(x, y, c, d)
    BY DEF UndoTo
  <2>. DEFINE a == AddInstance(x, i, pos)
              f == c.events
              o == c.orphans
              y == Undo(x, cmd)
  <2>0. y = SetInstanceEvents(a, f, o)
    BY <1>1
  <2>. HIDE DEF y
  <2>1. /\ x.instances = RemoveAll(c.instances, i) /\ Range(x.instances) = Range(c.instances) \ {i}
        /\ Range(x.orphans) = Range(c.orphans) /\ x.creator = c.creator
        /\ \A j \in Range(c.instances) \ {i} : Range(x.events[j]) = Range(c.events[j]) \ E
    BY <1>4 DEF Same, Deleted
  <2>2. /\ InsertOrAppend(RemoveAll(c.instances, i), pos, i) = c.instances /\ pos \in Int
        /\ c.instances \in Seq(Instances)
    <3>1. c.instances \in Seq(Instances) /\ NoRepeat(c.instances)
      BY DEF Good, Shaped
    <3>2. pos \in 0..(Len(c.instances) - 1)
      BY <3>1, IndexOfProperties
    <3>. QED  BY <3>1, <3>2, PutBack
  <2>. HIDE DEF pos
  <2>3. i \in Instances \ Range(x.instances)
    BY <1>0, <2>1
  <2>4. /\ a.instances = InsertOrAppend(x.instances, pos, i)
        /\ a.events = [j \in Range(x.instances) \cup {i} |-> IF j = i THEN << >> ELSE x.events[j]]
        /\ a.orphans = x.orphans /\ a.creator = x.creator /\ a.source = x.source /\ a.target = x.target
        /\ Shaped(a)
    BY <2>2, <2>3, AddInstanceIs
  <2>. HIDE DEF a
  <2>5. a.instances = c.instances
    BY <2>1, <2>2, <2>4
  <2>6. /\ f \in [Range(a.instances) -> Seq(Events)] /\ o \in Seq(Comments)
        /\ Range(o) \subseteq Range(a.orphans)
        /\ \A j \in Range(a.instances) : Range(a.events[j]) \subseteq Range(f[j])
    <3>1. f \in [Range(a.instances) -> Seq(Events)] /\ o \in Seq(Comments)
      BY <2>5 DEF Good, Shaped
    <3>2. \A j \in Range(c.instances) : Range(a.events[j]) \subseteq Range(f[j])
      <4>. SUFFICES ASSUME NEW j \in Range(c.instances)  PROVE Range(a.events[j]) \subseteq Range(f[j])
        OBVIOUS
      <4>1. CASE j = i
        <5>1. a.events[j] = << >> /\ Range(<< >>) = {}
          BY <2>4, <4>1 DEF Range
        <5>. QED  BY <5>1
      <4>2. CASE j # i
        <5>1. a.events[j] = x.events[j]
          BY <2>1, <2>4, <4>2
        <5>. QED  BY <2>1, <4>2, <5>1
      <4>. QED  BY <4>1, <4>2
    <3>. QED  BY <2>1, <2>4, <2>5, <3>1, <3>2
  <2>. HIDE DEF f, o
  <2>7. SetBack(a, f, o, y)
    BY <2>0, <2>4, <2>6, SetEventsIs
  <2>8. \A g \in InChart(c) : Pair(x, g) = Pair(c, g)
    <3>1. \A g \in InChart(d) : Pair(x, g) = Pair(c, g)
      BY <1>4 DEF Same, Deleted, Pair
    <3>. QED  BY <3>1
  <2>9. Same(c, y)
    BY <2>1, <2>4, <2>5, <2>7, <2>8 DEF Same, Pair, SetBack, f, o
  <2>. QED  BY <2>4, <2>7, <2>9 DEF Keeps, Pair, SetBack, y
<1>8. Added(c, cmd, d)
  BY <1>4, <1>5 DEF Added, Pair, Deleted
<1>. QED  BY <1>5, <1>6, <1>7, <1>8 DEF Works, d, cmd, E, pos
-------------------------------------------------------------------------------
(* The chart of the file.                                                       *)

Loading(s, with, N) ==
  with = [n \in 0..N |-> IF n = 0 THEN EmptyChart ELSE AddInstance(with[n - 1], s[n], -1)]

\* The recursion is one: some function is as it says.
LEMMA LoadingExists ==
  ASSUME NEW s, NEW N \in Nat
  PROVE  \E with : Loading(s, with, N)
<1>. DEFINE Bad == {n \in Nat : ~\E with : Loading(s, with, n)}
<1>1. SUFFICES ASSUME Bad # {}  PROVE FALSE
  OBVIOUS
<1>2. PICK n \in Bad : \A m \in Bad : n <= m
  BY <1>1, LeastNat
<1>3. n # 0
  <2>. DEFINE w == [m \in 0..0 |-> EmptyChart]
  <2>1. Loading(s, w, 0)
    BY DEF Loading
  <2>. QED  BY <2>1
<1>4. n - 1 \in Nat /\ n - 1 \notin Bad
  BY <1>2, <1>3
<1>5. PICK v : Loading(s, v, n - 1)
  BY <1>4
<1>. DEFINE w == [m \in 0..n |-> IF m = 0 THEN EmptyChart
                                ELSE IF m < n THEN v[m] ELSE AddInstance(v[n - 1], s[n], -1)]
<1>6. \A m \in 0..n : w[m] = IF m = 0 THEN EmptyChart ELSE AddInstance(w[m - 1], s[m], -1)
  <2>. SUFFICES ASSUME NEW m \in 0..n, m # 0  PROVE w[m] = AddInstance(w[m - 1], s[m], -1)
    OBVIOUS
  <2>0. v[0] = EmptyChart /\ m - 1 \in 0..(n - 1)
    BY <1>3, <1>5 DEF Loading
  <2>1. w[m - 1] = v[m - 1]
    BY <2>0
  <2>2. CASE m < n
    BY <1>5, <2>1, <2>2 DEF Loading
  <2>3. CASE m = n
    BY <2>1, <2>3
  <2>. QED  BY <2>2, <2>3
<1>7. Loading(s, w, n)
  <2>1. w = [m \in 0..n |-> w[m]]
    OBVIOUS
  <2>. HIDE DEF w
  <2>2. w = [m \in 0..n |-> IF m = 0 THEN EmptyChart ELSE AddInstance(w[m - 1], s[m], -1)]
    BY <1>6, <2>1
  <2>. QED  BY <2>2 DEF Loading
<1>. QED  BY <1>2, <1>7

\* A chart without events that has certain instances.
Bare(c, I) == Good(c) /\ InChart(c) = {} /\ Range(c.instances) = I

LEMMA EmptyIsBare == Bare(EmptyChart, {})
<1>. DEFINE c == EmptyChart
<1>1. /\ DOMAIN c = Fields /\ c.alive = TRUE /\ c.instances = << >> /\ c.orphans = << >>
      /\ c.events = [i \in {} |-> << >>] /\ c.source = [e \in Events |-> NoInstance]
      /\ c.target = [e \in Events |-> NoInstance] /\ c.creator = [i \in Instances |-> NoInstance]
  BY DEF EmptyChart, Fields
<1>. HIDE DEF c
<1>2. Range(<< >>) = {} /\ NoRepeat(<< >>) /\ << >> \in Seq(Instances) /\ << >> \in Seq(Comments)
  BY DEF Range, NoRepeat
<1>3. Shaped(c)
  BY <1>1, <1>2, KindsDiffer DEF Shaped
<1>4. InChart(c) = {}
  BY <1>1, <1>2 DEF InChart
<1>5. ListsAgree(c) /\ CreatorsAgree(c)
  BY <1>1, <1>4 DEF ListsAgree, CreatorsAgree
<1>. QED  BY <1>1, <1>2, <1>3, <1>4, <1>5 DEF Bare, Good, c

LEMMA AddIsBare ==
  ASSUME NEW c, NEW I, Bare(c, I), NEW i \in Instances
  PROVE  Bare(AddInstance(c, i, -1), I \cup {i})
<1>1. CASE i \in Range(c.instances)
  BY <1>1 DEF AddInstance, Bare
<1>2. CASE i \notin Range(c.instances)
  <2>. DEFINE cmd == [kind |-> "instance", i |-> i, pos |-> -1]
              d   == AddInstance(c, i, -1)
  <2>1. Redo(c, cmd) = d
    BY DEF Redo
  <2>2. Works(c, cmd, Redo(c, cmd))
    BY <1>2, InstanceWorks DEF Bare
  <2>3. Good(d)
    BY <2>1, <2>2 DEF Works
  <2>4. InChart(d) = InChart(c) /\ Range(d.instances) = Range(c.instances) \cup {i}
    <3>1. Good(c) /\ i \in Instances \ Range(c.instances) /\ -1 \in Int
      BY <1>2 DEF Bare
    <3>. QED  BY <3>1, AddInstanceIs
  <2>. QED  BY <2>3, <2>4 DEF Bare
<1>. QED  BY <1>1, <1>2

LEMMA FileIsBare ==
  ASSUME NEW s \in Seq(Instances)
  PROVE  Bare(AddAll(s), Range(s))
<1>. DEFINE with == CHOOSE f : Loading(s, f, Len(s))
            Got(n) == {s[m] : m \in 1..n}
            Fine(n) == Bare(with[n], Got(n))
            Bad == {n \in 0..Len(s) : ~Fine(n)}
<1>1. Loading(s, with, Len(s))
  BY LoadingExists
<1>2. AddAll(s) = with[Len(s)]
  BY DEF AddAll, Loading
<1>. HIDE DEF with
<1>3. Fine(0)
  <2>1. with[0] = EmptyChart /\ Got(0) = {}
    BY <1>1 DEF Loading
  <2>. QED  BY <2>1, EmptyIsBare
<1>4. ASSUME NEW n \in 1..Len(s), Fine(n - 1)  PROVE Fine(n)
  <2>1. with[n] = AddInstance(with[n - 1], s[n], -1) /\ s[n] \in Instances
    BY <1>1 DEF Loading
  <2>2. Got(n - 1) \cup {s[n]} = Got(n)
    OBVIOUS
  <2>3. Bare(with[n - 1], Got(n - 1))
    BY <1>4
  <2>. HIDE DEF Got
  <2>4. Bare(AddInstance(with[n - 1], s[n], -1), Got(n - 1) \cup {s[n]})
    BY <2>1, <2>3, AddIsBare
  <2>. QED  BY <2>1, <2>2, <2>4
<1>5. \A n \in 0..Len(s) : Fine(n)
  <2>. HIDE DEF Fine
  <2>1. SUFFICES ASSUME Bad # {}  PROVE FALSE
    OBVIOUS
  <2>2. PICK n \in Bad : \A m \in Bad : n <= m
    <3>1. Bad \in SUBSET Nat
      OBVIOUS
    <3>. QED  BY <2>1, <3>1, LeastNat, Zenon
  <2>3. n \in 1..Len(s) /\ n - 1 \in 0..Len(s) /\ n - 1 \notin Bad
    BY <1>3, <2>2
  <2>. QED  BY <1>4, <2>2, <2>3
<1>6. Fine(Len(s))
  <2>. HIDE DEF Fine
  <2>. QED  BY <1>5
<1>7. Got(Len(s)) = Range(s)
  BY DEF Range
<1>. QED  BY <1>2, <1>6, <1>7
-------------------------------------------------------------------------------
(* The stack: what a push makes of its lists.                                   *)

\* One that is cut after n and has the last replaced.
LEMMA CutAndReplaced ==
  ASSUME NEW s, \E S : s \in Seq(S), NEW n \in 1..Len(s), NEW x
  PROVE  Extended(s, n - 1, x, [SubSeq(s, 1, n) EXCEPT ![n] = x])
<1>. DEFINE q == SubSeq(s, 1, n)
            r == [q EXCEPT ![n] = x]
<1>1. PICK S : s \in Seq(S)
  OBVIOUS
<1>2. \A k \in 1..n : s[k] \in S
  BY <1>1, ElementOfSeq, LenProperties
<1>3. /\ q \in Seq(S) /\ Len(q) = IF 1 <= n THEN n - 1 + 1 ELSE 0
      /\ \A k \in 1..(n - 1 + 1) : q[k] = s[1 + k - 1]
  BY <1>1, <1>2, LenProperties, SubSeqProperties
<1>. HIDE DEF q
<1>4. q \in [1..n -> S] /\ n \in Nat /\ \A k \in 1..n : q[k] = s[k]
  BY <1>1, <1>3, LenProperties
<1>5. r \in [1..n -> S \cup {x}] /\ r[n] = x /\ \A k \in 1..(n - 1) : r[k] = s[k]
  BY <1>4
<1>6. r \in Seq(S \cup {x})
  BY <1>4, <1>5, SeqDef
<1>7. Len(r) = n
  BY <1>4, <1>5, <1>6, LenProperties
<1>8. n - 1 + 1 = n
  BY <1>4
<1>. HIDE DEF r
<1>9. Extended(s, n - 1, x, r)
  BY <1>5, <1>6, <1>7, <1>8 DEF Extended
<1>. QED  BY <1>9 DEF r, q
-------------------------------------------------------------------------------
(* The invariant, of a chart x, a stack st with its index ix, the views vs and  *)
(* the instances I of the file.                                                 *)

Listed(vs, k) == DOMAIN vs[k].ends
Leading(V, cmd, W) == Leads(V, cmd, W) /\ (cmd.kind = "local" => LocalLeads(V, cmd, W))

Sized(st, ix, vs) ==
  /\ \E S : st \in Seq(S)
  /\ \E S : vs \in Seq(S)
  /\ Len(vs) = Len(st) + 1 /\ ix \in 0..Len(st)
  /\ \A k \in 1..Len(vs) : Listed(vs, k) \subseteq Events

\* Each command leads from the view before it to the one after it.
Steps(st, vs) == \A k \in 1..Len(st) : Leading(vs[k], st[k], vs[k + 1])

\* An event comes once and goes once.
Once(vs) ==
  \A a, b, c \in 1..Len(vs) :
    a < b /\ b < c => Listed(vs, a) \cap Listed(vs, c) \subseteq Listed(vs, b) \cup Comments

\* What a view has some command before it has made.
Made(I, st, vs) ==
  \A k \in 1..Len(vs) :
    /\ \A e \in Listed(vs, k) \ Comments :
         \E j \in 1..(k - 1) : st[j].kind = "event" /\ st[j].e = e
    /\ \A i \in Range(vs[k].instances) \ I :
         \E j \in 1..(k - 1) : st[j].kind = "instance" /\ st[j].i = i

\* An event that is to come back, by redo or by undo, still points where it did.
Hidden(x, ix, vs) ==
  \A k \in 1..(Len(vs) - 1) :
    /\ k > ix => \A e \in Listed(vs, k + 1) \ Listed(vs, k) : Pair(x, e) = vs[k + 1].ends[e]
    /\ k <= ix => \A e \in Listed(vs, k) \ Listed(vs, k + 1) : Pair(x, e) = vs[k].ends[e]

Traced(I, x, st, ix, vs) ==
  /\ Good(x) /\ View(x) = vs[ix + 1]
  /\ Sized(st, ix, vs) /\ Once(vs) /\ Made(I, st, vs) /\ Hidden(x, ix, vs)

StackInv(I, x, st, ix, vs) == Traced(I, x, st, ix, vs) /\ Steps(st, vs)

LEMMA CommentPairs ==
  ASSUME NEW x, Good(x), NEW y, Good(y), NEW e \in Comments
  PROVE  Pair(x, e) = Pair(y, e)
  BY KindsDiffer DEF Good, Shaped, Pair

LEMMA SizedParts ==
  ASSUME NEW st, NEW ix, NEW vs, Sized(st, ix, vs)
  PROVE  Len(st) \in Nat /\ Len(vs) \in Nat /\ Len(vs) = Len(st) + 1 /\ ix \in Nat /\ ix <= Len(st)
  BY LenProperties DEF Sized

\* Back: to a chart y that looks as before the last command, where no other event got
\* other ends.
LEMMA TraceBack ==
  ASSUME NEW I, NEW x, NEW st, NEW ix, NEW vs, Traced(I, x, st, ix, vs), ix > 0,
         NEW y, Good(y), View(y) = vs[ix], EndsKept(x, y, vs[ix], vs[ix + 1])
  PROVE  Traced(I, y, st, ix - 1, vs)
<1>. DEFINE V == vs[ix]
            W == vs[ix + 1]
<1>1. Len(st) \in Nat /\ Len(vs) = Len(st) + 1 /\ ix \in 1..Len(st) /\ ix \in Nat
  BY SizedParts DEF Traced
<1>2. \A k \in 1..Len(vs) : Listed(vs, k) \subseteq Events
  BY DEF Traced, Sized
<1>3. Good(x) /\ View(x) = W
  BY DEF Traced
<1>4. DOMAIN W.ends = InChart(x) /\ \A e \in DOMAIN W.ends : W.ends[e] = Pair(x, e)
  <2>1. Good(x) /\ View(x) = W
    BY <1>3
  <2>. HIDE DEF W
  <2>2. DOMAIN View(x).ends = InChart(x) /\ \A e \in InChart(x) : View(x).ends[e] = Pair(x, e)
    BY <2>1, ViewIs
  <2>. QED  BY <2>1, <2>2
<1>7. \A e \in Events : e \notin Listed(vs, ix) \cap Listed(vs, ix + 1) => Pair(y, e) = Pair(x, e)
  BY DEF EndsKept, Listed
<1>8. \A e \in Comments : Pair(y, e) = Pair(x, e)
  BY <1>3, CommentPairs
<1>9. ASSUME NEW k \in 1..(Len(vs) - 1), k > ix - 1, NEW e \in Listed(vs, k + 1) \ Listed(vs, k)
      PROVE  Pair(y, e) = vs[k + 1].ends[e]
  <2>0. e \in Events /\ k \in 1..Len(vs) /\ k + 1 \in 1..Len(vs)
    BY <1>1, <1>2, <1>9
  <2>1. CASE k = ix
    BY <1>4, <1>7, <1>9, <2>0, <2>1 DEF Listed
  <2>2. CASE k > ix
    <3>1. Pair(x, e) = vs[k + 1].ends[e]
      BY <1>9, <2>2 DEF Traced, Hidden
    <3>2. e \in Listed(vs, ix) => e \in Comments
      BY <1>1, <1>9, <2>0, <2>2 DEF Traced, Once
    <3>. QED  BY <1>7, <1>8, <2>0, <3>1, <3>2
  <2>. QED  BY <1>1, <1>9, <2>1, <2>2
<1>10. ASSUME NEW k \in 1..(Len(vs) - 1), k <= ix - 1, NEW e \in Listed(vs, k) \ Listed(vs, k + 1)
       PROVE  Pair(y, e) = vs[k].ends[e]
  <2>0. e \in Events /\ k \in 1..Len(vs) /\ k + 1 \in 1..Len(vs)
    BY <1>1, <1>2, <1>10
  <2>1. Pair(x, e) = vs[k].ends[e]
    BY <1>1, <1>10 DEF Traced, Hidden
  <2>2. e \in Listed(vs, ix) => e \in Comments
    <3>1. CASE k + 1 = ix
      BY <1>10, <3>1
    <3>2. CASE k + 1 < ix
      BY <1>1, <1>10, <2>0, <3>2 DEF Traced, Once
    <3>. QED  BY <1>1, <1>10, <3>1, <3>2
  <2>. QED  BY <1>7, <1>8, <2>0, <2>1, <2>2
<1>11. Hidden(y, ix - 1, vs)
  BY <1>1, <1>9, <1>10 DEF Hidden
<1>12. Sized(st, ix - 1, vs)
  BY <1>1 DEF Traced, Sized
<1>13. View(y) = vs[(ix - 1) + 1]
  BY <1>1
<1>. QED  BY <1>11, <1>12, <1>13 DEF Traced

LEMMA FitsBack ==
  ASSUME NEW I, NEW x, NEW st, NEW ix, NEW vs, Traced(I, x, st, ix, vs), ix > 0
  PROVE  /\ ix \in 1..Len(st) /\ Good(x) /\ View(x) = vs[ix + 1]
         /\ EndsFit(x, vs[ix + 1], vs[ix])
<1>1. Len(st) \in Nat /\ Len(vs) = Len(st) + 1 /\ ix \in 1..Len(st) /\ ix \in Nat
  BY SizedParts DEF Traced
<1>2. EndsFit(x, vs[ix + 1], vs[ix])
  BY <1>1 DEF EndsFit, Traced, Hidden, Listed
<1>. QED  BY <1>1, <1>2 DEF Traced

\* Undo.
LEMMA StepBack ==
  ASSUME NEW I, NEW x, NEW st, NEW ix, NEW vs, StackInv(I, x, st, ix, vs), ix > 0
  PROVE  StackInv(I, Undo(x, st[ix]), st, ix - 1, vs)
<1>. DEFINE y == Undo(x, st[ix])
<1>1. ix \in 1..Len(st) /\ Good(x) /\ View(x) = vs[ix + 1] /\ EndsFit(x, vs[ix + 1], vs[ix])
  BY FitsBack DEF StackInv
<1>2. UndoLeads(vs[ix], st[ix], vs[ix + 1])
  BY <1>1 DEF StackInv, Steps, Leading, Leads
<1>3. Good(y) /\ View(y) = vs[ix] /\ EndsKept(x, y, vs[ix], vs[ix + 1])
  BY <1>1, <1>2 DEF UndoLeads
<1>. HIDE DEF y
<1>4. Traced(I, y, st, ix - 1, vs)
  BY <1>3, TraceBack DEF StackInv
<1>. QED  BY <1>4 DEF StackInv, y

\* And forth.
LEMMA TraceOn ==
  ASSUME NEW I, NEW x, NEW st, NEW ix, NEW vs, Traced(I, x, st, ix, vs), ix < Len(st),
         NEW y, Good(y), View(y) = vs[ix + 1 + 1], EndsKept(x, y, vs[ix + 1], vs[ix + 1 + 1])
  PROVE  Traced(I, y, st, ix + 1, vs)
<1>. DEFINE n == ix + 1
            V == vs[n]
            W == vs[n + 1]
<1>1. Len(st) \in Nat /\ Len(vs) = Len(st) + 1 /\ n \in 1..Len(st) /\ n \in Nat /\ ix \in Nat /\ ix = n - 1
  BY SizedParts DEF Traced
<1>2. \A k \in 1..Len(vs) : Listed(vs, k) \subseteq Events
  BY DEF Traced, Sized
<1>3. Good(x) /\ View(x) = V
  BY DEF Traced
<1>4. DOMAIN V.ends = InChart(x) /\ \A e \in DOMAIN V.ends : V.ends[e] = Pair(x, e)
  <2>1. Good(x) /\ View(x) = V
    BY <1>3
  <2>. HIDE DEF V
  <2>2. DOMAIN View(x).ends = InChart(x) /\ \A e \in InChart(x) : View(x).ends[e] = Pair(x, e)
    BY <2>1, ViewIs
  <2>. QED  BY <2>1, <2>2
<1>6. View(y) = W /\ EndsKept(x, y, V, W)
  OBVIOUS
<1>. HIDE DEF n
<1>7. \A e \in Events : e \notin Listed(vs, n) \cap Listed(vs, n + 1) => Pair(y, e) = Pair(x, e)
  BY <1>6 DEF EndsKept, Listed
<1>8. \A e \in Comments : Pair(y, e) = Pair(x, e)
  BY <1>3, CommentPairs
<1>9. ASSUME NEW k \in 1..(Len(vs) - 1), k > n, NEW e \in Listed(vs, k + 1) \ Listed(vs, k)
      PROVE  Pair(y, e) = vs[k + 1].ends[e]
  <2>0. e \in Events /\ k \in 1..Len(vs) /\ k + 1 \in 1..Len(vs)
    BY <1>1, <1>2, <1>9
  <2>1. Pair(x, e) = vs[k + 1].ends[e]
    BY <1>1, <1>9 DEF Traced, Hidden
  <2>2. e \in Listed(vs, n + 1) => e \in Comments
    <3>1. CASE k = n + 1
      BY <1>9, <3>1
    <3>2. CASE k > n + 1
      BY <1>1, <1>9, <2>0, <3>2 DEF Traced, Once
    <3>. QED  BY <1>1, <1>9, <3>1, <3>2
  <2>. QED  BY <1>7, <1>8, <2>0, <2>1, <2>2
<1>10. ASSUME NEW k \in 1..(Len(vs) - 1), k <= n, NEW e \in Listed(vs, k) \ Listed(vs, k + 1)
       PROVE  Pair(y, e) = vs[k].ends[e]
  <2>0. e \in Events /\ k \in 1..Len(vs) /\ k + 1 \in 1..Len(vs)
    BY <1>1, <1>2, <1>10
  <2>1. CASE k = n
    BY <1>4, <1>7, <1>10, <2>0, <2>1 DEF Listed
  <2>2. CASE k < n
    <3>1. Pair(x, e) = vs[k].ends[e]
      BY <1>1, <1>10, <2>2 DEF Traced, Hidden
    <3>2. e \in Listed(vs, n) => e \in Comments
      <4>1. CASE k + 1 = n
        BY <1>10, <4>1
      <4>2. CASE k + 1 < n
        BY <1>1, <1>10, <2>0, <4>2 DEF Traced, Once
      <4>. QED  BY <1>1, <2>2, <4>1, <4>2
    <3>. QED  BY <1>7, <1>8, <2>0, <3>1, <3>2
  <2>. QED  BY <1>1, <1>10, <2>1, <2>2
<1>11. Hidden(y, n, vs)
  BY <1>1, <1>9, <1>10 DEF Hidden
<1>12. Sized(st, n, vs)
  BY <1>1 DEF Traced, Sized
<1>13. Traced(I, y, st, n, vs)
  BY <1>6, <1>11, <1>12 DEF Traced
<1>. QED  BY <1>13 DEF n

LEMMA FitsOn ==
  ASSUME NEW I, NEW x, NEW st, NEW ix, NEW vs, Traced(I, x, st, ix, vs), ix < Len(st)
  PROVE  /\ ix + 1 \in 1..Len(st) /\ Good(x) /\ View(x) = vs[ix + 1]
         /\ EndsFit(x, vs[ix + 1], vs[ix + 1 + 1])
<1>1. Len(st) \in Nat /\ Len(vs) = Len(st) + 1 /\ ix + 1 \in 1..Len(st) /\ ix \in Nat
  BY SizedParts DEF Traced
<1>2. EndsFit(x, vs[ix + 1], vs[ix + 1 + 1])
  BY <1>1 DEF EndsFit, Traced, Hidden, Listed
<1>. QED  BY <1>1, <1>2 DEF Traced

\* Redo.
LEMMA StepOn ==
  ASSUME NEW I, NEW x, NEW st, NEW ix, NEW vs, StackInv(I, x, st, ix, vs), ix < Len(st)
  PROVE  StackInv(I, Redo(x, st[ix + 1]), st, ix + 1, vs)
<1>. DEFINE y == Redo(x, st[ix + 1])
            V == vs[ix + 1]
            W == vs[ix + 1 + 1]
<1>1. ix + 1 \in 1..Len(st) /\ Good(x) /\ View(x) = V /\ EndsFit(x, V, W)
  BY FitsOn DEF StackInv
<1>2. RedoLeads(V, st[ix + 1], W)
  BY <1>1 DEF StackInv, Steps, Leading, Leads
<1>3. Good(y) /\ View(y) = W /\ EndsKept(x, y, V, W)
  BY <1>1, <1>2 DEF RedoLeads
<1>. HIDE DEF y
<1>4. Traced(I, y, st, ix + 1, vs)
  BY <1>3, TraceOn DEF StackInv
<1>. QED  BY <1>4 DEF StackInv, y

\* A push that starts a command of its own: what it is given is a chart x, of which
\* only an event that the command makes may have got other ends (c).
LEMMA TracePush ==
  ASSUME NEW I, NEW x, NEW st, NEW ix, NEW vs, Traced(I, x, st, ix, vs),
         NEW c, Good(c), View(c) = View(x), NEW cmd, NEW d, Good(d),
         \A e \in Events : Pair(c, e) = Pair(x, e) \/ (cmd.kind = "event" /\ cmd.e = e),
         Added(c, cmd, d),
         cmd.kind = "event" => /\ cmd.e \notin Comments
                               /\ \A k \in 1..ix : st[k].kind = "event" => st[k].e # cmd.e,
         NEW st2, Extended(st, ix, cmd, st2), NEW vs2, Extended(vs, ix + 1, View(d), vs2)
  PROVE  Traced(I, d, st2, ix + 1, vs2)
<1>1. /\ Len(st) \in Nat /\ Len(vs) = Len(st) + 1 /\ ix \in Nat /\ ix <= Len(st)
      /\ \A k \in 1..Len(vs) : Listed(vs, k) \subseteq Events
  BY SizedParts DEF Traced, Sized
<1>2. /\ Len(st2) = ix + 1 /\ st2[ix + 1] = cmd /\ (\A k \in 1..ix : st2[k] = st[k])
      /\ Len(vs2) = ix + 2 /\ vs2[ix + 2] = View(d) /\ (\A k \in 1..(ix + 1) : vs2[k] = vs[k])
  <2>1. ix + 1 + 1 = ix + 2
    BY <1>1
  <2>. QED  BY <2>1 DEF Extended
<1>3. vs[ix + 1] = View(c) /\ View(c).instances = c.instances /\ View(d).instances = d.instances
  BY ViewIs DEF Traced
<1>4. /\ Listed(vs, ix + 1) = InChart(c) /\ Listed(vs2, ix + 2) = InChart(d)
      /\ \A e \in InChart(c) : vs[ix + 1].ends[e] = Pair(c, e)
  <2>1. DOMAIN View(c).ends = InChart(c) /\ \A e \in InChart(c) : View(c).ends[e] = Pair(c, e)
    BY ViewIs
  <2>2. DOMAIN View(d).ends = InChart(d)
    BY ViewIs
  <2>. QED  BY <1>2, <1>3, <2>1, <2>2 DEF Listed
<1>5. \A k \in 1..(ix + 1) : Listed(vs2, k) = Listed(vs, k)
  BY <1>2 DEF Listed
<1>6. ASSUME NEW k \in 1..(ix + 1), NEW e \in Listed(vs, k), cmd.kind = "event", cmd.e = e
      PROVE  FALSE
  <2>1. PICK j \in 1..(k - 1) : st[j].kind = "event" /\ st[j].e = e
    BY <1>1, <1>6 DEF Traced, Made
  <2>. QED  BY <1>1, <1>6, <2>1
<1>7. \A e \in InChart(d) : e \in InChart(c) \cup Comments \/ (cmd.kind = "event" /\ cmd.e = e)
  BY DEF Added
<1>8. Once(vs2)
  <2>. SUFFICES ASSUME NEW a \in 1..(ix + 2), NEW b \in 1..(ix + 2), NEW z \in 1..(ix + 2), a < b, b < z,
                       NEW e \in Listed(vs2, a) \cap Listed(vs2, z), e \notin Comments
                PROVE  e \in Listed(vs2, b)
    BY <1>2 DEF Once
  <2>1. CASE z # ix + 2
    BY <1>1, <1>5, <2>1 DEF Traced, Once
  <2>2. CASE z = ix + 2
    <3>1. e \in Listed(vs, a) /\ e \in InChart(d) /\ a \in 1..(ix + 1) /\ b \in 1..(ix + 1)
      BY <1>1, <1>4, <1>5, <2>2
    <3>2. e \in Listed(vs, ix + 1)
      BY <1>4, <1>6, <1>7, <3>1
    <3>3. e \in Listed(vs, b)
      <4>1. CASE b = ix + 1
        BY <3>2, <4>1
      <4>2. CASE b # ix + 1
        BY <1>1, <3>1, <3>2, <4>2 DEF Traced, Once
      <4>. QED  BY <4>1, <4>2
    <3>. QED  BY <1>5, <3>1, <3>3
  <2>. QED  BY <2>1, <2>2
<1>10. Made(I, st2, vs2)
  <2>1. ASSUME NEW k \in 1..(ix + 1)
        PROVE  /\ \A e \in Listed(vs2, k) \ Comments :
                    \E j \in 1..(k - 1) : st2[j].kind = "event" /\ st2[j].e = e
               /\ \A i \in Range(vs2[k].instances) \ I :
                    \E j \in 1..(k - 1) : st2[j].kind = "instance" /\ st2[j].i = i
    <3>1. k \in 1..Len(vs) /\ \A j \in 1..(k - 1) : j \in 1..ix /\ st2[j] = st[j]
      BY <1>1, <1>2
    <3>. QED  BY <1>2, <1>5, <3>1 DEF Traced, Made
  <2>2. ASSUME NEW e \in Listed(vs2, ix + 2) \ Comments
        PROVE  \E j \in 1..(ix + 1) : st2[j].kind = "event" /\ st2[j].e = e
    <3>1. CASE e \in InChart(c)
      <4>1. \E j \in 1..(ix + 1 - 1) : st2[j].kind = "event" /\ st2[j].e = e
        BY <1>1, <1>4, <1>5, <2>1, <2>2, <3>1
      <4>. QED  BY <1>1, <4>1
    <3>2. CASE e \notin InChart(c)
      BY <1>1, <1>2, <1>4, <1>7, <2>2, <3>2
    <3>. QED  BY <3>1, <3>2
  <2>3. ASSUME NEW i \in Range(d.instances) \ I
        PROVE  \E j \in 1..(ix + 1) : st2[j].kind = "instance" /\ st2[j].i = i
    <3>1. CASE i \in Range(c.instances)
      <4>1. \E j \in 1..(ix + 1 - 1) : st2[j].kind = "instance" /\ st2[j].i = i
        BY <1>1, <1>2, <1>3, <2>1, <2>3, <3>1
      <4>. QED  BY <1>1, <4>1
    <3>2. CASE i \notin Range(c.instances)
      BY <1>1, <1>2, <2>3, <3>2 DEF Added
    <3>. QED  BY <3>1, <3>2
  <2>4. \A k \in 1..(ix + 2) : k \in 1..(ix + 1) \/ (k = ix + 2 /\ k - 1 = ix + 1)
    BY <1>1
  <2>. QED  BY <1>2, <1>3, <2>1, <2>2, <2>3, <2>4 DEF Made
<1>11. ASSUME NEW k \in 1..(ix + 1), NEW e \in Listed(vs2, k) \ Listed(vs2, k + 1)
       PROVE  Pair(d, e) = vs2[k].ends[e]
  <2>0. e \in Events /\ e \in Listed(vs, k) /\ vs2[k] = vs[k] /\ ~(cmd.kind = "event" /\ cmd.e = e)
    BY <1>1, <1>2, <1>5, <1>6, <1>11
  <2>1. e \in InChart(c) \cap InChart(d) \/ Pair(d, e) = Pair(c, e)
    BY <2>0 DEF Added
  <2>2. CASE k = ix + 1
    <3>1. e \in InChart(c) /\ e \notin InChart(d)
      <4>1. k + 1 = ix + 2
        BY <1>1, <2>2
      <4>. QED  BY <1>4, <1>11, <2>0, <2>2, <4>1
    <3>. QED  BY <1>4, <2>0, <2>1, <2>2, <3>1
  <2>3. CASE k # ix + 1
    <3>1. k \in 1..ix /\ k + 1 \in 1..(ix + 1) /\ k \in 1..Len(vs) /\ k \in 1..(Len(vs) - 1)
      BY <1>1, <2>3
    <3>2. e \notin Listed(vs, k + 1)
      BY <1>5, <1>11, <3>1
    <3>3. Pair(x, e) = vs[k].ends[e]
      BY <1>1, <2>0, <3>1, <3>2 DEF Traced, Hidden
    <3>4. Pair(c, e) = Pair(x, e)
      BY <2>0
    <3>5. e \in InChart(c) => e \in Comments
      <4>1. CASE k = ix
        BY <1>4, <3>2, <4>1
      <4>2. CASE k # ix
        BY <1>1, <1>4, <2>0, <3>1, <3>2, <4>2 DEF Traced, Once
      <4>. QED  BY <4>1, <4>2
    <3>6. e \in Comments => Pair(d, e) = Pair(c, e)
      BY CommentPairs
    <3>. QED  BY <2>0, <2>1, <3>3, <3>4, <3>5, <3>6
  <2>. QED  BY <2>2, <2>3
<1>12. Hidden(d, ix + 1, vs2)
  <2>1. Len(vs2) - 1 = ix + 1 /\ \A k \in 1..(ix + 1) : ~(k > ix + 1)
    BY <1>1, <1>2
  <2>. QED  BY <1>11, <2>1 DEF Hidden
<1>13. Sized(st2, ix + 1, vs2)
  <2>1. (\E S : st2 \in Seq(S)) /\ \E S : vs2 \in Seq(S)
    BY DEF Extended
  <2>2. \A k \in 1..(ix + 2) : Listed(vs2, k) \subseteq Events
    <3>1. InChart(d) \subseteq Events
      BY ShapedParts DEF Good
    <3>2. \A k \in 1..(ix + 2) : k \in 1..(ix + 1) \/ k = ix + 2
      BY <1>1
    <3>. QED  BY <1>1, <1>4, <1>5, <3>1, <3>2
  <2>. QED  BY <1>1, <1>2, <2>1, <2>2 DEF Sized
<1>14. View(d) = vs2[(ix + 1) + 1]
  <2>1. (ix + 1) + 1 = ix + 2
    BY <1>1
  <2>. QED  BY <1>2, <2>1
<1>. QED  BY <1>8, <1>10, <1>12, <1>13, <1>14 DEF Traced

LEMMA PushOn ==
  ASSUME NEW I, NEW x, NEW st, NEW ix, NEW vs, StackInv(I, x, st, ix, vs),
         NEW c, Good(c), View(c) = View(x), NEW cmd, NEW d, Good(d),
         \A e \in Events : Pair(c, e) = Pair(x, e) \/ (cmd.kind = "event" /\ cmd.e = e),
         Leading(View(c), cmd, View(d)), Added(c, cmd, d),
         cmd.kind = "event" => /\ cmd.e \notin Comments
                               /\ \A k \in 1..ix : st[k].kind = "event" => st[k].e # cmd.e,
         NEW st2, Extended(st, ix, cmd, st2), NEW vs2, Extended(vs, ix + 1, View(d), vs2)
  PROVE  StackInv(I, d, st2, ix + 1, vs2)
<1>1. Traced(I, d, st2, ix + 1, vs2)
  BY TracePush DEF StackInv
<1>2. Len(st) \in Nat /\ Len(vs) = Len(st) + 1 /\ ix \in Nat /\ ix <= Len(st) /\ vs[ix + 1] = View(c)
  BY SizedParts DEF StackInv, Traced
<1>3. /\ Len(st2) = ix + 1 /\ st2[ix + 1] = cmd /\ (\A k \in 1..ix : st2[k] = st[k])
      /\ vs2[ix + 2] = View(d) /\ (\A k \in 1..(ix + 1) : vs2[k] = vs[k])
  <2>1. ix + 1 + 1 = ix + 2
    BY <1>2
  <2>. QED  BY <2>1 DEF Extended
<1>4. Steps(st2, vs2)
  <2>. SUFFICES ASSUME NEW k \in 1..(ix + 1)  PROVE Leading(vs2[k], st2[k], vs2[k + 1])
    BY <1>3 DEF Steps
  <2>1. CASE k = ix + 1
    BY <1>2, <1>3, <2>1
  <2>2. CASE k # ix + 1
    BY <1>2, <1>3, <2>2 DEF StackInv, Steps
  <2>. QED  BY <2>1, <2>2
<1>. QED  BY <1>1, <1>4 DEF StackInv

\* A push that joins the last command: as if that one had been undone and one with
\* the newer place pushed instead.
LEMMA JoinOn ==
  ASSUME NEW I, NEW x, NEW st, NEW ix, NEW vs, StackInv(I, x, st, ix, vs), ix > 0,
         NEW cmd, NEW d, Good(d), LocalLeads(View(x), cmd, View(d)), Added(x, cmd, d),
         st[ix].kind = "local", st[ix].e = cmd.e,
         NEW st2, Extended(st, ix - 1, Merged(st[ix], cmd), st2),
         NEW vs2, Extended(vs, ix, View(d), vs2)
  PROVE  StackInv(I, d, st2, ix, vs2)
<1>. DEFINE old == st[ix]
            new == Merged(old, cmd)
            w == Undo(x, old)
            V == vs[ix]
            W == View(x)
<1>1. /\ Len(st) \in Nat /\ Len(vs) = Len(st) + 1 /\ ix \in 1..Len(st) /\ ix \in Nat
      /\ Good(x) /\ vs[ix + 1] = W
  BY SizedParts DEF StackInv, Traced
<1>2. LocalLeads(V, old, W)
  <2>1. Leading(V, old, W)
    BY <1>1 DEF StackInv, Traced, Steps
  <2>. QED  BY <2>1 DEF Leading
<1>3. LocalLeads(V, new, View(d))
  BY <1>2, MergedLeads
<1>4. Leads(V, new, View(d)) /\ UndoLeads(V, old, W)
  BY <1>2, <1>3, LocalLeadsThere DEF Leads
<1>5. StackInv(I, w, st, ix - 1, vs)
  BY StepBack
<1>6. Good(w) /\ View(w) = V
  <2>1. ix - 1 + 1 = ix
    BY <1>1
  <2>. QED  BY <1>5, <2>1 DEF StackInv, Traced
<1>7. /\ DOMAIN V.ends = InChart(w) /\ DOMAIN W.ends = InChart(x) /\ DOMAIN View(d).ends = InChart(d)
      /\ V.instances = w.instances /\ W.instances = x.instances /\ View(d).instances = d.instances
  <2>1. DOMAIN View(w).ends = InChart(w) /\ View(w).instances = w.instances
    BY <1>6, ViewIs
  <2>2. DOMAIN View(x).ends = InChart(x) /\ View(x).instances = x.instances
    BY <1>1, ViewIs
  <2>3. DOMAIN View(d).ends = InChart(d) /\ View(d).instances = d.instances
    BY ViewIs
  <2>. QED  BY <1>6, <2>1, <2>2, <2>3
<1>8. /\ DOMAIN W.ends = DOMAIN V.ends /\ W.instances = V.instances
      /\ DOMAIN View(d).ends = DOMAIN V.ends /\ View(d).instances = V.instances
  <2>1. \A A, e, q : DOMAIN PlaceIn(A, e, q).ends = DOMAIN A.ends /\ PlaceIn(A, e, q).instances = A.instances
    BY DEF PlaceIn
  <2>2. W = PlaceIn(V, old.e, old.new)
    BY <1>2 DEF LocalLeads
  <2>3. View(d) = PlaceIn(V, new.e, new.new)
    BY <1>3 DEF LocalLeads
  <2>. HIDE DEF V, W, old, new
  <2>. QED  BY <2>1, <2>2, <2>3
<1>9. \A e \in Events : e \notin InChart(x) => Pair(w, e) = Pair(x, e)
  <2>1. EndsFit(x, W, V)
    BY <1>8 DEF EndsFit
  <2>2. EndsKept(x, w, V, W)
    BY <1>1, <1>4, <2>1 DEF UndoLeads
  <2>. QED  BY <1>7, <1>8, <2>2 DEF EndsKept
<1>10. new.kind = "local" /\ cmd.kind = "local"
  BY <1>2, <1>3 DEF LocalLeads
<1>11. Added(w, new, d)
  BY <1>7, <1>8, <1>9, <1>10 DEF Added
<1>12. Leading(View(w), new, View(d))
  BY <1>3, <1>4, <1>6 DEF Leading
<1>13. ix - 1 + 1 = ix
  BY <1>1
<1>. HIDE DEF new, w
<1>14. StackInv(I, d, st2, (ix - 1) + 1, vs2)
  <2>1. \A e \in Events : Pair(w, e) = Pair(w, e) \/ (new.kind = "event" /\ new.e = e)
    OBVIOUS
  <2>2. new.kind # "event"
    BY <1>10
  <2>3. Extended(st, ix - 1, new, st2) /\ Extended(vs, (ix - 1) + 1, View(d), vs2)
    BY <1>13 DEF new
  <2>. QED  BY <1>5, <1>6, <1>11, <1>12, <2>1, <2>2, <2>3, PushOn
<1>. QED  BY <1>13, <1>14

\* The removal of a comment that was just made is its undo, and what is left does
\* nothing; a comment made after that takes its place.
LEMMA JoinComment ==
  ASSUME NEW I, NEW x, NEW st, NEW ix, NEW vs, StackInv(I, x, st, ix, vs), ix > 0,
         NEW cmd, NEW d, Good(d), Leading(View(x), cmd, View(d)), Added(x, cmd, d),
         st[ix].e = cmd.e,
         \/ st[ix].kind = "comment" /\ cmd.kind = "uncomment" /\ d = Redo(x, cmd)
         \/ st[ix].kind = "nocomment" /\ cmd.kind = "comment",
         NEW st2, Extended(st, ix - 1, Merged(st[ix], cmd), st2),
         NEW vs2, Extended(vs, ix, View(d), vs2)
  PROVE  StackInv(I, d, st2, ix, vs2)
<1>. DEFINE old == st[ix]
            new == Merged(old, cmd)
            w == Undo(x, old)
<1>1. ix \in Nat /\ ix - 1 + 1 = ix
  BY SizedParts DEF StackInv, Traced
<1>2. StackInv(I, w, st, ix - 1, vs)
  BY StepBack
<1>3. Good(w)
  BY <1>2 DEF StackInv, Traced
<1>4. Extended(st, ix - 1, new, st2) /\ Extended(vs, (ix - 1) + 1, View(d), vs2)
  BY <1>1
<1>5. Leading(View(w), new, View(d)) /\ Added(w, new, d) /\ new.kind # "event"
  <2>1. CASE old.kind = "comment" /\ cmd.kind = "uncomment" /\ d = Redo(x, cmd)
    <3>1. d = w
      BY <2>1 DEF Redo, Undo
    <3>2. new.kind = "nocomment"
      BY <2>1 DEF Merged
    <3>. HIDE DEF new, w
    <3>3. \A y : Redo(y, new) = y /\ Undo(y, new) = y
      BY <3>2 DEF Redo, Undo
    <3>4. Leads(View(w), new, View(w))
      BY <3>3 DEF Leads, RedoLeads, UndoLeads, EndsKept
    <3>5. Added(w, new, w)
      BY DEF Added
    <3>. QED  BY <3>1, <3>2, <3>4, <3>5 DEF Leading
  <2>2. CASE old.kind = "nocomment" /\ cmd.kind = "comment"
    <3>1. w = x
      BY <2>2 DEF Undo
    <3>2. new = cmd
      BY <2>2 DEF Merged
    <3>. QED  BY <2>2, <3>1, <3>2
  <2>. QED  BY <2>1, <2>2
<1>6. \A e \in Events : Pair(w, e) = Pair(w, e) \/ (new.kind = "event" /\ new.e = e)
  OBVIOUS
<1>. HIDE DEF new, w
<1>7. StackInv(I, d, st2, (ix - 1) + 1, vs2)
  BY <1>2, <1>3, <1>4, <1>5, <1>6, PushOn
<1>. QED  BY <1>1, <1>7
-------------------------------------------------------------------------------
(* The steps of the specification.                                              *)

Stacked == StackInv(Range(Start[kinds]), chart, stack, index, views)

\* What a push makes of the versions: a new one, or another one for the last, which
\* is not the one that was saved.
Recorded ==
  /\ clean' = IF clean > index THEN -1 ELSE clean
  /\ saved' = saved
  /\ \/ index' = index + 1 /\ Extended(views, index + 1, View(chart'), views')
     \/ index' = index /\ index > 0 /\ index # clean' /\ Extended(views, index, View(chart'), views')

LEMMA PushKeeps ==
  ASSUME Stacked, kinds' = kinds, NEW c, Good(c), View(c) = View(chart), NEW b, NEW cmd,
         Good(Redo(b, cmd)), Leading(View(c), cmd, View(Redo(b, cmd))), Added(c, cmd, Redo(b, cmd)),
         \A e \in Events : Pair(c, e) = Pair(chart, e) \/ (cmd.kind = "event" /\ cmd.e = e),
         cmd.kind = "event" => /\ cmd.e \notin Comments
                               /\ \A k \in 1..index : stack[k].kind = "event" => stack[k].e # cmd.e,
         cmd.kind \in {"local", "comment", "uncomment"} => c = chart,
         cmd.kind = "uncomment" => b = chart,
         Push(b, cmd)
  PROVE  Stacked' /\ Recorded
<1>. DEFINE d == Redo(b, cmd)
            I == Range(Start[kinds])
            done == SubSeq(stack, 1, index)
            joins == index > 0 /\ index # (IF clean > index THEN -1 ELSE clean) /\ CanMerge(stack[index], cmd)
<1>1. StackInv(I, chart, stack, index, views) /\ I' = I
  BY DEF Stacked
<1>2. /\ Sized(stack, index, views)
      /\ Len(stack) \in Nat /\ Len(views) = Len(stack) + 1 /\ index \in Nat /\ index <= Len(stack)
  BY <1>1, SizedParts DEF StackInv, Traced
<1>3. (\E S : stack \in Seq(S)) /\ \E S : views \in Seq(S)
  BY <1>2 DEF Sized
<1>4. /\ chart' = d
      /\ stack' = IF joins THEN [done EXCEPT ![index] = Merged(@, cmd)] ELSE Append(done, cmd)
      /\ index' = IF joins THEN index ELSE index + 1
      /\ views' = Append(SubSeq(views, 1, IF joins THEN index ELSE index + 1), View(chart'))
      /\ clean' = (IF clean > index THEN -1 ELSE clean) /\ saved' = saved
  BY DEF Push
<1>5. CASE joins
  <2>0. index > 0 /\ CanMerge(stack[index], cmd) /\ index \in 1..Len(stack) /\ index \in 0..Len(views)
    BY <1>2, <1>5
  <2>1. /\ stack[index].e = cmd.e
        /\ \/ stack[index].kind = "local" /\ cmd.kind = "local"
           \/ stack[index].kind = "comment" /\ cmd.kind = "uncomment"
           \/ stack[index].kind = "nocomment" /\ cmd.kind = "comment"
    BY <2>0 DEF CanMerge
  <2>2. Leading(View(chart), cmd, View(d)) /\ Added(chart, cmd, d)
    BY <2>1
  <2>3. stack' = [done EXCEPT ![index] = Merged(stack[index], cmd)]
    <3>1. done[index] = stack[index]
      <4>1. PICK S : stack \in Seq(S)
        BY <1>3
      <4>2. \A k \in 1..index : stack[k] \in S
        BY <1>2, <4>1, ElementOfSeq
      <4>3. \A k \in 1..(index - 1 + 1) : done[k] = stack[1 + k - 1]
        BY <1>2, <4>1, <4>2, SubSeqProperties
      <4>4. \A n \in Nat : n > 0 => n \in 1..(n - 1 + 1) /\ 1 + n - 1 = n
        OBVIOUS
      <4>. HIDE DEF done
      <4>. QED  BY <1>2, <2>0, <4>3, <4>4, Zenon
    <3>. HIDE DEF done
    <3>. QED  BY <1>4, <1>5, <3>1
  <2>4. Extended(stack, index - 1, Merged(stack[index], cmd), stack')
    BY <1>3, <2>0, <2>3, CutAndReplaced
  <2>5. Extended(views, index, View(d), views')
    BY <1>3, <1>4, <1>5, <2>0, CutAndExtended
  <2>6. cmd.kind = "uncomment" => d = Redo(chart, cmd)
    OBVIOUS
  <2>7. Good(d)
    OBVIOUS
  <2>. HIDE DEF d
  <2>8. ASSUME cmd.kind = "local"  PROVE StackInv(I, d, stack', index, views')
    <3>1. LocalLeads(View(chart), cmd, View(d)) /\ stack[index].kind = "local"
      BY <2>1, <2>2, <2>8 DEF Leading
    <3>. QED  BY <1>1, <2>0, <2>1, <2>2, <2>4, <2>5, <2>7, <3>1, JoinOn
  <2>9. ASSUME cmd.kind # "local"  PROVE StackInv(I, d, stack', index, views')
    BY <1>1, <2>0, <2>1, <2>2, <2>4, <2>5, <2>6, <2>7, <2>9, JoinComment
  <2>10. StackInv(I, d, stack', index, views')
    BY <2>8, <2>9
  <2>. QED  BY <1>1, <1>4, <1>5, <2>0, <2>5, <2>10 DEF Stacked, Recorded, d
<1>6. CASE ~joins
  <2>1. index \in 0..Len(stack) /\ index + 1 \in 0..Len(views)
    BY <1>2
  <2>2. stack' = Append(SubSeq(stack, 1, index), cmd) /\ views' = Append(SubSeq(views, 1, index + 1), View(d))
    BY <1>4, <1>6
  <2>3. Extended(stack, index, cmd, stack')
    BY <1>3, <2>1, <2>2, CutAndExtended
  <2>4. Extended(views, index + 1, View(d), views')
    BY <1>3, <2>1, <2>2, CutAndExtended
  <2>5. StackInv(I, d, stack', index + 1, views')
    <3>. HIDE DEF I
    <3>. QED  BY <1>1, <2>3, <2>4, PushOn
  <2>. QED  BY <1>1, <1>4, <1>6, <2>4, <2>5 DEF Stacked, Recorded
<1>. QED  BY <1>5, <1>6

\* A command that makes no event and moves none alone.
LEMMA PlainPush ==
  ASSUME Stacked, kinds' = kinds, NEW b, NEW cmd, Works(chart, cmd, Redo(b, cmd)),
         cmd.kind \notin {"event", "local"}, cmd.kind = "uncomment" => b = chart, Push(b, cmd)
  PROVE  Stacked' /\ Recorded
<1>. DEFINE d == Redo(b, cmd)
<1>1. Good(chart)
  BY DEF Stacked, StackInv, Traced
<1>2. Good(d) /\ RedoTo(chart, cmd, d) /\ UndoTo(d, cmd, chart) /\ Added(chart, cmd, d)
  BY DEF Works
<1>3. Leading(View(chart), cmd, View(d))
  <2>. HIDE DEF d
  <2>. QED  BY <1>1, <1>2, LeadsFrom DEF Leading
<1>4. \A e \in Events : Pair(chart, e) = Pair(chart, e) \/ (cmd.kind = "event" /\ cmd.e = e)
  OBVIOUS
<1>. QED  BY <1>1, <1>2, <1>3, <1>4, PushKeeps

\* What is new is not in the chart.
LEMMA NewIsNew ==
  ASSUME Stacked
  PROVE  /\ \A i : NewInstance(i) => i \notin Range(chart.instances)
         /\ \A e : NewEvent(e) /\ e \notin Comments
                     => /\ e \notin InChart(chart)
                        /\ \A k \in 1..index : stack[k].kind = "event" => stack[k].e # e
<1>1. /\ Len(views) = Len(stack) + 1 /\ index \in Nat /\ index <= Len(stack) /\ Len(stack) \in Nat
      /\ Good(chart) /\ View(chart) = views[index + 1]
  BY SizedParts DEF Stacked, StackInv, Traced
<1>2. index + 1 \in 1..Len(views) /\ (index + 1) - 1 = index
  BY <1>1
<1>3. Listed(views, index + 1) = InChart(chart) /\ views[index + 1].instances = chart.instances
  <2>1. DOMAIN View(chart).ends = InChart(chart) /\ View(chart).instances = chart.instances
    BY <1>1, ViewIs
  <2>. QED  BY <1>1, <2>1 DEF Listed
<1>4. /\ \A e \in InChart(chart) \ Comments : \E j \in 1..index : stack[j].kind = "event" /\ stack[j].e = e
      /\ \A i \in Range(chart.instances) \ Range(Start[kinds]) :
           \E j \in 1..index : stack[j].kind = "instance" /\ stack[j].i = i
  BY <1>2, <1>3 DEF Stacked, StackInv, Traced, Made
<1>. QED  BY <1>4 DEF NewInstance, NewEvent

\* A new event, with the ends it is given.
LEMMA RenewedIs ==
  ASSUME NEW c, Good(c), NEW e \in (Messages \cup Locals) \ InChart(c), NEW s \in Ends, NEW t \in Ends,
         e \in Locals => t = NoInstance
  PROVE  LET d == [WithEnds(c, e, s, t) EXCEPT !.slots[e] = 0]
         IN  /\ d.instances = c.instances /\ d.creator = c.creator
             /\ d.source[e] = s /\ d.target[e] = t
             /\ \A x \in Events \ {e} : Pair(d, x) = Pair(c, x)
             /\ InChart(d) = InChart(c)
             /\ Good(d) /\ View(d) = View(c)
<1>. DEFINE d == [WithEnds(c, e, s, t) EXCEPT !.slots[e] = 0]
<1>0. e \in Events /\ e \notin Comments /\ Shaped(c)
  BY KindsDiffer DEF Good
<1>1. /\ DOMAIN d = Fields /\ d.instances = c.instances /\ d.creator = c.creator /\ d.events = c.events
      /\ d.orphans = c.orphans /\ d.alive = c.alive
      /\ d.source = [c.source EXCEPT ![e] = s] /\ d.target = [c.target EXCEPT ![e] = t]
  BY <1>0 DEF WithEnds, Shaped, Fields
<1>. HIDE DEF d
<1>2. /\ d.source[e] = s /\ d.target[e] = t
      /\ \A x \in Events \ {e} : d.source[x] = c.source[x] /\ d.target[x] = c.target[x]
  BY <1>0, <1>1 DEF Shaped
<1>3. \A x \in Events \ {e} : Pair(d, x) = Pair(c, x)
  BY <1>2 DEF Pair
<1>4. InChart(d) = InChart(c)
  BY <1>1 DEF InChart
<1>5. Shaped(d)
  <2>1. d.source \in [Events -> Ends] /\ d.target \in [Events -> Ends]
    BY <1>0, <1>1 DEF Shaped
  <2>2. \A x \in Events \ Messages : d.target[x] = NoInstance
    BY <1>0, <1>2 DEF Shaped
  <2>3. \A x \in Comments : d.source[x] = NoInstance
    BY <1>0, <1>2, KindsDiffer DEF Shaped
  <2>. QED  BY <1>0, <1>1, <2>1, <2>2, <2>3 DEF Shaped
<1>6. Same(c, d)
  <2>1. InChart(c) \subseteq Events \ {e}
    BY <1>0, ShapedParts
  <2>. QED  BY <1>1, <1>3, <2>1 DEF Same
<1>7. Good(d)
  BY <1>5, <1>6, SameIsGood
<1>8. View(d) = View(c)
  BY <1>6, <1>7, SameIsView
<1>. QED  BY <1>1, <1>2, <1>3, <1>4, <1>7, <1>8 DEF d

LEMMA NewEventPush ==
  ASSUME Stacked, kinds' = kinds, NEW e \in Messages \cup Locals, NewEvent(e), NEW s \in Ends, NEW t \in Ends,
         e \in Locals => t = NoInstance,
         {s, t} \ {NoInstance} # {}, {s, t} \ {NoInstance} \subseteq Range(chart.instances),
         e \in Creates => ValidCreate(chart, s, t) /\ s # t,
         NEW at \in [{s, t} \ {NoInstance} -> Int],
         Push(Renewed(e, s, t), [kind |-> "event", e |-> e, at |-> at])
  PROVE  Stacked' /\ Recorded
<1>. DEFINE c == Renewed(e, s, t)
            cmd == [kind |-> "event", e |-> e, at |-> at]
            d == Redo(c, cmd)
<1>1. Good(chart) /\ e \notin Comments /\ e \in Events
  BY KindsDiffer DEF Stacked, StackInv, Traced
<1>2. e \notin InChart(chart) /\ \A k \in 1..index : stack[k].kind = "event" => stack[k].e # e
  BY <1>1, NewIsNew
<1>3. c = [WithEnds(chart, e, s, t) EXCEPT !.slots[e] = 0]
  BY DEF Renewed
<1>. HIDE DEF c
<1>4. /\ c.instances = chart.instances /\ c.creator = chart.creator
      /\ c.source[e] = s /\ c.target[e] = t
      /\ \A x \in Events \ {e} : Pair(c, x) = Pair(chart, x)
      /\ InChart(c) = InChart(chart)
      /\ Good(c) /\ View(c) = View(chart)
  BY <1>1, <1>2, <1>3, RenewedIs
<1>5. EndsOf(c, e) = {s, t} \ {NoInstance}
  BY <1>4 DEF EndsOf
<1>6. Comes(c, e) /\ FromInside(c, e)
  BY <1>2, <1>4, <1>5 DEF Comes, FromInside, ValidCreate
<1>7. Works(c, cmd, d)
  BY <1>4, <1>5, <1>6, EventWorks
<1>8. cmd.kind = "event" /\ cmd.e = e
  OBVIOUS
<1>9. Push(c, cmd)
  BY DEF c
<1>. HIDE DEF cmd
<1>10. Good(d) /\ RedoTo(c, cmd, d) /\ UndoTo(d, cmd, c) /\ Added(c, cmd, d)
  BY <1>7 DEF Works
<1>11. Leading(View(c), cmd, View(d))
  <2>. HIDE DEF d
  <2>. QED  BY <1>4, <1>8, <1>10, LeadsFrom DEF Leading
<1>12. \A x \in Events : Pair(c, x) = Pair(chart, x) \/ (cmd.kind = "event" /\ cmd.e = x)
  BY <1>4, <1>8
<1>. QED  BY <1>1, <1>2, <1>4, <1>8, <1>9, <1>10, <1>11, <1>12, PushKeeps

\* Each command of an exact session is one of those that work.
LEMMA CommandsKeep ==
  ASSUME Exact, Stacked, kinds' = kinds, Commands
  PROVE  Stacked' /\ Recorded
<1>1. Good(chart) /\ Shaped(chart)
  BY DEF Stacked, StackInv, Traced, Good
<1>2. /\ Range(chart.instances) \subseteq Instances /\ InChart(chart) \subseteq Events
      /\ Range(chart.orphans) \subseteq InChart(chart)
  BY <1>1, ShapedParts, InChartIs
<1>3. ASSUME NEW i \in Instances, NEW pos \in -1..Len(chart.instances), PushInstance(i, pos)
      PROVE  Stacked' /\ Recorded
  <2>. DEFINE cmd == [kind |-> "instance", i |-> i, pos |-> pos]
  <2>1. i \notin Range(chart.instances) /\ pos \in Int
    BY <1>3, NewIsNew DEF PushInstance
  <2>2. Works(chart, cmd, Redo(chart, cmd))
    BY <1>1, <2>1, InstanceWorks
  <2>3. Push(chart, cmd) /\ cmd.kind \notin {"event", "local"}
    BY <1>3 DEF PushInstance
  <2>. QED  BY <2>2, <2>3, PlainPush
<1>4. ASSUME NEW e \in Locals, NEW i \in Instances, NEW pos, PushLocal(e, i, pos)
      PROVE  Stacked' /\ Recorded
  <2>1. NewEvent(e) /\ i \in Range(chart.instances) /\ pos \in Int
    BY <1>1, <1>4, DropsFit DEF PushLocal, InstancesIn
  <2>2. {i, NoInstance} \ {NoInstance} = {i} /\ i \in Ends /\ NoInstance \in Ends /\ e \notin Creates
    BY KindsDiffer
  <2>3. AtOnly(i, pos) \in [{i} -> Int]
    BY <2>1 DEF AtOnly
  <2>4. Push(Renewed(e, i, NoInstance), [kind |-> "event", e |-> e, at |-> AtOnly(i, pos)])
    BY <1>4 DEF PushLocal
  <2>. QED  BY <2>1, <2>2, <2>3, <2>4, NewEventPush
<1>5. ASSUME NEW e \in Messages, NewEvent(e), NEW s \in Ends, NEW t \in Ends, NEW at, PushMessage(e, s, t, at)
      PROVE  Stacked' /\ Recorded
  <2>1. /\ s # t /\ {s, t} \subseteq Range(chart.instances) \cup {NoInstance}
        /\ e \in Creates => ValidCreate(chart, s, t)
        /\ at \in Placements(chart, e, {s, t} \ {NoInstance})
        /\ Push(Renewed(e, s, t), [kind |-> "event", e |-> e, at |-> at])
    BY <1>5 DEF PushMessage, InstancesIn
  <2>2. at \in [{s, t} \ {NoInstance} -> Int]
    <3>1. \A i \in {s, t} \ {NoInstance} : at[i] \in Int
      BY <1>1, <2>1, DropsFit DEF Placements
    <3>2. at = [i \in {s, t} \ {NoInstance} |-> at[i]]
      BY <2>1 DEF Placements
    <3>. QED  BY <3>1, <3>2
  <2>3. e \notin Locals /\ {s, t} \ {NoInstance} # {} /\ {s, t} \ {NoInstance} \subseteq Range(chart.instances)
    BY <2>1, KindsDiffer
  <2>. QED  BY <1>5, <2>1, <2>2, <2>3, NewEventPush
<1>6. ASSUME NEW e \in Comments, PushComment(e)  PROVE Stacked' /\ Recorded
  <2>. DEFINE cmd == [kind |-> "comment", e |-> e, at |-> NoPlace]
  <2>1. e \notin Range(chart.orphans) /\ Push(chart, cmd) /\ cmd.kind \notin {"event", "local"}
    BY <1>6 DEF PushComment, NoPlace
  <2>2. Works(chart, cmd, Redo(chart, cmd))
    BY <1>1, <2>1, CommentWorks
  <2>. QED  BY <2>1, <2>2, PlainPush
<1>7. ASSUME NEW e \in Comments, PushUncomment(e)  PROVE Stacked' /\ Recorded
  <2>. DEFINE cmd == [kind |-> "uncomment", e |-> e, at |-> NoPlace]
  <2>1. e \in Range(chart.orphans) /\ Push(chart, cmd) /\ cmd.kind \notin {"event", "local"}
    BY <1>7 DEF PushUncomment, NoPlace
  <2>2. Works(chart, cmd, Redo(chart, cmd))
    BY <1>1, <2>1, UncommentWorks
  <2>. QED  BY <2>1, <2>2, PlainPush
<1>8. ASSUME NEW e \in Locals, NEW i \in Instances, NEW pos, MoveLocal(e, i, pos)
      PROVE  Stacked' /\ Recorded
  <2>. DEFINE s == chart.source[e]
              cmd == [kind |-> "local", e |-> e, new |-> <<i, pos>>, old |-> <<s, IndexOf(chart.events[s], e)>>]
              d == Redo(chart, cmd)
  <2>1. e \in InChart(chart) /\ i \in Range(chart.instances) /\ pos \in DropPositions(chart, e, i) /\ Push(chart, cmd)
    BY <1>8 DEF MoveLocal, InstancesIn
  <2>2. Good(d) /\ LocalLeads(View(chart), cmd, View(d)) /\ Added(chart, cmd, d)
    BY <1>1, <2>1, LocalWorks
  <2>3. cmd.kind = "local"
    OBVIOUS
  <2>. HIDE DEF cmd
  <2>4. Leading(View(chart), cmd, View(d))
    BY <2>2, LocalLeadsThere DEF Leading
  <2>5. \A x \in Events : Pair(chart, x) = Pair(chart, x) \/ (cmd.kind = "event" /\ cmd.e = x)
    OBVIOUS
  <2>. QED  BY <1>1, <2>1, <2>2, <2>3, <2>4, <2>5, PushKeeps
<1>9. ASSUME NEW e \in Messages, NEW at, MoveMessage(e, at)  PROVE Stacked' /\ Recorded
  <2>. DEFINE cmd == [kind |-> "points", e |-> e, new |-> at, old |-> IndicesOfEvent(chart, e)]
  <2>1. /\ e \in InChart(chart) /\ at \in Placements(chart, e, EndsOf(chart, e))
        /\ Push(chart, cmd) /\ cmd.kind \notin {"event", "local"}
    BY <1>9 DEF MoveMessage
  <2>2. e \in InChart(chart) \ Comments /\ EndsOf(chart, e) \subseteq Range(chart.instances)
    BY <1>1, <2>1, KindsDiffer, OnLines
  <2>3. \A i \in EndsOf(chart, e) : at[i] \in Int /\ InsertDefined(RemoveAll(chart.events[i], e), at[i])
    BY <1>1, <2>1, <2>2, DropsFit DEF Placements
  <2>4. at \in [EndsOf(chart, e) -> Int]
    <3>1. at = [i \in EndsOf(chart, e) |-> at[i]]
      BY <2>1 DEF Placements
    <3>. QED  BY <2>3, <3>1
  <2>5. Works(chart, cmd, Redo(chart, cmd))
    BY <1>1, <2>2, <2>3, <2>4, PointsWorks
  <2>. QED  BY <2>1, <2>5, PlainPush
<1>10. ASSUME NEW i \in Instances, NEW pos, MoveInstance(i, pos)  PROVE Stacked' /\ Recorded
  <2>. DEFINE cmd == [kind |-> "order", i |-> i, to |-> pos, from |-> IndexOf(chart.instances, i)]
  <2>1. /\ i \in Range(chart.instances) /\ pos \in 0..(Len(chart.instances) - 1)
        /\ Push(chart, cmd) /\ cmd.kind \notin {"event", "local"}
    BY <1>10 DEF MoveInstance, InstancesIn
  <2>2. Works(chart, cmd, Redo(chart, cmd))
    BY <1>1, <2>1, OrderWorks
  <2>. QED  BY <2>1, <2>2, PlainPush
<1>11. ASSUME NEW e \in Events, Plain({e}), DeleteEvent(e)  PROVE Stacked' /\ Recorded
  <2>. DEFINE cmd == [kind |-> "delete", i |-> NoInstance, pos |-> -1, gone |-> {e},
                      events |-> chart.events, orphans |-> chart.orphans]
  <2>1. {e} \cup CommentsOn({e}) = {e} /\ e \notin Creates
    BY <1>11 DEF Plain
  <2>2. e \in InChart(chart) \ Comments /\ Push(chart, cmd) /\ cmd.kind \notin {"event", "local"}
    BY <1>11, <2>1 DEF DeleteEvent, Deletion
  <2>3. Works(chart, cmd, Redo(chart, cmd))
    BY <1>1, <2>1, <2>2, DeleteEventWorks
  <2>. QED  BY <2>2, <2>3, PlainPush
<1>12. ASSUME NEW i \in Instances, Plain(MessagesOf(chart, {i})), DeleteInstance(i)  PROVE Stacked' /\ Recorded
  <2>. DEFINE E == MessagesOf(chart, {i})
              b == RemoveInstance(chart, i)
              cmd == [kind |-> "delete", i |-> i, pos |-> IndexOf(chart.instances, i), gone |-> E,
                      events |-> chart.events, orphans |-> chart.orphans]
  <2>1. E \cup CommentsOn(E) = E /\ E \cap Creates = {}
    BY <1>12 DEF Plain
  <2>2. i \in Range(chart.instances) /\ Push(b, cmd) /\ cmd.kind \notin {"event", "local", "uncomment"}
    BY <1>12, <2>1 DEF DeleteInstance, Deletion, InstancesIn
  <2>3. Works(chart, cmd, Redo(b, cmd))
    BY <1>1, <2>1, <2>2, DeleteInstanceWorks
  <2>. HIDE DEF b, cmd
  <2>. QED  BY <2>2, <2>3, PlainPush
<1>13. "resize" \notin kinds /\ "deleteAny" \notin kinds
  BY DEF Exact
<1>. QED
  <2>1. CASE \E i \in Instances, pos \in -1..Len(chart.instances) : PushInstance(i, pos)
    BY <1>3, <2>1
  <2>2. CASE \E e \in Locals, i \in Instances, pos \in 0..Cardinality(Events) : PushLocal(e, i, pos)
    BY <1>4, <2>2
  <2>3. CASE \E e \in {m \in Messages : NewEvent(m)}, s, t \in Ends :
               \E at \in Placements(chart, e, {s, t} \ {NoInstance}) : PushMessage(e, s, t, at)
    BY <1>5, <2>3
  <2>4. CASE \E e \in Comments : PushComment(e) \/ PushUncomment(e)
    BY <1>6, <1>7, <2>4
  <2>5. CASE \E e \in Locals, i \in Instances, pos \in 0..Cardinality(Events) : MoveLocal(e, i, pos)
    BY <1>8, <2>5
  <2>6. CASE \E e \in Messages \ Creates : \E at \in Placements(chart, e, EndsOf(chart, e)) : MoveMessage(e, at)
    BY <1>9, <2>6
  <2>7. CASE \E i \in Instances, pos \in 0..Cardinality(Instances) : MoveInstance(i, pos)
    BY <1>10, <2>7
  <2>8. CASE \E e \in Events : Plain({e}) /\ DeleteEvent(e)
    BY <1>11, <2>8
  <2>9. CASE \E i \in Instances : Plain(MessagesOf(chart, {i})) /\ DeleteInstance(i)
    BY <1>12, <2>9
  <2>. QED  BY <1>13, <2>1, <2>2, <2>3, <2>4, <2>5, <2>6, <2>7, <2>8, <2>9 DEF Commands
-------------------------------------------------------------------------------
(* The inductive invariant, and what follows from it.                           *)

\* No copy of a list is outdated: where comments are made nothing is deleted.
Fresh ==
  /\ outdated = {}
  /\ \A k \in 1..Len(stack) : stack[k].kind \in {"comment", "delete"} => stack[k].kind \in kinds

UndoInv == kinds \in Sessions /\ (Exact => Stacked /\ Fresh)

LEMMA NoKeepers ==
  ASSUME Exact, Fresh, "comment" \in kinds, NEW n, n \in 0..Len(stack), NEW E
  PROVE  Keepers(n, E) = {}
<1>1. "delete" \notin kinds
  BY DEF Exact
<1>2. \A k \in 1..n : stack[k].kind # "delete"
  <2>1. \A k \in 1..n : k \in 1..Len(stack)
    BY LenProperties
  <2>. QED  BY <1>1, <2>1 DEF Fresh
<1>. QED  BY <1>2 DEF Keepers

\* The commands pushed are of the kinds of the session.
LEMMA CommandsPush ==
  ASSUME Exact, Commands
  PROVE  \E b, cmd : Push(b, cmd) /\ (cmd.kind \in {"comment", "delete"} => cmd.kind \in kinds)
<1>. DEFINE Fits_(cmd) == cmd.kind \in {"comment", "delete"} => cmd.kind \in kinds
            Pushes == \E b, cmd : Push(b, cmd) /\ Fits_(cmd)
<1>1. ASSUME NEW i, NEW pos, PushInstance(i, pos)  PROVE Pushes
  BY <1>1 DEF PushInstance
<1>2. ASSUME NEW e, NEW i, NEW pos, PushLocal(e, i, pos)  PROVE Pushes
  BY <1>2 DEF PushLocal
<1>3. ASSUME NEW e, NEW s, NEW t, NEW at, PushMessage(e, s, t, at)  PROVE Pushes
  BY <1>3 DEF PushMessage
<1>4. ASSUME NEW e, "comment" \in kinds, PushComment(e) \/ PushUncomment(e)  PROVE Pushes
  BY <1>4 DEF PushComment, PushUncomment
<1>5. ASSUME NEW e, NEW i, NEW pos, MoveLocal(e, i, pos)  PROVE Pushes
  BY <1>5 DEF MoveLocal
<1>6. ASSUME NEW e, NEW at, MoveMessage(e, at)  PROVE Pushes
  BY <1>6 DEF MoveMessage
<1>7. ASSUME NEW i, NEW pos, MoveInstance(i, pos)  PROVE Pushes
  BY <1>7 DEF MoveInstance
<1>8. ASSUME NEW e, "delete" \in kinds, DeleteEvent(e)  PROVE Pushes
  BY <1>8 DEF DeleteEvent, Deletion
<1>9. ASSUME NEW i, "delete" \in kinds, DeleteInstance(i)  PROVE Pushes
  BY <1>9 DEF DeleteInstance, Deletion
<1>. HIDE DEF Pushes
<1>10. "resize" \notin kinds /\ "deleteAny" \notin kinds
  BY DEF Exact
<1>11. Pushes
  BY <1>1, <1>2, <1>3, <1>4, <1>5, <1>6, <1>7, <1>8, <1>9, <1>10 DEF Commands
<1>. QED  BY <1>11 DEF Pushes

LEMMA PushFresh ==
  ASSUME Exact, Stacked, Fresh, kinds' = kinds, NEW b, NEW cmd, Push(b, cmd),
         cmd.kind \in {"comment", "delete"} => cmd.kind \in kinds
  PROVE  Fresh'
<1>. DEFINE done == SubSeq(stack, 1, index)
            joins == index > 0 /\ index # (IF clean > index THEN -1 ELSE clean) /\ CanMerge(stack[index], cmd)
<1>1. /\ index \in 0..Len(stack) /\ Len(stack) \in Nat /\ \E S : stack \in Seq(S)
  BY SizedParts DEF Stacked, StackInv, Traced, Sized
<1>2. /\ stack' = IF joins THEN [done EXCEPT ![index] = Merged(@, cmd)] ELSE Append(done, cmd)
      /\ outdated' = OutdatedBy(index, cmd, joins)
  BY DEF Push
<1>3. CASE joins
  <2>0. index \in 1..Len(stack) /\ CanMerge(stack[index], cmd)
    BY <1>1, <1>3
  <2>1. done[index] = stack[index]
    <3>1. PICK S : stack \in Seq(S)
      BY <1>1
    <3>2. \A k \in 1..index : stack[k] \in S
      BY <1>1, <3>1, ElementOfSeq
    <3>3. \A k \in 1..(index - 1 + 1) : done[k] = stack[1 + k - 1]
      BY <1>1, <3>1, <3>2, SubSeqProperties
    <3>. HIDE DEF done
    <3>. QED  BY <1>1, <2>0, <3>3
  <2>2. stack' = [done EXCEPT ![index] = Merged(stack[index], cmd)]
    <3>. HIDE DEF done, joins
    <3>. QED  BY <1>2, <1>3, <2>1
  <2>3. Extended(stack, index - 1, Merged(stack[index], cmd), stack')
    BY <1>1, <2>0, <2>2, CutAndReplaced
  <2>4. LET m == Merged(stack[index], cmd)
        IN  m.kind \in {"comment", "delete"} => m.kind \in kinds
    <3>1. CASE stack[index].kind = "local" /\ cmd.kind = "local"
      <4>1. Leading(views[index], stack[index], views[index + 1])
        BY <2>0 DEF Stacked, StackInv, Steps
      <4>2. DOMAIN stack[index] = {"kind", "e", "new", "old"}
        BY <3>1, <4>1 DEF Leading, LocalLeads
      <4>3. Merged(stack[index], cmd) = [stack[index] EXCEPT !.new = cmd.new]
        BY <3>1 DEF Merged
      <4>4. [stack[index] EXCEPT !.new = cmd.new].kind = stack[index].kind
        BY <4>2
      <4>. QED  BY <3>1, <4>3, <4>4
    <3>2. CASE cmd.kind = "uncomment" \/ cmd.kind = "comment"
      BY <3>2 DEF Merged
    <3>. QED  BY <2>0, <3>1, <3>2 DEF CanMerge
  <2>5. outdated' = {}
    <3>1. cmd.kind = "uncomment" => Keepers(index, {cmd.e}) = {}
      <4>1. cmd.kind = "uncomment" => stack[index].kind = "comment"
        BY <2>0 DEF CanMerge
      <4>2. cmd.kind = "uncomment" => "comment" \in kinds
        BY <2>0, <4>1 DEF Fresh
      <4>. QED  BY <1>1, <4>2, NoKeepers
    <3>. HIDE DEF joins
    <3>. QED  BY <1>2, <3>1 DEF OutdatedBy, Fresh
  <2>. HIDE DEF done, joins
  <2>. QED  BY <1>1, <2>0, <2>3, <2>4, <2>5 DEF Fresh, Extended
<1>4. CASE ~joins
  <2>1. stack' = Append(SubSeq(stack, 1, index), cmd)
    BY <1>2, <1>4
  <2>2. Extended(stack, index, cmd, stack')
    BY <1>1, <2>1, CutAndExtended
  <2>3. outdated' = {}
    <3>. HIDE DEF joins
    <3>. QED  BY <1>2, <1>4 DEF OutdatedBy, Fresh
  <2>. HIDE DEF done, joins
  <2>. QED  BY <1>1, <2>2, <2>3 DEF Fresh, Extended
<1>. QED  BY <1>3, <1>4

LEMMA UndoFresh ==
  ASSUME Exact, Stacked, Fresh, kinds' = kinds, UndoOne
  PROVE  Fresh' /\ chart' = Undo(chart, stack[index])
<1>1. index \in 1..Len(stack) /\ Len(stack) \in Nat
  BY SizedParts DEF Stacked, StackInv, Traced, Sized, UndoOne
<1>2. chart' = Undo(chart, stack[index])
  BY DEF UndoOne, Fresh
<1>3. stack[index].kind = "comment" => Keepers(Len(stack), {stack[index].e}) = {}
  <2>1. stack[index].kind = "comment" => "comment" \in kinds
    BY <1>1 DEF Fresh
  <2>2. Len(stack) \in 0..Len(stack)
    BY <1>1
  <2>. QED  BY <2>1, <2>2, NoKeepers
<1>4. outdated' = {} /\ stack' = stack
  BY <1>3 DEF UndoOne, Fresh
<1>. QED  BY <1>2, <1>4 DEF Fresh

\* The chart of the file, with nothing done.
LEMMA TraceStarts ==
  ASSUME NEW I, NEW c, Bare(c, I), NEW vs, vs = <<View(c)>>
  PROVE  Traced(I, c, << >>, 0, vs)
<1>1. Good(c) /\ InChart(c) = {} /\ Range(c.instances) = I
  BY DEF Bare
<1>2. Listed(vs, 1) = {} /\ vs[1].instances = c.instances
  <2>1. DOMAIN View(c).ends = InChart(c) /\ View(c).instances = c.instances
    BY <1>1, ViewIs
  <2>. QED  BY <1>1, <2>1 DEF Listed
<1>3. Len(vs) = 1 /\ Len(<< >>) = 0
  OBVIOUS
<1>4. Sized(<< >>, 0, vs)
  <2>1. << >> \in Seq({}) /\ vs \in Seq({View(c)})
    OBVIOUS
  <2>2. \A k \in 1..Len(vs) : Listed(vs, k) \subseteq Events
    <3>1. \A k \in 1..1 : k = 1
      OBVIOUS
    <3>. QED  BY <1>2, <1>3, <3>1
  <2>3. 0 \in 0..Len(<< >>) /\ Len(vs) = Len(<< >>) + 1
    BY <1>3
  <2>. QED  BY <2>1, <2>2, <2>3 DEF Sized
<1>5. Once(vs) /\ Hidden(c, 0, vs)
  BY <1>3 DEF Once, Hidden
<1>6. Made(I, << >>, vs)
  BY <1>1, <1>2, <1>3 DEF Made
<1>7. View(c) = vs[0 + 1]
  OBVIOUS
<1>. QED  BY <1>1, <1>4, <1>5, <1>6, <1>7 DEF Traced

LEMMA UndoInvInit ==
  ASSUME Init
  PROVE  UndoInv /\ index = 0 /\ Stacked
<1>1. /\ chart = AddAll(Start[kinds]) /\ stack = << >> /\ index = 0 /\ views = <<View(chart)>>
      /\ kinds \in Sessions
  BY DEF Init
<1>2. Start[kinds] \in Seq(Instances)
  BY <1>1, UndoAssumption DEF UndoAssumption
<1>3. Bare(chart, Range(Start[kinds]))
  BY <1>1, <1>2, FileIsBare
<1>4. Traced(Range(Start[kinds]), chart, stack, index, views)
  BY <1>1, <1>3, TraceStarts
<1>5. Steps(stack, views)
  BY <1>1 DEF Steps
<1>6. Fresh
  BY <1>1 DEF Init, Fresh
<1>. QED  BY <1>1, <1>4, <1>5, <1>6 DEF UndoInv, Stacked, StackInv

LEMMA UndoOneKeeps ==
  ASSUME Stacked, kinds' = kinds, UndoOne, chart' = Undo(chart, stack[index])
  PROVE  Stacked'
<1>1. StackInv(Range(Start[kinds]), Undo(chart, stack[index]), stack, index - 1, views)
  BY StepBack DEF Stacked, UndoOne
<1>. QED  BY <1>1 DEF Stacked, UndoOne

LEMMA RedoOneKeeps ==
  ASSUME Stacked, kinds' = kinds, RedoOne
  PROVE  Stacked'
<1>1. StackInv(Range(Start[kinds]), Redo(chart, stack[index + 1]), stack, index + 1, views)
  BY StepOn DEF Stacked, RedoOne
<1>. QED  BY <1>1 DEF Stacked, RedoOne

LEMMA UndoInvNext ==
  ASSUME UndoInv, [Next]_vars
  PROVE  UndoInv'
<1>1. CASE UNCHANGED vars
  BY <1>1 DEF vars, UndoInv, Stacked, Exact, Fresh
<1>2. CASE Next
  <2>1. kinds' = kinds /\ (Exact' <=> Exact) /\ kinds' \in Sessions
    BY <1>2 DEF Next, Exact, UndoInv
  <2>. SUFFICES ASSUME Exact, Stacked, Fresh  PROVE Stacked' /\ Fresh'
    BY <2>1 DEF UndoInv
  <2>2. CASE Commands
    <3>1. PICK b, cmd : Push(b, cmd) /\ (cmd.kind \in {"comment", "delete"} => cmd.kind \in kinds)
      BY <2>2, CommandsPush
    <3>. QED  BY <2>1, <2>2, <3>1, CommandsKeep, PushFresh
  <2>3. CASE UndoOne
    BY <2>1, <2>3, UndoOneKeeps, UndoFresh
  <2>4. CASE RedoOne
    <3>1. Fresh'
      BY <2>1, <2>4 DEF RedoOne, Fresh
    <3>. QED  BY <2>1, <2>4, <3>1, RedoOneKeeps
  <2>5. ASSUME NEW ok \in SaveOutcomes, Save(ok)  PROVE Stacked' /\ Fresh'
    BY <2>1, <2>5 DEF Stacked, Save, Fresh
  <2>. QED  BY <1>2, <2>2, <2>3, <2>4, <2>5 DEF Next
<1>. QED  BY <1>1, <1>2

\* In an exact session the stack's invariant always holds.
THEOREM StackHolds == Spec => []UndoInv
<1>1. Init => UndoInv
  BY UndoInvInit
<1>2. UndoInv /\ [Next]_vars => UndoInv'
  BY UndoInvNext
<1>. QED  BY <1>1, <1>2, PTL DEF Spec

\* Whatever an exact session does, undoes and does again, its charts are in order: what
\* is on a lifeline is what points to it, and nothing undefined happens.
THEOREM PointersStayMatched == Spec => [](Exact => PointersMatchLists)
<1>1. UndoInv => (Exact => PointersMatchLists)
  <2>. SUFFICES ASSUME Good(chart), NEW e \in InChart(chart) \ Shared, NEW i \in Instances
                PROVE  RelatesTo(chart, e, i) <=> i \in InstancesIn /\ e \in Range(Lifeline(chart, i))
    BY DEF UndoInv, Stacked, StackInv, Traced, PointersMatchLists
  <2>1. Shaped(chart) /\ DOMAIN chart.events = InstancesIn /\ e \in Events /\ i # NoInstance
    BY ShapedParts, KindsDiffer DEF Good, InstancesIn
  <2>2. CASE e \in Comments
    <3>1. ~RelatesTo(chart, e, i)
      BY <2>2, KindsDiffer DEF RelatesTo
    <3>2. \A j \in DOMAIN chart.events : e \notin Range(chart.events[j])
      BY <2>2, KindsDiffer DEF Good, ListsAgree
    <3>. QED  BY <2>1, <3>1, <3>2 DEF Lifeline
  <2>3. CASE e \notin Comments
    <3>1. /\ e \in Messages \cup Locals /\ EndsOf(chart, e) \subseteq InstancesIn
          /\ \A j \in InstancesIn : e \in Range(chart.events[j]) <=> j \in EndsOf(chart, e)
      BY <2>3, OnLines DEF InstancesIn
    <3>2. e \notin Messages => chart.target[e] = NoInstance
      BY <2>1 DEF Shaped
    <3>3. RelatesTo(chart, e, i) <=> i \in EndsOf(chart, e)
      BY <2>1, <3>1, <3>2 DEF RelatesTo, EndsOf
    <3>. QED  BY <2>1, <3>1, <3>3 DEF Lifeline
  <2>. QED  BY <2>2, <2>3
<1>. QED  BY <1>1, StackHolds, PTL

THEOREM StepsStayDefined == Spec => [](Exact => DefinedSteps)
<1>1. UndoInv => (Exact => DefinedSteps)
  BY DEF UndoInv, Stacked, StackInv, Traced, Good, Shaped, DefinedSteps
<1>. QED  BY <1>1, StackHolds, PTL
-------------------------------------------------------------------------------
(* What the file holds.                                                         *)

CleanInv ==
  Exact => /\ clean \in Int /\ clean <= Len(stack)
           /\ clean >= 0 => saved = views[clean + 1]

LEMMA CleanInvNext ==
  ASSUME SaveOutcomes \subseteq {TRUE}, UndoInv, CleanInv, [Next]_vars
  PROVE  CleanInv'
<1>1. CASE UNCHANGED vars
  BY <1>1 DEF vars, CleanInv, Exact
<1>2. CASE Next
  <2>1. kinds' = kinds /\ (Exact' <=> Exact)
    BY <1>2 DEF Next, Exact
  <2>. SUFFICES ASSUME Exact, Stacked, clean \in Int, clean <= Len(stack),
                       clean >= 0 => saved = views[clean + 1]
                PROVE  /\ clean' \in Int /\ clean' <= Len(stack')
                       /\ clean' >= 0 => saved' = views'[clean' + 1]
    BY <2>1 DEF UndoInv, CleanInv
  <2>2. /\ Len(stack) \in Nat /\ index \in Nat /\ index <= Len(stack)
        /\ View(chart) = views[index + 1]
    BY SizedParts DEF Stacked, StackInv, Traced
  <2>3. CASE Commands
    <3>1. Stacked' /\ Recorded
      BY <2>1, <2>3, CommandsKeep
    <3>2. Len(stack') \in Nat /\ index' <= Len(stack')
      <4>1. Sized(stack', index', views')
        BY <3>1 DEF Stacked, StackInv, Traced
      <4>. QED  BY <4>1, SizedParts
    <3>3. clean' = (IF clean > index THEN -1 ELSE clean) /\ saved' = saved
      BY <3>1 DEF Recorded
    <3>4. CASE index' = index + 1 /\ Extended(views, index + 1, View(chart'), views')
      BY <2>2, <3>2, <3>3, <3>4 DEF Extended
    <3>5. CASE index' = index /\ index > 0 /\ index # clean' /\ Extended(views, index, View(chart'), views')
      BY <2>2, <3>2, <3>3, <3>5 DEF Extended
    <3>. QED  BY <3>1, <3>4, <3>5 DEF Recorded
  <2>4. CASE UndoOne \/ RedoOne
    BY <2>4 DEF UndoOne, RedoOne
  <2>5. ASSUME NEW ok \in SaveOutcomes, Save(ok)
        PROVE  clean' = index /\ saved' = View(chart) /\ stack' = stack /\ views' = views
    BY <2>5 DEF Save
  <2>. QED  BY <1>2, <2>2, <2>3, <2>4, <2>5 DEF Next
<1>. QED  BY <1>1, <1>2

\* Where saving works, the file holds the chart whenever the stack is clean, however
\* far it was undone and done again since, and though commands join.
THEOREM CleanStaysSaved ==
  ASSUME SaveOutcomes \subseteq {TRUE}
  PROVE  Spec => []CleanIsSaved
<1>1. Init => CleanInv
  <2>. SUFFICES ASSUME Init  PROVE CleanInv
    OBVIOUS
  <2>1. clean = 0 /\ stack = << >> /\ views = <<saved>>
    BY DEF Init
  <2>2. Len(stack) = 0 /\ views[clean + 1] = saved
    BY <2>1
  <2>. QED  BY <2>1, <2>2 DEF CleanInv
<1>2. UndoInv /\ CleanInv /\ [Next]_vars => CleanInv'
  BY CleanInvNext
<1>3. UndoInv /\ CleanInv => CleanIsSaved
  <2>. SUFFICES ASSUME Exact, Stacked, clean >= 0 => saved = views[clean + 1], clean = index
                PROVE  View(chart) = saved
    BY DEF UndoInv, CleanInv, CleanIsSaved
  <2>1. index \in Nat /\ View(chart) = views[index + 1]
    BY SizedParts DEF Stacked, StackInv, Traced
  <2>. QED  BY <2>1
<1>. QED  BY <1>1, <1>2, <1>3, StackHolds, PTL DEF Spec
-------------------------------------------------------------------------------
(* The refinement.                                                              *)

LEMMA OneMore ==
  ASSUME NEW S, NEW s \in Seq(S), NEW n \in 0..(Len(s) - 1)
  PROVE  SubSeq(s, 1, n + 1) = Append(SubSeq(s, 1, n), s[n + 1])
<1>1. n + 1 \in 1..Len(s) /\ 1 \in 1..Len(s) /\ n + 1 - 1 = n /\ Len(s) \in Nat
  BY LenProperties
<1>2. SubSeq(s, 1, n + 1) = SubSeq(s, 1, n + 1 - 1) \o <<s[n + 1]>>
  BY <1>1, SubSeqRecursiveSecond
<1>3. SubSeq(s, 1, n) \in Seq(S) /\ s[n + 1] \in S
  <2>1. \A k \in 1..n : s[k] \in S
    BY <1>1, ElementOfSeq
  <2>. QED  BY <1>1, <2>1, SubSeqProperties, ElementOfSeq
<1>4. Append(SubSeq(s, 1, n), s[n + 1]) = SubSeq(s, 1, n) \o <<s[n + 1]>>
  BY <1>3, AppendIsConcat
<1>. QED  BY <1>1, <1>2, <1>4

LEMMA SamePrefix ==
  ASSUME NEW S, NEW s \in Seq(S), NEW T, NEW t \in Seq(T), NEW n \in Nat, n <= Len(s), n <= Len(t),
         \A k \in 1..n : s[k] = t[k]
  PROVE  SubSeq(s, 1, n) = SubSeq(t, 1, n)
<1>. DEFINE a == SubSeq(s, 1, n)
            b == SubSeq(t, 1, n)
<1>1. \A k \in 1..n : s[k] \in S /\ t[k] \in S
  BY ElementOfSeq, LenProperties
<1>2. n - 1 + 1 = n /\ (1 > n => n = 0)
  OBVIOUS
<1>3. a \in Seq(S) /\ Len(a) = n /\ \A k \in 1..n : a[k] = s[1 + k - 1]
  BY <1>1, <1>2, SubSeqProperties
<1>4. b \in Seq(S) /\ Len(b) = n /\ \A k \in 1..n : b[k] = t[1 + k - 1]
  BY <1>1, <1>2, SubSeqProperties
<1>. HIDE DEF a, b
<1>5. \A k \in 1..n : a[k] = b[k]
  BY <1>3, <1>4
<1>6. a = b
  BY <1>3, <1>4, <1>5, SeqEqual
<1>. QED  BY <1>6 DEF a, b

LEMMA PastIs ==
  ASSUME NEW S, NEW s \in Seq(S), NEW n \in 1..Len(s)
  PROVE  LET p == SubSeq(s, 1, n)
         IN  p # << >> /\ Last(p) = s[n] /\ Front(p) = SubSeq(s, 1, n - 1)
<1>. DEFINE p == SubSeq(s, 1, n)
            q == SubSeq(s, 1, n - 1)
<1>1. \A k \in 1..n : s[k] \in S
  BY ElementOfSeq, LenProperties
<1>2. n - 1 + 1 = n /\ n >= 1 /\ n \in Nat /\ 1 + n - 1 = n /\ n - 1 \in Nat
  BY LenProperties
<1>3. p \in Seq(S) /\ Len(p) = n /\ \A k \in 1..n : p[k] = s[1 + k - 1]
  BY <1>1, <1>2, SubSeqProperties
<1>. HIDE DEF p
<1>4. p # << >> /\ p[n] = s[n]
  BY <1>2, <1>3
<1>5. SubSeq(p, 1, n - 1) = q
  BY <1>2, <1>3, SamePrefix
<1>. QED  BY <1>3, <1>4, <1>5 DEF p, Last, Front

LEMMA FutureIs ==
  ASSUME NEW S, NEW s \in Seq(S), NEW n \in 1..Len(s)
  PROVE  LET f == SubSeq(s, n, Len(s))
         IN  /\ f # << >> /\ Head(f) = s[n] /\ Tail(f) = SubSeq(s, n + 1, Len(s))
             /\ f = Cons(s[n], SubSeq(s, n + 1, Len(s)))
<1>1. Len(s) \in Nat /\ Len(s) \in n..Len(s) /\ n <= Len(s) /\ n \in Nat
  BY LenProperties
<1>2. Head(SubSeq(s, n, Len(s))) = s[n] /\ Tail(SubSeq(s, n, Len(s))) = SubSeq(s, n + 1, Len(s))
  BY <1>1, HeadTailOfSubSeq
<1>3. SubSeq(s, n, Len(s)) = <<s[n]>> \o SubSeq(s, n + 1, Len(s))
  BY <1>1, SubSeqRecursiveFirst
<1>4. SubSeq(s, n, Len(s)) # << >>
  <2>1. \A k \in n..Len(s) : s[k] \in S
    BY <1>1, ElementOfSeq
  <2>2. Len(SubSeq(s, n, Len(s))) = Len(s) - n + 1 /\ Len(s) - n + 1 > 0
    BY <1>1, <2>1, SubSeqProperties
  <2>. QED  BY <1>1, <2>2
<1>. QED  BY <1>2, <1>3, <1>4 DEF Cons

\* What each step is to the history.
Before == SubSeq(views, 1, index)
After == SubSeq(views, index + 2, Len(views))

LEMMA PushIsDone ==
  ASSUME Stacked, Stacked', Recorded
  PROVE  /\ After' = << >>
         /\ Before' = Append(Before, View(chart)) \/ (Before # << >> /\ Before' = Before)
<1>1. /\ Len(views) \in Nat /\ index \in Nat /\ index <= Len(views) - 1 /\ View(chart) = views[index + 1]
  BY SizedParts DEF Stacked, StackInv, Traced
<1>2. PICK S : views \in Seq(S)
  BY DEF Stacked, StackInv, Traced, Sized
<1>3. PICK T : views' \in Seq(T)
  BY DEF Recorded, Extended
<1>4. CASE index' = index + 1 /\ Extended(views, index + 1, View(chart'), views')
  <2>1. Len(views') = index + 2 /\ \A k \in 1..(index + 1) : views'[k] = views[k]
    BY <1>1, <1>4 DEF Extended
  <2>2. After' = SubSeq(views', index + 3, index + 2)
    BY <1>1, <1>4, <2>1 DEF After
  <2>3. After' = << >>
    BY <1>1, <2>2, SubSeqEmpty
  <2>4. Before' = SubSeq(views', 1, index + 1)
    BY <1>4 DEF Before
  <2>5. SubSeq(views', 1, index + 1) = SubSeq(views, 1, index + 1)
    <3>1. index + 1 \in Nat /\ index + 1 <= Len(views) /\ index + 1 <= Len(views')
      BY <1>1, <2>1
    <3>. QED  BY <1>2, <1>3, <2>1, <3>1, SamePrefix
  <2>6. SubSeq(views, 1, index + 1) = Append(SubSeq(views, 1, index), views[index + 1])
    <3>1. index \in 0..(Len(views) - 1)
      BY <1>1
    <3>. QED  BY <1>2, <3>1, OneMore
  <2>. QED  BY <1>1, <2>3, <2>4, <2>5, <2>6 DEF Before
<1>5. CASE index' = index /\ index > 0 /\ Extended(views, index, View(chart'), views')
  <2>1. Len(views') = index + 1 /\ \A k \in 1..index : views'[k] = views[k]
    BY <1>1, <1>5 DEF Extended
  <2>2. After' = SubSeq(views', index + 2, index + 1)
    BY <1>5, <2>1 DEF After
  <2>3. After' = << >>
    BY <1>1, <2>2, SubSeqEmpty
  <2>4. Before' = SubSeq(views', 1, index)
    BY <1>5 DEF Before
  <2>5. SubSeq(views', 1, index) = SubSeq(views, 1, index)
    <3>1. index <= Len(views) /\ index <= Len(views')
      BY <1>1, <2>1
    <3>. QED  BY <1>1, <1>2, <1>3, <2>1, <3>1, SamePrefix
  <2>6. Before # << >>
    <3>1. index \in 1..Len(views)
      BY <1>1, <1>5
    <3>. QED  BY <1>2, <3>1, PastIs DEF Before
  <2>. QED  BY <2>3, <2>4, <2>5, <2>6 DEF Before
<1>. QED  BY <1>4, <1>5 DEF Recorded

LEMMA UndoIsUndone ==
  ASSUME Stacked, Stacked', UndoOne
  PROVE  /\ Before # << >> /\ View(chart') = Last(Before)
         /\ Before' = Front(Before) /\ After' = Cons(View(chart), After)
<1>1. /\ Len(views) \in Nat /\ index \in Nat /\ index <= Len(views) - 1 /\ View(chart) = views[index + 1]
      /\ View(chart)' = views'[index' + 1]
  BY SizedParts DEF Stacked, StackInv, Traced
<1>2. PICK S : views \in Seq(S)
  BY DEF Stacked, StackInv, Traced, Sized
<1>3. index > 0 /\ index' = index - 1 /\ views' = views
  BY DEF UndoOne
<1>4. index' + 1 = index /\ index' + 2 = index + 1 /\ index \in 1..Len(views) /\ index + 1 \in 1..Len(views)
  BY <1>1, <1>3
<1>5. Before # << >> /\ Last(Before) = views[index] /\ Front(Before) = SubSeq(views, 1, index - 1)
  BY <1>2, <1>4, PastIs DEF Before
<1>6. SubSeq(views, index + 1, Len(views)) = Cons(views[index + 1], SubSeq(views, index + 1 + 1, Len(views)))
  BY <1>2, <1>4, FutureIs
<1>7. index + 1 + 1 = index + 2
  BY <1>1
<1>8. View(chart') = views[index]
  BY <1>1, <1>3, <1>4
<1>9. After' = SubSeq(views, index + 1, Len(views))
  BY <1>3, <1>4 DEF After
<1>. QED  BY <1>1, <1>3, <1>5, <1>6, <1>7, <1>8, <1>9 DEF Before, After

LEMMA RedoIsRedone ==
  ASSUME Stacked, Stacked', RedoOne
  PROVE  /\ After # << >> /\ View(chart') = Head(After)
         /\ Before' = Append(Before, View(chart)) /\ After' = Tail(After)
<1>1. /\ Len(views) \in Nat /\ index \in Nat /\ index <= Len(views) - 2 /\ View(chart) = views[index + 1]
      /\ View(chart)' = views'[index' + 1]
  BY SizedParts DEF Stacked, StackInv, Traced, RedoOne
<1>2. PICK S : views \in Seq(S)
  BY DEF Stacked, StackInv, Traced, Sized
<1>3. index' = index + 1 /\ views' = views
  BY DEF RedoOne
<1>4. index' + 1 = index + 2 /\ index' + 2 = index + 2 + 1 /\ index + 2 \in 1..Len(views) /\ index \in 0..(Len(views) - 1)
  BY <1>1, <1>3
<1>5. After # << >> /\ Head(After) = views[index + 2] /\ Tail(After) = SubSeq(views, index + 2 + 1, Len(views))
  BY <1>2, <1>4, FutureIs DEF After
<1>6. SubSeq(views, 1, index + 1) = Append(SubSeq(views, 1, index), views[index + 1])
  BY <1>2, <1>4, OneMore
<1>7. View(chart') = views[index + 2]
  BY <1>1, <1>3, <1>4
<1>8. After' = SubSeq(views, index + 2 + 1, Len(views)) /\ Before' = SubSeq(views, 1, index + 1)
  BY <1>3, <1>4 DEF After, Before
<1>. QED  BY <1>1, <1>5, <1>6, <1>7, <1>8 DEF Before

\* Undo and redo bring back exactly the charts the user had: in its exact sessions the
\* stack with its commands implements UndoHistory, for any chart, any number of commands
\* of any length, and whatever joins.
THEOREM HistoryIsExact == Spec => ExactUndoIsHistory
<1>1. Init => ExactHistory!Init
  <2>. SUFFICES ASSUME Init  PROVE ExactHistory!Init
    OBVIOUS
  <2>1. index = 0 /\ views = <<saved>>
    BY DEF Init
  <2>2. Len(views) = 1 /\ SubSeq(views, 1, 0) = << >> /\ SubSeq(views, 2, 1) = << >>
    BY <2>1, SubSeqEmpty
  <2>. QED  BY <2>1, <2>2 DEF ExactHistory!Init
<1>2. UndoInv /\ UndoInv' /\ [Next]_vars => [ExactHistory!Next]_(ExactHistory!vars)
  <2>. SUFFICES ASSUME UndoInv, UndoInv', [Next]_vars  PROVE [ExactHistory!Next]_(ExactHistory!vars)
    OBVIOUS
  <2>1. CASE UNCHANGED vars
    BY <2>1 DEF vars, ExactHistory!vars, Exact
  <2>2. CASE Next
    <3>1. kinds' = kinds /\ (Exact' <=> Exact)
      BY <2>2 DEF Next, Exact
    <3>2. CASE ~Exact
      BY <3>1, <3>2 DEF ExactHistory!vars
    <3>3. CASE Exact
      <4>1. Stacked /\ Stacked' /\ Exact'
        BY <3>1, <3>3 DEF UndoInv
      <4>2. CASE Commands
        <5>1. Recorded
          BY <3>1, <3>3, <4>1, <4>2, CommandsKeep
        <5>2. /\ After' = << >>
              /\ Before' = Append(Before, View(chart)) \/ (Before # << >> /\ Before' = Before)
          BY <4>1, <5>1, PushIsDone
        <5>. QED  BY <3>3, <4>1, <5>2
               DEF ExactHistory!Next, ExactHistory!Do, ExactHistory!DoMerged, Before, After
      <4>3. CASE UndoOne
        <5>1. /\ Before # << >> /\ View(chart') = Last(Before)
              /\ Before' = Front(Before) /\ After' = Cons(View(chart), After)
          BY <4>1, <4>3, UndoIsUndone
        <5>2. /\ Before # << >> /\ View(chart)' = Before[Len(Before)]
              /\ Before' = SubSeq(Before, 1, Len(Before) - 1) /\ After' = <<View(chart)>> \o After
          BY <5>1 DEF Last, Front, Cons
        <5>. QED  BY <3>3, <4>1, <5>2 DEF ExactHistory!Next, ExactHistory!Undo, ExactHistory!Last,
                                          ExactHistory!Front, ExactHistory!Cons, Before, After
      <4>4. CASE RedoOne
        <5>1. /\ After # << >> /\ View(chart') = Head(After)
              /\ Before' = Append(Before, View(chart)) /\ After' = Tail(After)
          BY <4>1, <4>4, RedoIsRedone
        <5>. QED  BY <3>3, <4>1, <5>1 DEF ExactHistory!Next, ExactHistory!Redo, Before, After
      <4>5. ASSUME NEW ok \in SaveOutcomes, Save(ok)
            PROVE  UNCHANGED ExactHistory!vars
        BY <3>1, <4>5 DEF Save, ExactHistory!vars, Exact
      <4>. QED  BY <2>2, <4>2, <4>3, <4>4, <4>5 DEF Next
    <3>. QED  BY <3>2, <3>3
  <2>. QED  BY <2>1, <2>2
<1>. QED  BY <1>1, <1>2, StackHolds, PTL DEF Spec, ExactUndoIsHistory, ExactHistory!Spec
-------------------------------------------------------------------------------
(* The remote control.                                                          *)

\* The clients of the server, what each sent and what each received.
NetTyped ==
  /\ clients \in Seq(Clients) /\ NoRepeat(clients)
  /\ wire \in [Clients -> Nat]
  /\ handled \in [Clients -> Nat]
  /\ answers \in [Clients -> Seq(Clients \X Nat)]

\* Messages are only read from a client that is connected.
WiresConnected == \A c \in Clients : wire[c] > 0 => c \in Range(clients)

NetInv == NetTyped /\ WiresConnected /\ AnsweredOnce

\* One request read: one client, and the sender when it is alone, has one answer more.
LEMMA OneAnswerMore ==
  ASSUME NetInv, NEW c \in Range(clients), NEW to \in Clients, Range(clients) \subseteq {c} => to = c,
         Answered(to, c), handled' = [handled EXCEPT ![c] = @ + 1], UNCHANGED <<clients, left>>
  PROVE  AnsweredOnce' /\ answers' \in [Clients -> Seq(Clients \X Nat)]
<1>. DEFINE new == <<c, handled[c] + 1>>
            last == Len(answers[to]) + 1
<1>1. /\ c \in Clients /\ handled[c] \in Nat /\ handled'[c] = handled[c] + 1
      /\ \A d \in Clients : handled[d] \in Nat /\ (d # c => handled'[d] = handled[d])
  BY DEF NetInv, NetTyped, Range
<1>2. /\ new \in Clients \X Nat /\ new[1] = c /\ new[2] = handled[c] + 1
      /\ answers[to] \in Seq(Clients \X Nat) /\ Len(answers[to]) \in Nat
  BY <1>1 DEF NetInv, NetTyped
<1>3. answers'[to] = Append(answers[to], new) /\ \A d \in Clients : d # to => answers'[d] = answers[d]
  BY DEF Answered, NetInv, NetTyped
<1>4. answers' \in [Clients -> Seq(Clients \X Nat)]
  <2>1. Append(answers[to], new) \in Seq(Clients \X Nat)
    BY <1>2
  <2>. QED  BY <2>1 DEF Answered, NetInv, NetTyped
<1>. HIDE DEF new
<1>5. /\ DOMAIN answers'[to] = 1..last /\ answers'[to][last] = new
      /\ \A k \in 1..Len(answers[to]) : answers'[to][k] = answers[to][k]
      /\ DOMAIN answers[to] = 1..Len(answers[to])
  BY <1>2, <1>3
<1>6. \A d \in Clients : \A k \in DOMAIN answers'[d] :
        \/ d = to /\ k = last /\ answers'[d][k] = new
        \/ k \in DOMAIN answers[d] /\ answers'[d][k] = answers[d][k] /\ (d = to => k < last)
  <2>0. \A L \in Nat : \A k \in 1..(L + 1) : k = L + 1 \/ (k \in 1..L /\ k < L + 1)
    OBVIOUS
  <2>1. \A k \in 1..last : k = last \/ (k \in 1..Len(answers[to]) /\ k < last)
    BY <1>2, <2>0, Zenon
  <2>. QED  BY <1>3, <1>5, <2>1, Zenon
<1>7. \A d \in Clients : \A k \in DOMAIN answers[d] :
        k \in DOMAIN answers'[d] /\ answers'[d][k] = answers[d][k]
  <2>1. \A k \in 1..Len(answers[to]) : k \in 1..last
    BY <1>2
  <2>. QED  BY <1>3, <1>5, <2>1, Zenon
<1>8. \A d \in Clients : \A k \in DOMAIN answers[d] :
        answers[d][k] # new /\ (answers[d][k][1] = c => answers[d][k][2] < new[2])
  <2>. SUFFICES ASSUME NEW d \in Clients, NEW k \in DOMAIN answers[d]
                PROVE  answers[d][k] # new /\ (answers[d][k][1] = c => answers[d][k][2] < new[2])
    OBVIOUS
  <2>1. PICK b \in Clients : \E n \in 1..handled[b] : answers[d][k] = <<b, n>>
    BY DEF NetInv, AnsweredOnce
  <2>2. PICK n \in 1..handled[b] : answers[d][k] = <<b, n>>
    BY <2>1
  <2>3. n \in Nat /\ n <= handled[b]
    BY <1>1
  <2>. QED  BY <1>1, <2>2, <2>3 DEF new
<1>9. ASSUME NEW d \in Clients, NEW n \in 1..handled'[d]
      PROVE  \E b \in Clients : \E k \in DOMAIN answers'[b] : answers'[b][k] = <<d, n>>
  <2>1. CASE d = c /\ n = handled[c] + 1
    <3>1. last \in DOMAIN answers'[to] /\ answers'[to][last] = <<d, n>>
      BY <1>2, <1>5, <2>1 DEF new
    <3>. QED  BY <3>1
  <2>2. CASE ~(d = c /\ n = handled[c] + 1)
    <3>1. n \in 1..handled[d]
      BY <1>1, <2>2
    <3>2. PICK b \in Clients : \E k \in DOMAIN answers[b] : answers[b][k] = <<d, n>>
      BY <3>1 DEF NetInv, AnsweredOnce
    <3>. QED  BY <1>7, <3>2
  <2>. QED  BY <2>1, <2>2
<1>10. ASSUME NEW d \in Clients, NEW k \in DOMAIN answers'[d]
       PROVE  \E b \in Clients : \E n \in 1..handled'[b] : answers'[d][k] = <<b, n>>
  <2>1. CASE answers'[d][k] = new
    <3>1. handled[c] + 1 \in 1..handled'[c]
      BY <1>1
    <3>. QED  BY <1>1, <2>1, <3>1 DEF new
  <2>2. CASE k \in DOMAIN answers[d] /\ answers'[d][k] = answers[d][k]
    <3>1. PICK b \in Clients : \E n \in 1..handled[b] : answers[d][k] = <<b, n>>
      BY <2>2 DEF NetInv, AnsweredOnce
    <3>2. \A n \in 1..handled[b] : n \in 1..handled'[b]
      BY <1>1
    <3>. QED  BY <2>2, <3>1, <3>2
  <2>. QED  BY <1>6, <2>1, <2>2
<1>11. ASSUME NEW d \in Clients, NEW e \in Clients,
              NEW j \in DOMAIN answers'[d], NEW k \in DOMAIN answers'[e]
       PROVE  /\ answers'[d][j] = answers'[e][k] => d = e /\ j = k
              /\ d = e /\ j < k /\ answers'[d][j][1] = answers'[e][k][1] =>
                   answers'[d][j][2] < answers'[e][k][2]
  <2>1. CASE j \in DOMAIN answers[d] /\ k \in DOMAIN answers[e]
    BY <1>7, <2>1 DEF NetInv, AnsweredOnce
  <2>2. CASE d = to /\ j = last /\ e = to /\ k = last
    BY <1>2, <2>2
  <2>3. CASE /\ d = to /\ j = last /\ answers'[d][j] = new
             /\ k \in DOMAIN answers[e] /\ answers'[e][k] = answers[e][k] /\ (e = to => k < last)
    <3>1. e = to => ~(last < k)
      <4>1. e = to => k \in 1..Len(answers[to])
        BY <1>5, <2>3
      <4>. QED  BY <1>2, <4>1
    <3>. QED  BY <1>8, <2>3, <3>1
  <2>4. CASE /\ e = to /\ k = last /\ answers'[e][k] = new
             /\ j \in DOMAIN answers[d] /\ answers'[d][j] = answers[d][j]
    BY <1>2, <1>8, <2>4
  <2>. QED  BY <1>6, <2>1, <2>2, <2>3, <2>4
<1>12. ASSUME NEW d \in Clients, Range(clients)' \cup left' \subseteq {d}
       PROVE  OwnAnswers(d)'
  <2>1. d = c /\ to = c /\ Range(clients) \cup left \subseteq {c}
    BY <1>12
  <2>2. answers[c] = [n \in 1..handled[c] |-> <<c, n>>]
    BY <1>1, <2>1 DEF NetInv, AnsweredOnce, OwnAnswers
  <2>3. Len(answers[c]) = handled[c]
    BY <1>1, <1>2, <2>1, <2>2
  <2>4. Append(answers[c], new) = [n \in 1..(handled[c] + 1) |-> <<c, n>>]
    <3>1. DOMAIN Append(answers[c], new) = 1..(handled[c] + 1)
      BY <1>1, <1>2, <2>1, <2>3
    <3>2. \A n \in 1..(handled[c] + 1) : Append(answers[c], new)[n] = <<c, n>>
      BY <1>1, <1>2, <2>1, <2>2, <2>3 DEF new
    <3>3. answers[c] \in Seq(Clients \X Nat)
      BY <1>2, <2>1
    <3>. QED  BY <1>1, <1>2, <2>1, <2>2, <2>3, <3>1, <3>2, <3>3
  <2>. QED  BY <1>1, <1>3, <2>1, <2>4 DEF OwnAnswers
<1>. QED  BY <1>4, <1>9, <1>10, <1>11, <1>12 DEF AnsweredOnce
-------------------------------------------------------------------------------
(* The server.                                                                  *)

\* Who comes and goes takes no answer away, and who is alone then was alone before.
LEMMA NothingAnswered ==
  ASSUME NetInv, UNCHANGED <<handled, answers>>,
         \A c \in Clients : Range(clients)' \cup left' \subseteq {c} => Range(clients) \cup left \subseteq {c}
  PROVE  AnsweredOnce'
BY DEF NetInv, AnsweredOnce, OwnAnswers

LEMMA ConnectStep ==
  ASSUME NetInv, NEW c \in Clients, Connect(c)
  PROVE  NetInv'
<1>1. clients' \in Seq(Clients) /\ Range(clients') = Range(clients) \cup {c} /\ NoRepeat(clients')
  BY AppendListProperties DEF Connect, NetInv, NetTyped
<1>2. NetTyped' /\ WiresConnected'
  BY <1>1 DEF Connect, NetInv, NetTyped, WiresConnected
<1>3. AnsweredOnce'
  BY <1>1, NothingAnswered DEF Connect, Range
<1>. QED  BY <1>2, <1>3 DEF NetInv

LEMMA DisconnectStep ==
  ASSUME NetInv, NEW c \in Clients, Disconnect(c)
  PROVE  NetInv'
<1>1. clients' \in Seq(Clients) /\ Range(clients') = Range(clients) \ {c} /\ NoRepeat(clients')
  BY KeepOnlyProperties DEF Disconnect, NetInv, NetTyped, RemoveAll
<1>2. NetTyped' /\ WiresConnected'
  BY <1>1 DEF Disconnect, NetInv, NetTyped, WiresConnected
<1>3. AnsweredOnce'
  <2>1. Range(clients)' = Range(clients) \ {c} /\ left' = left \cup {c} /\ UNCHANGED <<handled, answers>>
    BY <1>1 DEF Disconnect, Range
  <2>2. \A d \in Clients : Range(clients)' \cup left' \subseteq {d} => Range(clients) \cup left \subseteq {d}
    BY <2>1
  <2>. QED  BY <2>1, <2>2, NothingAnswered
<1>. QED  BY <1>2, <1>3 DEF NetInv

LEMMA SendStep ==
  ASSUME NetInv, NEW c \in Clients, Send(c)
  PROVE  NetInv'
<1>1. NetTyped' /\ WiresConnected'
  BY DEF Send, NetInv, NetTyped, WiresConnected
<1>2. AnsweredOnce'
  BY NothingAnswered DEF Send, Range
<1>. QED  BY <1>1, <1>2 DEF NetInv

\* What the handler does with the chart does not matter here.
LEMMA ProcessStep ==
  ASSUME NetInv, NEW c \in Clients, Process(c)
  PROVE  NetInv'
<1>1. /\ Answered(c, c) \/ Answered(Receiver(c), c)
      /\ wire' = [wire EXCEPT ![c] = @ - 1]
      /\ handled' = [handled EXCEPT ![c] = @ + 1]
      /\ UNCHANGED <<clients, left>>
  BY DEF Process
<1>2. c \in Range(clients)
  BY DEF Process, NetInv, WiresConnected
<1>3. Receiver(c) \in Range(clients) \cap Clients
  <2>1. clients \in Seq(Clients) /\ clients # << >>
    BY <1>2 DEF NetInv, NetTyped, Range
  <2>2. 1 \in DOMAIN clients /\ Head(clients) = clients[1] /\ clients[1] \in Clients
    BY <2>1
  <2>. QED  BY <2>2 DEF Receiver, Range
<1>4. AnsweredOnce' /\ answers' \in [Clients -> Seq(Clients \X Nat)]
  BY <1>1, <1>2, <1>3, OneAnswerMore
<1>5. NetTyped' /\ WiresConnected'
  <2>1. wire[c] > 0 /\ wire[c] \in Nat
    BY DEF Process, NetInv, NetTyped
  <2>2. wire' \in [Clients -> Nat] /\ handled' \in [Clients -> Nat]
    BY <1>1, <2>1 DEF NetInv, NetTyped
  <2>3. clients' \in Seq(Clients) /\ NoRepeat(clients')
    BY <1>1 DEF NetInv, NetTyped
  <2>4. NetTyped'
    BY <1>4, <2>2, <2>3 DEF NetTyped
  <2>5. WiresConnected'
    BY <1>1, <1>2 DEF NetInv, NetTyped, WiresConnected
  <2>. QED  BY <2>4, <2>5
<1>. QED  BY <1>4, <1>5 DEF NetInv

\* The inductive invariant of the server.
LEMMA NetInvariant ==
  RemoteSpec => []NetInv
<1>1. RemoteInit => NetInv
  <2>. SUFFICES ASSUME RemoteInit  PROVE NetInv
    OBVIOUS
  <2>1. NetTyped /\ WiresConnected
    BY DEF RemoteInit, NetTyped, WiresConnected, NoRepeat
  <2>2. \A c \in Clients : OwnAnswers(c) /\ answers[c] = << >> /\ handled[c] = 0
    BY DEF RemoteInit, OwnAnswers
  <2>. QED  BY <2>1, <2>2 DEF NetInv, AnsweredOnce
<1>2. NetInv /\ [RemoteNext]_remoteVars => NetInv'
  <2>. SUFFICES ASSUME NetInv, [RemoteNext]_remoteVars  PROVE NetInv'
    OBVIOUS
  <2>1. CASE RemoteNext
    BY <2>1, ConnectStep, DisconnectStep, SendStep, ProcessStep DEF RemoteNext
  <2>2. CASE UNCHANGED remoteVars
    <3>1. UNCHANGED <<clients, wire, handled, answers, left>>
      BY <2>2 DEF remoteVars, net
    <3>2. AnsweredOnce'
      BY <3>1, NothingAnswered DEF Range
    <3>. QED  BY <3>1, <3>2 DEF NetInv, NetTyped, WiresConnected
  <2>. QED  BY <2>1, <2>2
<1>. QED  BY <1>1, <1>2, PTL DEF RemoteSpec

\* Every request that is read gets one answer, and no answer is to anything else, however
\* many clients connect, leave and send at once: the server mistakes the client, not the
\* request.  Who is alone with the server gets all of its own.
THEOREM RequestsAnsweredOnce ==
  RemoteSpec => []AnsweredOnce
<1>1. NetInv => AnsweredOnce
  BY DEF NetInv
<1>. QED  BY <1>1, NetInvariant, PTL
-------------------------------------------------------------------------------
(* What a name finds.  The instances of the chart are those of the file and     *)
(* those that the commands done have made.                                      *)

HasInstances(c) == DOMAIN c = Fields /\ c.instances \in Seq(Instances)

\* The instances of the file and those that the first n commands of a stack make.
Makes(s, k) == s[k].kind = "instance"
Ever(s, n) == Range(Start[kinds]) \cup {s[k].i : k \in {m \in 1..n : Makes(s, m)}}

StackTyped(s) ==
  /\ \E S : s \in Seq(S)
  /\ \A k \in 1..Len(s) :
       /\ s[k].kind \in {"instance", "stop", "event"}
       /\ Makes(s, k) => s[k].i \in Instances \ Range(Start[kinds]) /\ s[k].pos = -1

\* No instance is made by two commands, done or undone.
MadeOnce(s) ==
  \A j, k \in 1..Len(s) : Makes(s, j) /\ Makes(s, k) /\ s[j].i = s[k].i => j = k

\* Undone commands count too: they keep the names they gave.
NamesDiffer(s) ==
  FileNamesDiffer => \A i, j \in Ever(s, Len(s)) : name[i] = name[j] => i = j

NameInv ==
  /\ kinds \in Sessions
  /\ HasInstances(chart)
  /\ DOMAIN name = Instances
  /\ StackTyped(stack) /\ index \in 0..Len(stack)
  /\ InstancesIn = Ever(stack, index)
  /\ MadeOnce(stack)
  /\ NamesDiffer(stack)
  /\ outdated = {}

LEMMA AddInstanceAdds ==
  ASSUME NEW c, HasInstances(c), NEW i \in Instances, NEW pos \in Int
  PROVE  LET d == AddInstance(c, i, pos)
         IN  HasInstances(d) /\ Range(d.instances) = Range(c.instances) \cup {i}
<1>1. CASE i \in Range(c.instances)
  BY <1>1 DEF AddInstance
<1>2. CASE i \notin Range(c.instances)
  <2>. DEFINE r == InsertOrAppend(c.instances, pos, i)
  <2>1. AddInstance(c, i, pos).instances = r /\ DOMAIN AddInstance(c, i, pos) = Fields
    BY <1>2 DEF AddInstance, SetLifeline, HasInstances, Fields
  <2>2. c.instances \in Seq(Instances)
    BY DEF HasInstances
  <2>3. r \in Seq(Instances)
    BY <2>2, InsertOrAppendProperties
  <2>4. Range(r) = Range(c.instances) \cup {i}
    BY <2>2, InsertOrAppendProperties
  <2>. QED  BY <2>1, <2>3, <2>4 DEF HasInstances
<1>. QED  BY <1>1, <1>2

LEMMA RemoveInstanceRemoves ==
  ASSUME NEW c, HasInstances(c), NEW i
  PROVE  LET d == RemoveInstance(c, i)
         IN  HasInstances(d) /\ Range(d.instances) = Range(c.instances) \ {i}
<1>1. CASE i \notin Range(c.instances)
  BY <1>1 DEF RemoveInstance
<1>2. CASE i \in Range(c.instances)
  <2>1. /\ RemoveInstance(c, i).instances = RemoveAll(c.instances, i)
        /\ DOMAIN RemoveInstance(c, i) = Fields
    BY <1>2 DEF RemoveInstance, HasInstances, Fields
  <2>. QED  BY <2>1, KeepOnlyProperties DEF HasInstances, RemoveAll
<1>. QED  BY <1>1, <1>2

\* Events leave the instances as they are.
LEMMA EventsKeepInstances ==
  ASSUME NEW c, HasInstances(c), NEW e, NEW at
  PROVE  /\ HasInstances(AddInstanceEvent(c, e, at))
         /\ AddInstanceEvent(c, e, at).instances = c.instances
         /\ HasInstances(RemoveInstanceEvents(c, {e}))
         /\ RemoveInstanceEvents(c, {e}).instances = c.instances
  BY DEF HasInstances, Fields, AddInstanceEvent, RemoveInstanceEvents, SetLifeline
-------------------------------------------------------------------------------
(* The commands on the stack.                                                   *)

\* Nothing is merged: the stack is cut where it was undone to and has one more.
Grown(cmd) == Append(SubSeq(stack, 1, index), cmd)
LEMMA PushAppends ==
  ASSUME NameInv, NEW c, NEW cmd, cmd.kind \in {"instance", "stop", "event"}, Pushed(c, cmd)
  PROVE  /\ chart' = Redo(c, cmd)
         /\ stack' = Grown(cmd)
         /\ index' = index + 1
         /\ UNCHANGED kinds
         /\ outdated' = {}
<1>1. ~(index > 0 /\ CanMerge(stack[index], cmd))
  BY DEF CanMerge
<1>2. Push(c, cmd) /\ UNCHANGED kinds
  BY DEF Pushed
<1>3. chart' = Redo(c, cmd)
  BY <1>2 DEF Push
<1>4. stack' = Grown(cmd)
  BY <1>1, <1>2, Zenon DEF Push, Grown
<1>5. index' = index + 1
  BY <1>1, <1>2, Zenon DEF Push
<1>6. outdated' = {}
  <2>1. PICK joins : outdated' = OutdatedBy(index, cmd, joins)
    BY <1>2 DEF Push
  <2>2. cmd.kind # "uncomment"
    OBVIOUS
  <2>. QED  BY <2>1, <2>2 DEF OutdatedBy, NameInv
<1>. QED  BY <1>2, <1>3, <1>4, <1>5, <1>6

\* None of the commands of clients makes a comment or copies lists.
LEMMA UndoneOnly ==
  ASSUME NameInv, UndoOne
  PROVE  chart' = Undo(chart, stack[index]) /\ outdated' = {}
<1>1. chart' = Undo(chart, stack[index])
  BY DEF UndoOne, NameInv
<1>2. stack[index].kind # "comment"
  BY DEF UndoOne, NameInv, StackTyped
<1>3. outdated' = {}
  BY <1>2 DEF UndoOne, NameInv
<1>. QED  BY <1>1, <1>3

\* What the new stack is made of.
LEMMA PushedStack ==
  ASSUME NameInv, NEW cmd, NEW s, s = Grown(cmd)
  PROVE  /\ \E S : s \in Seq(S)
         /\ Len(s) = index + 1
         /\ s[index + 1] = cmd
         /\ \A k \in 1..index : s[k] = stack[k]
<1>1. PICK S : stack \in Seq(S)
  BY DEF NameInv, StackTyped
<1>2. index \in 0..Len(stack)
  BY DEF NameInv
<1>3. SubSeq(stack, 1, index) \in Seq(S) /\ Len(SubSeq(stack, 1, index)) = index
  BY <1>1, <1>2
<1>4. \A k \in 1..index : SubSeq(stack, 1, index)[k] = stack[k]
  BY <1>1, <1>2
<1>5. cmd \in S \cup {cmd} /\ SubSeq(stack, 1, index) \in Seq(S \cup {cmd})
  BY <1>1, <1>2
<1>6. s \in Seq(S \cup {cmd}) /\ Len(s) = index + 1 /\ s[index + 1] = cmd
  BY <1>3, <1>5 DEF Grown
<1>7. \A k \in 1..index : s[k] = SubSeq(stack, 1, index)[k]
  BY <1>3, <1>5 DEF Grown
<1>. QED  BY <1>4, <1>6, <1>7

\* A stop or an event on the stack makes no instance.
LEMMA PushOther ==
  ASSUME NameInv, NEW c, NEW cmd, cmd.kind \in {"stop", "event"}, Pushed(c, cmd),
         HasInstances(Redo(c, cmd)), Redo(c, cmd).instances = chart.instances, UNCHANGED name
  PROVE  NameInv'
<1>1. /\ chart' = Redo(c, cmd)
      /\ stack' = Grown(cmd)
      /\ index' = index + 1
      /\ UNCHANGED kinds
      /\ outdated' = {}
  <2>1. cmd.kind \in {"instance", "stop", "event"}
    OBVIOUS
  <2>. QED  BY <2>1, PushAppends
<1>2. /\ \E S : stack' \in Seq(S)
      /\ Len(stack') = index + 1
      /\ stack'[index + 1] = cmd
      /\ \A k \in 1..index : stack'[k] = stack[k]
  BY <1>1, PushedStack
<1>3. index \in 0..Len(stack) /\ Len(stack) \in Nat
  BY DEF NameInv, StackTyped
<1>4. ~Makes(stack', index + 1) /\ \A k \in 1..index : Makes(stack', k) <=> Makes(stack, k)
  BY <1>2 DEF Makes
<1>5. StackTyped(stack)'
  BY <1>1, <1>2, <1>3, <1>4 DEF NameInv, StackTyped, Makes
<1>6. Ever(stack', index + 1) = Ever(stack, index)
  BY <1>2, <1>3, <1>4 DEF Ever, Makes
<1>7. InstancesIn' = Ever(stack, index)'
  BY <1>1, <1>6 DEF NameInv, InstancesIn, Ever
<1>8. MadeOnce(stack)'
  <2>1. \A k \in 1..Len(stack') : Makes(stack', k) =>
          k \in 1..Len(stack) /\ Makes(stack, k) /\ stack'[k].i = stack[k].i
    BY <1>2, <1>3, <1>4
  <2>. QED  BY <2>1 DEF NameInv, MadeOnce
<1>9. NamesDiffer(stack)'
  <2>1. Ever(stack', index + 1) \subseteq Ever(stack, Len(stack))
    BY <1>3, <1>6 DEF Ever
  <2>. QED  BY <1>1, <1>2, <2>1 DEF NameInv, NamesDiffer, FileNamesDiffer, Ever
<1>10. kinds' \in Sessions /\ HasInstances(chart)' /\ (DOMAIN name = Instances)'
  BY <1>1 DEF NameInv, HasInstances
<1>11. (index \in 0..Len(stack))'
  BY <1>1, <1>2, <1>3
<1>. QED  BY <1>1, <1>5, <1>7, <1>8, <1>9, <1>10, <1>11 DEF NameInv
-------------------------------------------------------------------------------
(* The handler.                                                                 *)

\* The look-up by name comes first, so that the new instance has a name that is free.
LEMMA InstanceRequest ==
  ASSUME NameInv, NEW q, HandleInstance(q)
  PROVE  NameInv'
<1>1. CASE Failed
  BY <1>1 DEF Failed, vars, named, NameInv, HasInstances, StackTyped, InstancesIn, Ever, MadeOnce,
              NamesDiffer, FileNamesDiffer, Makes
<1>2. CASE ~Failed
  <2>1. PICK n : /\ Named(n) = {}
                 /\ \E i \in Instances : NewInstance(i)
                 /\ LET i == CHOOSE j \in Instances : NewInstance(j)
                    IN  /\ name' = [name EXCEPT ![i] = n]
                        /\ Pushed(chart, [kind |-> "instance", i |-> i, pos |-> -1])
    BY <1>2, Zenon DEF HandleInstance
  <2>. DEFINE i == CHOOSE j \in Instances : NewInstance(j)
              cmd == [kind |-> "instance", i |-> i, pos |-> -1]
  <2>2. i \in Instances /\ NewInstance(i)
    BY <2>1
  <2>3. name' = [name EXCEPT ![i] = n] /\ Pushed(chart, cmd)
    BY <2>1
  <2>. HIDE DEF i
  <2>4. i \notin Range(Start[kinds]) /\ \A k \in 1..index : Makes(stack, k) => stack[k].i # i
    BY <2>2 DEF NewInstance, Makes
  <2>5. cmd.kind = "instance" /\ cmd.i = i /\ cmd.pos = -1
    OBVIOUS
  <2>. HIDE DEF cmd
  <2>6. /\ chart' = Redo(chart, cmd)
        /\ stack' = Grown(cmd)
        /\ index' = index + 1
        /\ UNCHANGED kinds
        /\ outdated' = {}
    <3>1. cmd.kind \in {"instance", "stop", "event"}
      BY <2>5
    <3>. QED  BY <2>3, <3>1, PushAppends
  <2>7. /\ \E S : stack' \in Seq(S)
        /\ Len(stack') = index + 1
        /\ stack'[index + 1] = cmd
        /\ \A k \in 1..index : stack'[k] = stack[k]
    BY <2>6, PushedStack
  <2>8. index \in 0..Len(stack) /\ Len(stack) \in Nat
    BY DEF NameInv, StackTyped
  <2>9. Makes(stack', index + 1) /\ \A k \in 1..index : Makes(stack', k) <=> Makes(stack, k)
    BY <2>5, <2>7 DEF Makes
  <2>10. StackTyped(stack)'
    BY <2>2, <2>4, <2>5, <2>6, <2>7, <2>8, <2>9 DEF NameInv, StackTyped, Makes
  <2>11. Ever(stack', index + 1) = Ever(stack, index) \cup {i}
    BY <2>5, <2>6, <2>7, <2>8, <2>9 DEF Ever
  <2>12. HasInstances(chart') /\ Range(chart'.instances) = InstancesIn \cup {i}
    <3>1. chart' = AddInstance(chart, i, -1)
      BY <2>5, <2>6 DEF Redo
    <3>2. HasInstances(chart) /\ -1 \in Int
      BY DEF NameInv
    <3>3. HasInstances(AddInstance(chart, i, -1))
      BY <2>2, <3>2, AddInstanceAdds
    <3>4. Range(AddInstance(chart, i, -1).instances) = Range(chart.instances) \cup {i}
      BY <2>2, <3>2, AddInstanceAdds
    <3>. QED  BY <3>1, <3>3, <3>4 DEF InstancesIn
  <2>13. (InstancesIn = Ever(stack, index))'
    BY <2>6, <2>11, <2>12 DEF NameInv, InstancesIn, Ever
  <2>14. MadeOnce(stack)'
    <3>1. \A k \in 1..index : Makes(stack', k) => stack'[k].i # stack'[index + 1].i
      BY <2>4, <2>5, <2>7, <2>9
    <3>2. \A j, k \in 1..index : Makes(stack', j) /\ Makes(stack', k) /\ stack'[j].i = stack'[k].i => j = k
      BY <2>7, <2>8, <2>9 DEF NameInv, MadeOnce
    <3>. QED  BY <2>7, <2>8, <3>1, <3>2 DEF MadeOnce
  <2>15. NamesDiffer(stack)'
    <3>. SUFFICES ASSUME FileNamesDiffer', NEW j \in Ever(stack, index) \cup {i},
                         NEW k \in Ever(stack, index) \cup {i}, name'[j] = name'[k]
                  PROVE  j = k
      BY <2>6, <2>7, <2>11 DEF NamesDiffer, Ever
    <3>1. i \notin Ever(stack, index)
      BY <2>4 DEF Ever
    <3>2. \A l \in Ever(stack, index) : l \in InstancesIn /\ name[l] # n
      BY <2>1 DEF NameInv, Named
    <3>3. \A l \in Ever(stack, index) : name'[l] = name[l]
      BY <2>2, <2>3, <3>1, <3>2 DEF NameInv, InstancesIn, HasInstances
    <3>4. name'[i] = n
      BY <2>2, <2>3 DEF NameInv
    <3>5. Ever(stack, index) \subseteq Ever(stack, Len(stack))
      BY <2>8 DEF Ever
    <3>6. FileNamesDiffer
      BY <2>6 DEF FileNamesDiffer
    <3>7. \A l, m \in Ever(stack, index) : name[l] = name[m] => l = m
      BY <3>5, <3>6 DEF NameInv, NamesDiffer
    <3>. QED  BY <3>2, <3>3, <3>4, <3>7
  <2>16. kinds' \in Sessions /\ HasInstances(chart)' /\ (DOMAIN name = Instances)'
    BY <2>3, <2>6, <2>12 DEF NameInv, HasInstances
  <2>17. (index \in 0..Len(stack))'
    BY <2>6, <2>7, <2>8
  <2>. QED  BY <2>6, <2>10, <2>13, <2>14, <2>15, <2>16, <2>17 DEF NameInv
<1>. QED  BY <1>1, <1>2

LEMMA FailedStep ==
  ASSUME NameInv, UNCHANGED <<vars, named>>
  PROVE  NameInv'
BY DEF vars, named, NameInv, HasInstances, StackTyped, InstancesIn, Ever, MadeOnce,
       NamesDiffer, FileNamesDiffer, Makes

LEMMA StopRequest ==
  ASSUME NameInv, NEW q, HandleStop(q)
  PROVE  NameInv'
<1>1. CASE Failed
  BY <1>1, FailedStep DEF Failed
<1>2. CASE ~Failed
  <2>1. PICK i : Pushed(chart, [kind |-> "stop", i |-> i]) /\ UNCHANGED name
    BY <1>2 DEF HandleStop
  <2>. DEFINE cmd == [kind |-> "stop", i |-> i]
  <2>2. cmd.kind = "stop" /\ Redo(chart, cmd) = chart
    BY DEF Redo
  <2>. HIDE DEF cmd
  <2>3. HasInstances(Redo(chart, cmd)) /\ Redo(chart, cmd).instances = chart.instances
    BY <2>2 DEF NameInv
  <2>4. Pushed(chart, cmd) /\ UNCHANGED name
    BY <2>1 DEF cmd
  <2>5. cmd.kind \in {"stop", "event"}
    BY <2>2
  <2>. QED  BY <2>3, <2>4, <2>5, PushOther
<1>. QED  BY <1>1, <1>2

\* Actions and messages are new events, wherever they are put.
LEMMA EventPushed ==
  ASSUME NameInv, NEW e, NEW s, NEW t, NEW at, UNCHANGED name,
         Pushed(Renewed(e, s, t), [kind |-> "event", e |-> e, at |-> at])
  PROVE  NameInv'
<1>. DEFINE cmd == [kind |-> "event", e |-> e, at |-> at]
            c == Renewed(e, s, t)
<1>1. HasInstances(c) /\ c.instances = chart.instances
  BY DEF NameInv, Renewed, WithEnds, HasInstances, Fields
<1>. HIDE DEF c
<1>2. cmd.kind = "event" /\ Redo(c, cmd) = AddInstanceEvent(c, e, at)
  BY DEF Redo
<1>3. Pushed(c, cmd)
  BY DEF c
<1>. HIDE DEF cmd
<1>4. HasInstances(AddInstanceEvent(c, e, at)) /\ AddInstanceEvent(c, e, at).instances = c.instances
  BY <1>1, EventsKeepInstances
<1>5. HasInstances(Redo(c, cmd)) /\ Redo(c, cmd).instances = chart.instances
  BY <1>1, <1>2, <1>4
<1>6. cmd.kind \in {"stop", "event"}
  BY <1>2
<1>. QED  BY <1>3, <1>5, <1>6, PushOther

LEMMA EventRequest ==
  ASSUME NameInv, NEW q, HandleLocal(q) \/ HandleMessage(q)
  PROVE  NameInv'
<1>1. CASE Failed
  BY <1>1, FailedStep DEF Failed
<1>2. CASE ~Failed
  <2>1. CASE HandleLocal(q)
    BY <1>2, <2>1, EventPushed DEF HandleLocal
  <2>2. CASE HandleMessage(q)
    BY <1>2, <2>2, EventPushed DEF HandleMessage
  <2>. QED  BY <2>1, <2>2
<1>. QED  BY <1>1, <1>2

\* An undone command keeps its place on the stack, and the name it gave.
LEMMA UndoRequest ==
  ASSUME NameInv, HandleUndo
  PROVE  NameInv'
<1>1. CASE Failed
  BY <1>1, FailedStep DEF Failed
<1>2. CASE ~Failed
  <2>. DEFINE cmd == stack[index]
  <2>1. /\ chart' = Undo(chart, cmd) /\ index' = index - 1
        /\ UNCHANGED <<stack, kinds, name>>
        /\ index > 0 /\ outdated' = {}
    BY <1>2, UndoneOnly DEF HandleUndo, UndoOne
  <2>2. index \in 1..Len(stack) /\ Len(stack) \in Nat
    BY <2>1 DEF NameInv, StackTyped
  <2>3. /\ cmd.kind \in {"instance", "stop", "event"}
        /\ Makes(stack, index) <=> cmd.kind = "instance"
    BY <2>2 DEF NameInv, StackTyped, Makes
  <2>4. Ever(stack, index) = Ever(stack, index - 1) \cup {cmd.i : k \in {m \in {index} : Makes(stack, m)}}
    BY <2>2 DEF Ever
  <2>5. HasInstances(chart') /\ Range(chart'.instances) = Ever(stack, index - 1)
    <3>1. CASE cmd.kind = "instance"
      <4>1. chart' = RemoveInstance(chart, cmd.i)
        BY <2>1, <3>1 DEF Undo
      <4>2. Ever(stack, index) = Ever(stack, index - 1) \cup {cmd.i}
        BY <2>3, <2>4, <3>1
      <4>3. cmd.i \notin Ever(stack, index - 1)
        <5>1. cmd.i \notin Range(Start[kinds])
          BY <2>2, <2>3, <3>1 DEF NameInv, StackTyped
        <5>2. \A k \in 1..(index - 1) : Makes(stack, k) => stack[k].i # cmd.i
          BY <2>2, <2>3, <3>1 DEF NameInv, MadeOnce
        <5>. QED  BY <5>1, <5>2 DEF Ever
      <4>4. HasInstances(chart)
        BY DEF NameInv
      <4>5. HasInstances(RemoveInstance(chart, cmd.i))
        BY <4>4, RemoveInstanceRemoves
      <4>6. Range(RemoveInstance(chart, cmd.i).instances) = Range(chart.instances) \ {cmd.i}
        BY <4>4, RemoveInstanceRemoves
      <4>. QED  BY <4>1, <4>2, <4>3, <4>5, <4>6 DEF NameInv, InstancesIn
    <3>2. CASE cmd.kind = "stop"
      BY <2>1, <2>3, <2>4, <3>2 DEF Undo, NameInv, InstancesIn
    <3>3. CASE cmd.kind = "event"
      <4>1. chart' = RemoveInstanceEvents(chart, {cmd.e})
        BY <2>1, <3>3 DEF Undo
      <4>2. HasInstances(chart') /\ chart'.instances = chart.instances
        BY <4>1, EventsKeepInstances DEF NameInv
      <4>. QED  BY <2>3, <2>4, <3>3, <4>2 DEF NameInv, InstancesIn
    <3>. QED  BY <2>3, <3>1, <3>2, <3>3
  <2>6. (InstancesIn = Ever(stack, index))'
    BY <2>1, <2>5 DEF InstancesIn, Ever
  <2>7. StackTyped(stack)' /\ MadeOnce(stack)'
    BY <2>1 DEF NameInv, StackTyped, MadeOnce, Makes
  <2>8. NamesDiffer(stack)'
    BY <2>1 DEF NameInv, NamesDiffer, FileNamesDiffer, Ever
  <2>9. (index \in 0..Len(stack))' /\ kinds' \in Sessions /\ (DOMAIN name = Instances)'
    BY <2>1, <2>2 DEF NameInv
  <2>. QED  BY <2>1, <2>5, <2>6, <2>7, <2>8, <2>9 DEF NameInv, HasInstances
<1>. QED  BY <1>1, <1>2

LEMMA RedoRequest ==
  ASSUME NameInv, HandleRedo
  PROVE  NameInv'
<1>1. CASE Failed
  BY <1>1, FailedStep DEF Failed
<1>2. CASE ~Failed
  <2>. DEFINE cmd == stack[index + 1]
  <2>1. /\ chart' = Redo(chart, cmd) /\ index' = index + 1
        /\ UNCHANGED <<stack, kinds, name, outdated>>
        /\ index < Len(stack)
    BY <1>2 DEF HandleRedo, RedoOne
  <2>2. index \in 0..Len(stack) /\ Len(stack) \in Nat /\ index + 1 \in 1..Len(stack)
    BY <2>1 DEF NameInv, StackTyped
  <2>3. /\ cmd.kind \in {"instance", "stop", "event"}
        /\ Makes(stack, index + 1) <=> cmd.kind = "instance"
    BY <2>2 DEF NameInv, StackTyped, Makes
  <2>4. Ever(stack, index + 1) = Ever(stack, index) \cup {cmd.i : k \in {m \in {index + 1} : Makes(stack, m)}}
    BY <2>2 DEF Ever
  <2>5. HasInstances(chart') /\ Range(chart'.instances) = Ever(stack, index + 1)
    <3>1. CASE cmd.kind = "instance"
      <4>1. cmd.i \in Instances /\ cmd.pos = -1 /\ -1 \in Int
        BY <2>2, <2>3, <3>1 DEF NameInv, StackTyped
      <4>2. chart' = AddInstance(chart, cmd.i, -1)
        BY <2>1, <3>1, <4>1 DEF Redo
      <4>3. Ever(stack, index + 1) = Ever(stack, index) \cup {cmd.i}
        BY <2>3, <2>4, <3>1
      <4>4. HasInstances(chart)
        BY DEF NameInv
      <4>5. HasInstances(AddInstance(chart, cmd.i, -1))
        BY <4>1, <4>4, AddInstanceAdds
      <4>6. Range(AddInstance(chart, cmd.i, -1).instances) = Range(chart.instances) \cup {cmd.i}
        BY <4>1, <4>4, AddInstanceAdds
      <4>. QED  BY <4>2, <4>3, <4>5, <4>6 DEF NameInv, InstancesIn
    <3>2. CASE cmd.kind = "stop"
      BY <2>1, <2>3, <2>4, <3>2 DEF Redo, NameInv, InstancesIn
    <3>3. CASE cmd.kind = "event"
      <4>1. chart' = AddInstanceEvent(chart, cmd.e, cmd.at)
        BY <2>1, <3>3 DEF Redo
      <4>2. HasInstances(chart)
        BY DEF NameInv
      <4>3. HasInstances(AddInstanceEvent(chart, cmd.e, cmd.at))
        BY <4>2, EventsKeepInstances
      <4>4. AddInstanceEvent(chart, cmd.e, cmd.at).instances = chart.instances
        BY <4>2, EventsKeepInstances
      <4>. QED  BY <2>3, <2>4, <3>3, <4>1, <4>3, <4>4 DEF NameInv, InstancesIn
    <3>. QED  BY <2>3, <3>1, <3>2, <3>3
  <2>6. (InstancesIn = Ever(stack, index))'
    BY <2>1, <2>5 DEF InstancesIn, Ever
  <2>7. StackTyped(stack)' /\ MadeOnce(stack)'
    BY <2>1 DEF NameInv, StackTyped, MadeOnce, Makes
  <2>8. NamesDiffer(stack)'
    BY <2>1 DEF NameInv, NamesDiffer, FileNamesDiffer, Ever
  <2>9. (index \in 0..Len(stack))' /\ kinds' \in Sessions /\ (DOMAIN name = Instances)'
    BY <2>1, <2>2 DEF NameInv
  <2>. QED  BY <2>1, <2>5, <2>6, <2>7, <2>8, <2>9 DEF NameInv, HasInstances
<1>. QED  BY <1>1, <1>2

LEMMA HandleStep ==
  ASSUME NameInv, NEW q, Handle(q)
  PROVE  NameInv'
BY InstanceRequest, StopRequest, EventRequest, UndoRequest, RedoRequest DEF Handle

\* The inductive invariant of the names.
LEMMA NameInvariant ==
  RemoteSpec => []NameInv
<1>1. RemoteInit => NameInv
  <2>. SUFFICES ASSUME RemoteInit  PROVE NameInv
    OBVIOUS
  <2>1. /\ kinds \in Sessions /\ chart = AddAll(Start[kinds]) /\ stack = << >> /\ index = 0
        /\ name = StartNames /\ outdated = {}
    BY DEF RemoteInit, Init
  <2>2. Start[kinds] \in Seq(Instances)
    BY <2>1, UndoAssumption
  <2>0. Bare(AddAll(Start[kinds]), Range(Start[kinds]))
    BY <2>2, FileIsBare
  <2>3. HasInstances(AddAll(Start[kinds]))
    BY <2>0 DEF Bare, Good, Shaped, HasInstances
  <2>4. Range(AddAll(Start[kinds]).instances) = Range(Start[kinds])
    BY <2>0 DEF Bare
  <2>5. StackTyped(stack) /\ MadeOnce(stack) /\ index \in 0..Len(stack)
    BY <2>1 DEF StackTyped, MadeOnce
  <2>6. Ever(stack, 0) = Range(Start[kinds]) /\ Len(stack) = 0
    BY <2>1 DEF Ever
  <2>7. NamesDiffer(stack)
    BY <2>1, <2>6 DEF NamesDiffer, FileNamesDiffer
  <2>8. DOMAIN name = Instances
    BY <2>1, RemoteAssumption
  <2>. QED  BY <2>1, <2>3, <2>4, <2>5, <2>6, <2>7, <2>8 DEF NameInv, InstancesIn
<1>2. NameInv /\ [RemoteNext]_remoteVars => NameInv'
  <2>. SUFFICES ASSUME NameInv, [RemoteNext]_remoteVars  PROVE NameInv'
    OBVIOUS
  <2>1. CASE UNCHANGED <<vars, named>>
    BY <2>1, FailedStep
  <2>2. ASSUME NEW c \in Clients, Process(c)  PROVE NameInv'
    <3>1. PICK q \in Requests : Failed \/ Handle(q)
      BY <2>2 DEF Process
    <3>. QED  BY <3>1, FailedStep, HandleStep DEF Failed
  <2>3. CASE RemoteNext
    BY <2>1, <2>2, <2>3 DEF RemoteNext, Connect, Disconnect, Send
  <2>4. CASE UNCHANGED remoteVars
    BY <2>1, <2>4 DEF remoteVars
  <2>. QED  BY <2>3, <2>4
<1>. QED  BY <1>1, <1>2, PTL DEF RemoteSpec

\* If those of the file do, the instances of the chart have names of their own, whatever
\* all clients create, undo, redo and drop between them.
THEOREM NamesStayUnique ==
  RemoteSpec => []NamesAreUnique
<1>1. NameInv => NamesAreUnique
  <2>. SUFFICES ASSUME NameInv, FileNamesDiffer, NEW i \in InstancesIn, NEW j \in InstancesIn,
                       name[i] = name[j]
                PROVE  i = j
    BY DEF NamesAreUnique
  <2>1. Ever(stack, index) \subseteq Ever(stack, Len(stack))
    BY DEF NameInv, Ever, StackTyped
  <2>. QED  BY <2>1 DEF NameInv, NamesDiffer
<1>. QED  BY <1>1, NameInvariant, PTL
-------------------------------------------------------------------------------
(* Undo.  A create message from the environment leaves an empty list under a    *)
(* null key, for good; without that key (Seen) a chart is one of MscUndo's, and *)
(* its history is traced as there.                                              *)

\* A chart that may have the null key.
Real(c) ==
  /\ DOMAIN c = Fields
  /\ c.events = [i \in DOMAIN c.events |-> c.events[i]]
  /\ NoInstance \in DOMAIN c.events => c.events[NoInstance] = << >>
Keyed(c) == Real(c) /\ Good(Seen(c))

\* The two charts have the same parts, those that no command here looks at aside.
Alike(c, d) ==
  /\ DOMAIN c = Fields /\ DOMAIN d = Fields
  /\ d.instances = c.instances /\ d.events = c.events /\ d.orphans = c.orphans
  /\ d.source = c.source /\ d.target = c.target /\ d.creator = c.creator /\ d.alive = c.alive

LEMMA SeenIs ==
  ASSUME NEW c, Real(c)
  PROVE  /\ DOMAIN Seen(c) = Fields
         /\ Seen(c).instances = c.instances /\ Seen(c).orphans = c.orphans
         /\ Seen(c).source = c.source /\ Seen(c).target = c.target
         /\ Seen(c).creator = c.creator /\ Seen(c).alive = c.alive
         /\ Seen(c).events = [i \in DOMAIN c.events \ {NoInstance} |-> c.events[i]]
         /\ InChart(Seen(c)) = InChart(c)
         /\ \A i : Lifeline(Seen(c), i) = Lifeline(c, i)
         /\ \A e : Pair(Seen(c), e) = Pair(c, e)
<1>. DEFINE d == Seen(c)
<1>1. /\ DOMAIN d = Fields
      /\ d.instances = c.instances /\ d.orphans = c.orphans
      /\ d.source = c.source /\ d.target = c.target
      /\ d.creator = c.creator /\ d.alive = c.alive
      /\ d.events = [i \in DOMAIN c.events \ {NoInstance} |-> c.events[i]]
  BY DEF Seen, Real, Fields, Restrict
<1>. HIDE DEF d
<1>2. \A i : Lifeline(d, i) = Lifeline(c, i)
  BY <1>1 DEF Lifeline, Real
<1>3. \A x : x \in InChart(d) <=> x \in InChart(c)
  <2>1. Range(<< >>) = {}
    BY DEF Range
  <2>2. \A i \in DOMAIN c.events \ {NoInstance} : d.events[i] = c.events[i]
    BY <1>1
  <2>3. DOMAIN d.events = DOMAIN c.events \ {NoInstance}
    BY <1>1
  <2>4. \A i \in DOMAIN c.events : i = NoInstance => Range(c.events[i]) = {}
    BY <2>1 DEF Real
  <2>. QED  BY <1>1, <2>2, <2>3, <2>4, InChartIs
<1>4. \A e : Pair(d, e) = Pair(c, e)
  BY <1>1 DEF Pair
<1>. QED  BY <1>1, <1>2, <1>3, <1>4 DEF d

\* The same parts, the same chart, for what follows.
LEMMA AlikeIsGood ==
  ASSUME NEW c, Shaped(c), NEW d, Alike(c, d)
  PROVE  Shaped(d) /\ Same(c, d)
  BY DEF Alike, Shaped, Same, Pair

\* A good chart has no null key to lose.
LEMMA SeenGood ==
  ASSUME NEW c, Shaped(c)
  PROVE  Real(c) /\ Alike(c, Seen(c))
<1>1. DOMAIN c = Fields /\ DOMAIN c.events = Range(c.instances) /\ Range(c.instances) \subseteq Instances
  BY ShapedParts DEF Shaped
<1>2. NoInstance \notin DOMAIN c.events /\ c.events = [i \in DOMAIN c.events |-> c.events[i]]
  BY <1>1, KindsDiffer DEF Shaped
<1>3. Real(c)
  BY <1>1, <1>2 DEF Real
<1>4. DOMAIN c.events \ {NoInstance} = DOMAIN c.events
  BY <1>2
<1>5. Seen(c).events = c.events
  BY <1>2, <1>3, <1>4, SeenIs
<1>. QED  BY <1>1, <1>3, <1>5, SeenIs DEF Alike

\* What is seen of a chart is what is seen of its view.
LEMMA SeenView ==
  ASSUME NEW c, Real(c)
  PROVE  View(Seen(c)) = Seen(View(c))
<1>. DEFINE d == Seen(c)
            r == [i \in DOMAIN c.events \ {NoInstance} |-> c.events[i]]
<1>1. /\ d.instances = c.instances /\ d.orphans = c.orphans
      /\ d.source = c.source /\ d.target = c.target /\ d.creator = c.creator
      /\ d.events = r /\ InChart(d) = InChart(c)
  BY SeenIs
<1>2. View(c).events = c.events
  BY DEF View
<1>3. Seen(View(c)) = [View(c) EXCEPT !.events = r]
  BY <1>2 DEF Seen, Restrict
<1>. HIDE DEF d, r
<1>4. [View(c) EXCEPT !.events = r] =
        [instances |-> c.instances, events |-> r, orphans |-> Range(c.orphans),
         ends |-> [e \in InChart(c) |-> <<c.source[e], c.target[e]>>],
         creator |-> [i \in Range(c.instances) |-> c.creator[i]]]
  <2>1. \A m, v, o, f, k, w : [[instances |-> m, events |-> v, orphans |-> o, ends |-> f, creator |-> k] EXCEPT !.events = w]
                               = [instances |-> m, events |-> w, orphans |-> o, ends |-> f, creator |-> k]
    OBVIOUS
  <2>. DEFINE f == [e \in InChart(c) |-> <<c.source[e], c.target[e]>>]
              k == [i \in Range(c.instances) |-> c.creator[i]]
  <2>2. View(c) = [instances |-> c.instances, events |-> c.events, orphans |-> Range(c.orphans),
                   ends |-> f, creator |-> k]
    BY DEF View
  <2>. HIDE DEF f, k
  <2>3. [View(c) EXCEPT !.events = r] =
          [instances |-> c.instances, events |-> r, orphans |-> Range(c.orphans), ends |-> f, creator |-> k]
    BY <2>1, <2>2
  <2>. QED  BY <2>3 DEF f, k
<1>5. View(d) =
        [instances |-> c.instances, events |-> r, orphans |-> Range(c.orphans),
         ends |-> [e \in InChart(c) |-> <<c.source[e], c.target[e]>>],
         creator |-> [i \in Range(c.instances) |-> c.creator[i]]]
  BY <1>1 DEF View
<1>. QED  BY <1>3, <1>4, <1>5 DEF d

\* A new instance is the same step with the null key and without.
LEMMA AddInstanceSeen ==
  ASSUME NEW x, Real(x), NEW i \in Instances, NEW pos
  PROVE  Real(AddInstance(x, i, pos)) /\ Alike(AddInstance(Seen(x), i, pos), Seen(AddInstance(x, i, pos)))
<1>. DEFINE s == Seen(x)
            y == AddInstance(x, i, pos)
            z == AddInstance(s, i, pos)
            rel == KeepOnly(x.orphans, {e \in Events : RelatesTo(x, e, i)})
<1>0. i # NoInstance
  BY KindsDiffer
<1>1. /\ DOMAIN s = Fields
      /\ s.instances = x.instances /\ s.orphans = x.orphans
      /\ s.source = x.source /\ s.target = x.target
      /\ s.creator = x.creator /\ s.alive = x.alive
      /\ s.events = [j \in DOMAIN x.events \ {NoInstance} |-> x.events[j]]
      /\ \A j : Lifeline(s, j) = Lifeline(x, j)
  BY SeenIs
<1>. HIDE DEF s
<1>2. CASE i \in Range(x.instances)
  <2>1. y = x /\ z = s
    BY <1>1, <1>2 DEF AddInstance
  <2>. QED  BY <1>1, <2>1 DEF Alike, s
<1>3. CASE i \notin Range(x.instances)
  <2>1. KeepOnly(s.orphans, {e \in Events : RelatesTo(s, e, i)}) = rel
    BY <1>1 DEF RelatesTo
  <2>. HIDE DEF rel
  <2>2. /\ DOMAIN y = Fields /\ y.instances = InsertOrAppend(x.instances, pos, i)
        /\ y.orphans = x.orphans /\ y.source = x.source /\ y.target = x.target /\ y.creator = x.creator
        /\ y.alive = (x.alive /\ Range(rel) \cap Range(Lifeline(x, i)) = {})
        /\ y.events = [j \in DOMAIN x.events \cup {i} |-> IF j = i THEN Lifeline(x, i) \o rel ELSE x.events[j]]
    BY <1>3 DEF AddInstance, SetLifeline, Real, Fields, rel
  <2>3. /\ DOMAIN z = Fields /\ z.instances = InsertOrAppend(s.instances, pos, i)
        /\ z.orphans = s.orphans /\ z.source = s.source /\ z.target = s.target /\ z.creator = s.creator
        /\ z.alive = (s.alive /\ Range(rel) \cap Range(Lifeline(s, i)) = {})
        /\ z.events = [j \in DOMAIN s.events \cup {i} |-> IF j = i THEN Lifeline(s, i) \o rel ELSE s.events[j]]
    <3>1. z = SetLifeline([s EXCEPT !.instances = InsertOrAppend(@, pos, i),
                                    !.alive = @ /\ Range(rel) \cap Range(Lifeline(s, i)) = {}],
                          i, Lifeline(s, i) \o rel)
      BY <1>1, <1>3, <2>1 DEF AddInstance
    <3>. QED  BY <1>1, <3>1 DEF SetLifeline, Fields
  <2>. HIDE DEF y, z
  <2>4. Real(y)
    <3>1. y.events = [j \in DOMAIN y.events |-> y.events[j]]
      BY <2>2
    <3>. QED  BY <1>0, <2>2, <3>1 DEF Real
  <2>5. Seen(y).events = z.events
    <3>1. Seen(y).events = [j \in DOMAIN y.events \ {NoInstance} |-> y.events[j]]
      BY <2>4, SeenIs
    <3>2. z.events = [j \in (DOMAIN x.events \cup {i}) \ {NoInstance} |->
                        IF j = i THEN Lifeline(x, i) \o rel ELSE x.events[j]]
      BY <1>0, <1>1, <2>3
    <3>. QED  BY <2>2, <3>1, <3>2
  <2>6. Seen(y).alive = z.alive
    <3>1. Seen(y).alive = y.alive /\ Lifeline(s, i) = Lifeline(x, i) /\ s.alive = x.alive
      BY <1>1, <2>4, SeenIs
    <3>2. z.alive = (x.alive /\ Range(rel) \cap Range(Lifeline(x, i)) = {})
      BY <2>3, <3>1, Zenon
    <3>. QED  BY <2>2, <3>1, <3>2, Zenon
  <2>7. Alike(z, Seen(y))
    <3>1. /\ DOMAIN Seen(y) = Fields /\ Seen(y).instances = y.instances /\ Seen(y).orphans = y.orphans
          /\ Seen(y).source = y.source /\ Seen(y).target = y.target /\ Seen(y).creator = y.creator
      BY <2>4, SeenIs
    <3>. QED  BY <1>1, <2>2, <2>3, <2>5, <2>6, <3>1 DEF Alike
  <2>. QED  BY <2>4, <2>7 DEF y, z, s
<1>. QED  BY <1>2, <1>3

LEMMA RemoveInstanceSeen ==
  ASSUME NEW x, Real(x), NEW i \in Instances
  PROVE  Real(RemoveInstance(x, i)) /\ Alike(RemoveInstance(Seen(x), i), Seen(RemoveInstance(x, i)))
<1>. DEFINE s == Seen(x)
            y == RemoveInstance(x, i)
            z == RemoveInstance(s, i)
<1>1. /\ DOMAIN s = Fields
      /\ s.instances = x.instances /\ s.orphans = x.orphans
      /\ s.source = x.source /\ s.target = x.target
      /\ s.creator = x.creator /\ s.alive = x.alive
      /\ s.events = [j \in DOMAIN x.events \ {NoInstance} |-> x.events[j]]
  BY SeenIs
<1>. HIDE DEF s
<1>2. CASE i \notin Range(x.instances)
  <2>1. y = x /\ z = s
    BY <1>1, <1>2 DEF RemoveInstance
  <2>. QED  BY <1>1, <2>1 DEF Alike, s
<1>3. CASE i \in Range(x.instances)
  <2>2. /\ DOMAIN y = Fields /\ y.instances = RemoveAll(x.instances, i)
        /\ y.orphans = x.orphans /\ y.source = x.source /\ y.target = x.target /\ y.creator = x.creator
        /\ y.alive = x.alive /\ y.events = [j \in DOMAIN x.events \ {i} |-> x.events[j]]
    BY <1>3 DEF RemoveInstance, Restrict, Real, Fields
  <2>3. /\ DOMAIN z = Fields /\ z.instances = RemoveAll(s.instances, i)
        /\ z.orphans = s.orphans /\ z.source = s.source /\ z.target = s.target /\ z.creator = s.creator
        /\ z.alive = s.alive /\ z.events = [j \in DOMAIN s.events \ {i} |-> s.events[j]]
    BY <1>1, <1>3 DEF RemoveInstance, Restrict, Fields
  <2>. HIDE DEF y, z
  <2>4. Real(y)
    <3>1. y.events = [j \in DOMAIN y.events |-> y.events[j]]
      BY <2>2
    <3>. QED  BY <2>2, <3>1 DEF Real
  <2>5. Seen(y).events = z.events
    <3>1. Seen(y).events = [j \in DOMAIN y.events \ {NoInstance} |-> y.events[j]]
      BY <2>4, SeenIs
    <3>2. z.events = [j \in (DOMAIN x.events \ {i}) \ {NoInstance} |-> x.events[j]]
      BY <1>1, <2>3
    <3>. QED  BY <2>2, <3>1, <3>2
  <2>6. Alike(z, Seen(y))
    BY <1>1, <2>2, <2>3, <2>4, <2>5, SeenIs DEF Alike
  <2>. QED  BY <2>4, <2>6 DEF y, z, s
<1>. QED  BY <1>2, <1>3

LEMMA RemoveEventsSeen ==
  ASSUME NEW x, Real(x), NEW E
  PROVE  /\ Real(RemoveInstanceEvents(x, E))
         /\ Alike(RemoveInstanceEvents(Seen(x), E), Seen(RemoveInstanceEvents(x, E)))
<1>. DEFINE s == Seen(x)
            y == RemoveInstanceEvents(x, E)
            z == RemoveInstanceEvents(s, E)
            cr == [i \in Instances |->
                     IF \E e \in E \cap Creates : x.target[e] = i THEN NoInstance ELSE x.creator[i]]
<1>1. /\ DOMAIN s = Fields
      /\ s.instances = x.instances /\ s.orphans = x.orphans
      /\ s.source = x.source /\ s.target = x.target
      /\ s.creator = x.creator /\ s.alive = x.alive
      /\ s.events = [j \in DOMAIN x.events \ {NoInstance} |-> x.events[j]]
  BY SeenIs
<1>. HIDE DEF s
<1>2. /\ DOMAIN y = Fields /\ y.instances = x.instances /\ y.orphans = KeepOnly(x.orphans, Events \ E)
      /\ y.source = x.source /\ y.target = x.target /\ y.creator = cr
      /\ y.alive = x.alive /\ y.events = [j \in DOMAIN x.events |-> KeepOnly(x.events[j], Events \ E)]
  BY DEF RemoveInstanceEvents, Real, Fields
<1>3. /\ DOMAIN z = Fields /\ z.instances = s.instances /\ z.orphans = KeepOnly(s.orphans, Events \ E)
      /\ z.source = s.source /\ z.target = s.target /\ z.creator = cr
      /\ z.alive = s.alive /\ z.events = [j \in DOMAIN s.events |-> KeepOnly(s.events[j], Events \ E)]
  BY <1>1 DEF RemoveInstanceEvents, Fields
<1>. HIDE DEF y, z, cr
<1>4. Real(y)
  <2>1. y.events = [j \in DOMAIN y.events |-> y.events[j]]
    BY <1>2
  <2>2. KeepOnly(<< >>, Events \ E) = << >>
    <3>1. << >> \in Seq({}) /\ NoRepeat(<< >>) /\ Range(<< >>) = {}
      BY DEF NoRepeat, Range
    <3>. QED  BY <3>1, KeepAll
  <2>3. NoInstance \in DOMAIN y.events => y.events[NoInstance] = << >>
    BY <1>2, <2>2 DEF Real
  <2>. QED  BY <1>2, <2>1, <2>3 DEF Real
<1>5. Seen(y).events = z.events
  <2>1. Seen(y).events = [j \in DOMAIN y.events \ {NoInstance} |-> y.events[j]]
    BY <1>4, SeenIs
  <2>2. z.events = [j \in DOMAIN x.events \ {NoInstance} |-> KeepOnly(x.events[j], Events \ E)]
    BY <1>1, <1>3
  <2>. QED  BY <1>2, <2>1, <2>2
<1>6. Alike(z, Seen(y))
  <2>1. /\ DOMAIN Seen(y) = Fields
        /\ Seen(y).instances = y.instances /\ Seen(y).orphans = y.orphans
        /\ Seen(y).source = y.source /\ Seen(y).target = y.target
        /\ Seen(y).creator = y.creator /\ Seen(y).alive = y.alive
    BY <1>4, SeenIs
  <2>. QED  BY <1>1, <1>2, <1>3, <1>5, <2>1 DEF Alike
<1>. QED  BY <1>4, <1>6 DEF y, z, s

\* The places follow from the lifelines and the ends.
LEMMA CreatePositionsSame ==
  ASSUME NEW x, NEW y, \A j : Lifeline(x, j) = Lifeline(y, j), x.source = y.source, x.target = y.target,
         NEW e, NEW at
  PROVE  CreatePositions(x, e, at) = CreatePositions(y, e, at)
<1>. DEFINE same(c)  == {k \in DOMAIN Lifeline(c, c.source[e]) :
                           /\ Lifeline(c, c.source[e])[k] \in Messages
                           /\ c.target[Lifeline(c, c.source[e])[k]] = c.target[e]}
            first(c) == CHOOSE k \in same(c) : \A j \in same(c) : k <= j
            home(c)  == c.source[Lifeline(c, c.source[e])[first(c)]]
            front(c) == IF c.target[e] = NoInstance THEN at ELSE WithPosition(at, c.target[e], 0)
            spot(c)  == IndexOf(Lifeline(c, home(c)), Lifeline(c, c.source[e])[first(c)])
<1>1. \A c : CreatePositions(c, e, at) =
               IF same(c) = {} THEN front(c) ELSE WithPosition(front(c), home(c), spot(c))
  BY DEF CreatePositions
<1>2. Lifeline(x, x.source[e]) = Lifeline(y, y.source[e])
  OBVIOUS
<1>3. same(x) = same(y)
  BY <1>2
<1>4. first(x) = first(y)
  BY <1>3
<1>5. home(x) = home(y)
  BY <1>2, <1>4
<1>6. front(x) = front(y) /\ spot(x) = spot(y)
  BY <1>2, <1>4, <1>5
<1>. HIDE DEF same, home, front, spot
<1>. QED  BY <1>1, <1>3, <1>5, <1>6

\* A new event, one from the environment included, goes to its places.
LEMMA AddEventSeen ==
  ASSUME NEW x, Keyed(x), NEW e, Comes(Seen(x), e), NEW at \in [EndsOf(Seen(x), e) -> Int]
  PROVE  /\ Real(AddInstanceEvent(x, e, at))
         /\ WithEvent(Seen(x), e, Places(Seen(x), e, at), Seen(AddInstanceEvent(x, e, at)))
<1>. DEFINE c  == Seen(x)
            y  == AddInstanceEvent(x, e, at)
            p  == Places(c, e, at)
            S  == EndsOf(c, e)
            s  == c.source[e]
            t  == c.target[e]
            N  == IF e \in Creates THEN {s} ELSE {}
            cr == IF e \in Creates THEN [c.creator EXCEPT ![t] = s] ELSE c.creator
            x1 == IF e \in Creates /\ t # NoInstance THEN [x EXCEPT !.creator[t] = s] ELSE x
            x2 == IF e \in Creates THEN SetLifeline(x1, s, Lifeline(x1, s)) ELSE x1
<1>1. /\ DOMAIN x = Fields /\ DOMAIN c = Fields
      /\ c.instances = x.instances /\ c.orphans = x.orphans
      /\ c.source = x.source /\ c.target = x.target
      /\ c.creator = x.creator /\ c.alive = x.alive
      /\ c.events = [j \in DOMAIN x.events \ {NoInstance} |-> x.events[j]]
      /\ \A j : Lifeline(c, j) = Lifeline(x, j)
  BY SeenIs DEF Keyed, Real
<1>2. Good(c) /\ Shaped(c) /\ Comes(c, e) /\ at \in [S -> Int] /\ DOMAIN at = S
  BY DEF Keyed, Good
<1>. HIDE DEF c
<1>3. /\ DOMAIN c.events = Range(c.instances) /\ Range(c.instances) \subseteq Instances
      /\ e \in Messages \cup Locals /\ e \in Events /\ S \subseteq Range(c.instances) /\ S # {}
      /\ NoInstance \notin S /\ NoInstance \notin Range(c.instances)
  BY <1>2, ShapedParts, KindsDiffer DEF Comes, EndsOf
<1>4. p \in [S -> Int]
  BY <1>2, PlacesAre
<1>5. e \in Creates => s \in Range(c.instances) \cup {NoInstance} /\ t \in Instances /\ t # NoInstance
  BY <1>2, <1>3, KindsDiffer DEF Comes
<1>6. /\ DOMAIN x2 = Fields /\ x2.source = c.source /\ x2.target = c.target
      /\ x2.instances = c.instances /\ x2.orphans = c.orphans /\ x2.creator = cr /\ x2.alive = c.alive
      /\ x2.events = [j \in DOMAIN x.events \cup N |-> Lifeline(x, j)]
  <2>0. x.events = [j \in DOMAIN x.events |-> x.events[j]] /\ \A j \in DOMAIN x.events : Lifeline(x, j) = x.events[j]
    BY DEF Keyed, Real, Lifeline
  <2>1. CASE e \notin Creates
    <3>1. [j \in DOMAIN x.events \cup N |-> Lifeline(x, j)] = [j \in DOMAIN x.events |-> x.events[j]]
      BY <2>0, <2>1
    <3>. QED  BY <1>1, <2>0, <2>1, <3>1
  <2>2. CASE e \in Creates
    <3>1. /\ DOMAIN x1 = Fields /\ x1.events = x.events /\ x1.source = c.source /\ x1.target = c.target
          /\ x1.instances = c.instances /\ x1.orphans = c.orphans /\ x1.creator = cr /\ x1.alive = c.alive
      BY <1>1, <1>5, <2>2 DEF Fields
    <3>. HIDE DEF x1
    <3>2. Lifeline(x1, s) = Lifeline(x, s)
      BY <3>1 DEF Lifeline
    <3>3. [j \in DOMAIN x.events \cup {s} |-> IF j = s THEN Lifeline(x, s) ELSE x.events[j]]
            = [j \in DOMAIN x.events \cup N |-> Lifeline(x, j)]
      BY <2>0, <2>2
    <3>4. x2 = [x1 EXCEPT !.events = [j \in DOMAIN x.events \cup N |-> Lifeline(x, j)]]
      BY <2>2, <3>1, <3>2, <3>3 DEF SetLifeline
    <3>. QED  BY <3>1, <3>4 DEF Fields
  <2>. QED  BY <2>1, <2>2
<1>. HIDE DEF x2, cr
<1>7. \A j : Lifeline(x2, j) = Lifeline(x, j)
  <2>. SUFFICES ASSUME NEW j  PROVE Lifeline(x2, j) = Lifeline(x, j)
    OBVIOUS
  <2>1. CASE j \in DOMAIN x.events \cup N
    BY <1>6, <2>1 DEF Lifeline
  <2>2. CASE j \notin DOMAIN x.events \cup N
    BY <1>6, <2>2 DEF Lifeline
  <2>. QED  BY <2>1, <2>2
<1>8. CreatePositions(x2, e, at) = CreatePositions(c, e, at)
  <2>1. \A j : Lifeline(x2, j) = Lifeline(c, j)
    BY <1>1, <1>7
  <2>. HIDE DEF x2
  <2>. QED  BY <1>6, <2>1, CreatePositionsSame
<1>9. y = [x2 EXCEPT
             !.events  = [i \in DOMAIN @ \cup DOMAIN p |->
                            IF i \in DOMAIN p THEN InsertOrAppend(Lifeline(x2, i), p[i], e) ELSE @[i]],
             !.orphans = IF DOMAIN p = {} THEN Append(@, e) ELSE @,
             !.slots[e] = Counted(@ + 1)]
  <2>. DEFINE at2 == IF e \in Creates THEN CreatePositions(x2, e, at) ELSE at
  <2>1. p = at2
    BY <1>8 DEF Places
  <2>2. ~ \E i \in DOMAIN at : ~RelatesTo(x, e, i) \/ i \notin DOMAIN x.events
    <3>1. e \notin Messages => t = NoInstance
      BY <1>2, <1>3, KindsDiffer DEF Shaped
    <3>2. \A i \in S : RelatesTo(x, e, i)
      BY <1>1, <1>3, <3>1 DEF RelatesTo, EndsOf
    <3>3. \A i \in S : i \in DOMAIN x.events
      BY <1>1, <1>3
    <3>. QED  BY <1>2, <3>2, <3>3
  <2>3. y = [x2 EXCEPT
             !.events  = [i \in DOMAIN @ \cup DOMAIN at2 |->
                            IF i \in DOMAIN at2 THEN InsertOrAppend(Lifeline(x2, i), at2[i], e) ELSE @[i]],
             !.orphans = IF DOMAIN at2 = {} THEN Append(@, e) ELSE @,
             !.slots[e] = Counted(@ + 1)]
    BY <1>1, <2>2 DEF AddInstanceEvent, x2
  <2>. HIDE DEF y, p, at2
  <2>. QED  BY <2>1, <2>3
<1>. HIDE DEF p, y
<1>10. /\ DOMAIN y = Fields /\ y.instances = x2.instances /\ y.orphans = x2.orphans
       /\ y.source = x2.source /\ y.target = x2.target /\ y.creator = x2.creator /\ y.alive = x2.alive
       /\ y.events = [i \in DOMAIN x2.events \cup S |->
                        IF i \in S THEN InsertOrAppend(Lifeline(x2, i), p[i], e) ELSE x2.events[i]]
  <2>1. DOMAIN p = S /\ S # {}
    BY <1>3, <1>4
  <2>. QED  BY <1>6, <1>9, <2>1 DEF Fields
<1>11. Real(y)
  <2>1. y.events = [j \in DOMAIN y.events |-> y.events[j]]
    BY <1>10
  <2>2. NoInstance \in DOMAIN y.events => y.events[NoInstance] = Lifeline(x, NoInstance)
    BY <1>3, <1>6, <1>10
  <2>3. Lifeline(x, NoInstance) = << >>
    BY DEF Keyed, Real, Lifeline
  <2>. QED  BY <1>10, <2>1, <2>2, <2>3 DEF Real
<1>12. Seen(y).events = [j \in Range(c.instances) |->
                           IF j \in S THEN InsertOrAppend(c.events[j], p[j], e) ELSE c.events[j]]
  <2>1. Seen(y).events = [j \in DOMAIN y.events \ {NoInstance} |-> y.events[j]]
    BY <1>11, SeenIs
  <2>2. DOMAIN y.events \ {NoInstance} = Range(c.instances)
    <3>1. DOMAIN y.events = DOMAIN x.events \cup N \cup S
      BY <1>6, <1>10
    <3>2. DOMAIN x.events \ {NoInstance} = Range(c.instances)
      BY <1>1, <1>3
    <3>. QED  BY <1>3, <1>5, <3>1, <3>2
  <2>3. \A j \in Range(c.instances) : Lifeline(x2, j) = c.events[j] /\ (j \in DOMAIN x2.events => x2.events[j] = c.events[j])
    <3>. SUFFICES ASSUME NEW j \in Range(c.instances)
                  PROVE  Lifeline(x2, j) = c.events[j] /\ (j \in DOMAIN x2.events => x2.events[j] = c.events[j])
      OBVIOUS
    <3>1. Lifeline(x, j) = c.events[j]
      BY <1>1, <1>3 DEF Lifeline
    <3>. QED  BY <1>6, <1>7, <3>1
  <2>4. \A j \in Range(c.instances) : j \in DOMAIN x2.events
    BY <1>1, <1>3, <1>6
  <2>. QED  BY <1>10, <2>1, <2>2, <2>3, <2>4
<1>13. EventPut(c, e, p, Seen(y))
  BY <1>6, <1>10, <1>11, <1>12, SeenIs DEF EventPut, cr
<1>14. WithEvent(c, e, p, Seen(y))
  BY <1>2, <1>4, <1>13, PutIsWithEvent
<1>. QED  BY <1>11, <1>14 DEF y, p, c
-------------------------------------------------------------------------------
(* The commands of the remote control, on charts that may have the null key.    *)

\* The command leads between all charts that are seen as c and as d, as in MscUndo's.
RedoSeen(c, cmd, d) ==
  \A x : Keyed(x) /\ Same(c, Seen(x)) /\ (\A e \in InChart(d) \ InChart(c) : Pair(Seen(x), e) = Pair(d, e))
    => LET y == Redo(x, cmd)
       IN  Real(y) /\ Shaped(Seen(y)) /\ Same(d, Seen(y)) /\ Keeps(Seen(x), Seen(y), c, d)
UndoSeen(d, cmd, c) ==
  \A x : Keyed(x) /\ Same(d, Seen(x)) /\ (\A e \in InChart(c) \ InChart(d) : Pair(Seen(x), e) = Pair(c, e))
    => LET y == Undo(x, cmd)
       IN  Real(y) /\ Shaped(Seen(y)) /\ Same(c, Seen(y)) /\ Keeps(Seen(x), Seen(y), c, d)

\* The same of views.
Brings(V, cmd, W) ==
  \A c : Keyed(c) /\ View(Seen(c)) = V /\ EndsFit(Seen(c), V, W)
    => LET d == Redo(c, cmd) IN Keyed(d) /\ View(Seen(d)) = W /\ EndsKept(Seen(c), Seen(d), V, W)
Returns(V, cmd, W) ==
  \A c : Keyed(c) /\ View(Seen(c)) = W /\ EndsFit(Seen(c), W, V)
    => LET d == Undo(c, cmd) IN Keyed(d) /\ View(Seen(d)) = V /\ EndsKept(Seen(c), Seen(d), V, W)

LEMMA SeenLeads ==
  ASSUME NEW c, Good(c), NEW d, Good(d), NEW cmd, RedoSeen(c, cmd, d), UndoSeen(d, cmd, c)
  PROVE  Brings(View(c), cmd, View(d)) /\ Returns(View(c), cmd, View(d))
<1>. DEFINE V == View(c)
            W == View(d)
<1>1. /\ DOMAIN V.ends = InChart(c) /\ \A e \in InChart(c) : V.ends[e] = Pair(c, e)
      /\ DOMAIN W.ends = InChart(d) /\ \A e \in InChart(d) : W.ends[e] = Pair(d, e)
  BY DEF View, Pair
<1>2. Brings(V, cmd, W)
  <2>. SUFFICES ASSUME NEW x, Keyed(x), View(Seen(x)) = V, EndsFit(Seen(x), V, W)
                PROVE  LET y == Redo(x, cmd)
                       IN  Keyed(y) /\ View(Seen(y)) = W /\ EndsKept(Seen(x), Seen(y), V, W)
    BY DEF Brings
  <2>. DEFINE y == Redo(x, cmd)
  <2>1. Same(c, Seen(x))
    BY SameIsView DEF Keyed
  <2>2. \A e \in InChart(d) \ InChart(c) : Pair(Seen(x), e) = Pair(d, e)
    BY <1>1 DEF EndsFit
  <2>3. Real(y) /\ Shaped(Seen(y)) /\ Same(d, Seen(y)) /\ Keeps(Seen(x), Seen(y), c, d)
    BY <2>1, <2>2 DEF RedoSeen
  <2>. HIDE DEF y
  <2>4. Good(Seen(y))
    BY <2>3, SameIsGood
  <2>5. View(Seen(y)) = W
    BY <2>3, <2>4, SameIsView
  <2>6. EndsKept(Seen(x), Seen(y), V, W)
    BY <1>1, <2>3 DEF EndsKept, Keeps
  <2>. QED  BY <2>3, <2>4, <2>5, <2>6 DEF y, Keyed
<1>3. Returns(V, cmd, W)
  <2>. SUFFICES ASSUME NEW x, Keyed(x), View(Seen(x)) = W, EndsFit(Seen(x), W, V)
                PROVE  LET y == Undo(x, cmd)
                       IN  Keyed(y) /\ View(Seen(y)) = V /\ EndsKept(Seen(x), Seen(y), V, W)
    BY DEF Returns
  <2>. DEFINE y == Undo(x, cmd)
  <2>1. Same(d, Seen(x))
    BY SameIsView DEF Keyed
  <2>2. \A e \in InChart(c) \ InChart(d) : Pair(Seen(x), e) = Pair(c, e)
    BY <1>1 DEF EndsFit
  <2>3. Real(y) /\ Shaped(Seen(y)) /\ Same(c, Seen(y)) /\ Keeps(Seen(x), Seen(y), c, d)
    BY <2>1, <2>2 DEF UndoSeen
  <2>. HIDE DEF y
  <2>4. Good(Seen(y))
    BY <2>3, SameIsGood
  <2>5. View(Seen(y)) = V
    BY <2>3, <2>4, SameIsView
  <2>6. EndsKept(Seen(x), Seen(y), V, W)
    BY <1>1, <2>3 DEF EndsKept, Keeps
  <2>. QED  BY <2>3, <2>4, <2>5, <2>6 DEF y, Keyed
<1>. QED  BY <1>2, <1>3

\* From a chart that has the null key the command does what it does without.
FromSeen(x, y, z) == Real(y) /\ Alike(z, Seen(y))

LEMMA SeenFollows ==
  ASSUME NEW x, NEW y, NEW z, FromSeen(x, y, z), NEW w, NEW c, NEW d,
         Shaped(z), Same(w, z), Keeps(Seen(x), z, c, d)
  PROVE  Real(y) /\ Shaped(Seen(y)) /\ Same(w, Seen(y)) /\ Keeps(Seen(x), Seen(y), c, d)
<1>. DEFINE s == Seen(y)
<1>1. Real(y) /\ Alike(z, s)
  BY DEF FromSeen
<1>. HIDE DEF s
<1>2. Shaped(s) /\ Same(z, s)
  BY <1>1, AlikeIsGood
<1>3. \A e : Pair(s, e) = Pair(z, e)
  BY <1>1 DEF Alike, Pair
<1>4. Same(w, s)
  BY <1>2, <1>3 DEF Same
<1>5. Keeps(Seen(x), s, c, d)
  BY <1>3 DEF Keeps
<1>. QED  BY <1>1, <1>2, <1>4, <1>5 DEF s

\* A command that works on the charts of MscUndo and does the same with the key.
LEMMA WorksSeen ==
  ASSUME NEW c, NEW cmd, NEW d, RedoTo(c, cmd, d), UndoTo(d, cmd, c),
         \A x : Real(x) => /\ FromSeen(x, Redo(x, cmd), Redo(Seen(x), cmd))
                           /\ FromSeen(x, Undo(x, cmd), Undo(Seen(x), cmd))
  PROVE  RedoSeen(c, cmd, d) /\ UndoSeen(d, cmd, c)
<1>1. RedoSeen(c, cmd, d)
  <2>. SUFFICES ASSUME NEW x, Keyed(x), Same(c, Seen(x)),
                       \A e \in InChart(d) \ InChart(c) : Pair(Seen(x), e) = Pair(d, e)
                PROVE  LET y == Redo(x, cmd)
                       IN  Real(y) /\ Shaped(Seen(y)) /\ Same(d, Seen(y)) /\ Keeps(Seen(x), Seen(y), c, d)
    BY DEF RedoSeen
  <2>. DEFINE y == Redo(x, cmd)
              z == Redo(Seen(x), cmd)
  <2>1. Shaped(z) /\ Same(d, z) /\ Keeps(Seen(x), z, c, d)
    BY DEF RedoTo, Keyed
  <2>2. FromSeen(x, y, z)
    BY DEF Keyed
  <2>. HIDE DEF y, z
  <2>. QED  BY <2>1, <2>2, SeenFollows DEF y
<1>2. UndoSeen(d, cmd, c)
  <2>. SUFFICES ASSUME NEW x, Keyed(x), Same(d, Seen(x)),
                       \A e \in InChart(c) \ InChart(d) : Pair(Seen(x), e) = Pair(c, e)
                PROVE  LET y == Undo(x, cmd)
                       IN  Real(y) /\ Shaped(Seen(y)) /\ Same(c, Seen(y)) /\ Keeps(Seen(x), Seen(y), c, d)
    BY DEF UndoSeen
  <2>. DEFINE y == Undo(x, cmd)
              z == Undo(Seen(x), cmd)
  <2>1. Shaped(z) /\ Same(c, z) /\ Keeps(Seen(x), z, c, d)
    BY DEF UndoTo, Keyed
  <2>2. FromSeen(x, y, z)
    BY DEF Keyed
  <2>. HIDE DEF y, z
  <2>. QED  BY <2>1, <2>2, SeenFollows DEF y
<1>. QED  BY <1>1, <1>2

\* What a command does to a chart with the key.
SeenWorks(c, cmd, d) ==
  /\ Keyed(d) /\ Brings(View(Seen(c)), cmd, View(Seen(d))) /\ Returns(View(Seen(c)), cmd, View(Seen(d)))
  /\ Added(Seen(c), cmd, Seen(d))

LEMMA SeenInstance ==
  ASSUME NEW c, Keyed(c), NEW i \in Instances \ Range(c.instances)
  PROVE  LET cmd == [kind |-> "instance", i |-> i, pos |-> -1]
         IN  /\ SeenWorks(c, cmd, Redo(c, cmd))
             /\ Range(Redo(c, cmd).instances) = Range(c.instances) \cup {i}
<1>. DEFINE cmd == [kind |-> "instance", i |-> i, pos |-> -1]
            s   == Seen(c)
            z   == Redo(s, cmd)
            y   == Redo(c, cmd)
<1>1. \A x : Redo(x, cmd) = AddInstance(x, i, -1) /\ Undo(x, cmd) = RemoveInstance(x, i)
  BY DEF Redo, Undo
<1>2. Good(s) /\ Real(c) /\ i \in Instances \ Range(s.instances) /\ -1 \in Int
  <2>1. Good(s) /\ Real(c)
    BY DEF Keyed
  <2>2. s.instances = c.instances
    BY <2>1, SeenIs
  <2>. QED  BY <2>1, <2>2
<1>3. Works(s, cmd, z)
  BY <1>2, InstanceWorks
<1>4. \A x : Real(x) => /\ FromSeen(x, Redo(x, cmd), Redo(Seen(x), cmd))
                        /\ FromSeen(x, Undo(x, cmd), Undo(Seen(x), cmd))
  BY <1>1, AddInstanceSeen, RemoveInstanceSeen DEF FromSeen
<1>5. Range(y.instances) = Range(c.instances) \cup {i}
  <2>1. HasInstances(s) /\ s.instances = c.instances
    BY <1>2, SeenIs DEF HasInstances, Good, Shaped
  <2>2. HasInstances(c)
    BY <1>2, <2>1 DEF HasInstances, Real
  <2>3. y = AddInstance(c, i, -1)
    BY <1>1
  <2>. HIDE DEF y
  <2>. QED  BY <1>2, <2>2, <2>3, AddInstanceAdds
<1>6. Good(z) /\ RedoTo(s, cmd, z) /\ UndoTo(z, cmd, s) /\ Added(s, cmd, z)
  BY <1>3 DEF Works
<1>7. FromSeen(c, y, z)
  BY <1>2, <1>4
<1>. HIDE DEF z, y, cmd, s
<1>8. RedoSeen(s, cmd, z) /\ UndoSeen(z, cmd, s)
  BY <1>4, <1>6, WorksSeen
<1>9. Brings(View(s), cmd, View(z)) /\ Returns(View(s), cmd, View(z))
  BY <1>2, <1>6, <1>8, SeenLeads
<1>10. Good(Seen(y)) /\ View(Seen(y)) = View(z) /\ Keyed(y)
  <2>1. Real(y) /\ Shaped(z) /\ Alike(z, Seen(y))
    BY <1>6, <1>7 DEF FromSeen, Good
  <2>2. Shaped(Seen(y)) /\ Same(z, Seen(y))
    BY <2>1, AlikeIsGood
  <2>3. Good(Seen(y))
    BY <1>6, <2>2, SameIsGood
  <2>. QED  BY <1>6, <2>1, <2>2, <2>3, SameIsView DEF Keyed
<1>11. Added(s, cmd, Seen(y))
  <2>1. Alike(z, Seen(y))
    BY <1>7 DEF FromSeen
  <2>2. InChart(Seen(y)) = InChart(z) /\ \A e : Pair(Seen(y), e) = Pair(z, e)
    BY <2>1 DEF Alike, InChart, Pair
  <2>. QED  BY <1>6, <2>1, <2>2 DEF Added, Alike
<1>. QED  BY <1>5, <1>9, <1>10, <1>11 DEF SeenWorks, y, cmd, s

LEMMA SeenStop ==
  ASSUME NEW c, Keyed(c), NEW i
  PROVE  LET cmd == [kind |-> "stop", i |-> i]
         IN  SeenWorks(c, cmd, Redo(c, cmd)) /\ Redo(c, cmd) = c
<1>. DEFINE cmd == [kind |-> "stop", i |-> i]
<1>1. \A x : Redo(x, cmd) = x /\ Undo(x, cmd) = x
  BY DEF Redo, Undo
<1>. HIDE DEF cmd
<1>2. Brings(View(Seen(c)), cmd, View(Seen(c))) /\ Returns(View(Seen(c)), cmd, View(Seen(c)))
  BY <1>1 DEF Brings, Returns, EndsKept
<1>3. Added(Seen(c), cmd, Seen(c))
  BY DEF Added
<1>. QED  BY <1>1, <1>2, <1>3 DEF SeenWorks, cmd

LEMMA SeenEvent ==
  ASSUME NEW c, Keyed(c), NEW e, Comes(Seen(c), e), NEW at \in [EndsOf(Seen(c), e) -> Int]
  PROVE  LET cmd == [kind |-> "event", e |-> e, at |-> at]
         IN  SeenWorks(c, cmd, Redo(c, cmd)) /\ Seen(Redo(c, cmd)).instances = Seen(c).instances
<1>. DEFINE cmd == [kind |-> "event", e |-> e, at |-> at]
            s   == Seen(c)
            p   == Places(s, e, at)
            d   == Redo(c, cmd)
            sd  == Seen(d)
<1>1. \A x : Redo(x, cmd) = AddInstanceEvent(x, e, at) /\ Undo(x, cmd) = RemoveInstanceEvents(x, {e})
  BY DEF Redo, Undo
<1>2. cmd.kind = "event" /\ cmd.e = e
  OBVIOUS
<1>. HIDE DEF cmd
<1>3. Good(s) /\ Comes(s, e) /\ at \in [EndsOf(s, e) -> Int]
  BY DEF Keyed
<1>4. Real(d) /\ WithEvent(s, e, p, sd)
  <2>1. d = AddInstanceEvent(c, e, at)
    BY <1>1
  <2>. HIDE DEF d
  <2>. QED  BY <2>1, AddEventSeen
<1>5. p \in [EndsOf(s, e) -> Int]
  BY <1>3, PlacesAre
<1>. HIDE DEF s, p, d
<1>6. Good(sd)
  BY <1>3, <1>4, <1>5, AddEventGood
<1>7. /\ e \in InChart(sd) \ InChart(s) /\ Pair(sd, e) = Pair(s, e) /\ InChart(sd) = InChart(s) \cup {e}
      /\ sd.instances = s.instances /\ sd.source = s.source /\ sd.target = s.target
  BY <1>3, <1>4 DEF WithEvent, Comes, Pair
<1>. HIDE DEF sd
<1>8. RedoSeen(s, cmd, sd)
  <2>. SUFFICES ASSUME NEW x, Keyed(x), Same(s, Seen(x)),
                       \A f \in InChart(sd) \ InChart(s) : Pair(Seen(x), f) = Pair(sd, f)
                PROVE  LET y == Redo(x, cmd)
                       IN  Real(y) /\ Shaped(Seen(y)) /\ Same(sd, Seen(y)) /\ Keeps(Seen(x), Seen(y), s, sd)
    BY DEF RedoSeen
  <2>. DEFINE y  == Redo(x, cmd)
              sx == Seen(x)
              sy == Seen(y)
  <2>1. Good(sx) /\ Same(s, sx) /\ Pair(sx, e) = Pair(s, e)
    BY <1>7 DEF Keyed
  <2>2. y = AddInstanceEvent(x, e, at)
    BY <1>1
  <2>. HIDE DEF sx, y
  <2>3. Comes(sx, e) /\ EndsOf(sx, e) = EndsOf(s, e) /\ Places(sx, e, at) = p
    BY <1>3, <2>1, PlacesSame DEF p
  <2>4. Real(y) /\ WithEvent(sx, e, p, sy)
    <3>1. Keyed(x) /\ Comes(Seen(x), e) /\ at \in [EndsOf(Seen(x), e) -> Int]
      BY <1>3, <2>3 DEF sx
    <3>2. Real(y)
      BY <2>2, <3>1, AddEventSeen
    <3>3. WithEvent(Seen(x), e, Places(Seen(x), e, at), Seen(y))
      BY <2>2, <3>1, AddEventSeen
    <3>. QED  BY <2>3, <3>2, <3>3 DEF sx
  <2>. HIDE DEF sy
  <2>5. Same(sd, sy) /\ sy.source = sx.source /\ sy.target = sx.target
    BY <1>3, <1>4, <1>5, <2>1, <2>4, AddedAgain
  <2>6. Shaped(sy)
    BY <2>4 DEF WithEvent
  <2>7. Keeps(sx, sy, s, sd)
    BY <2>5 DEF Keeps, Pair
  <2>. QED  BY <2>4, <2>5, <2>6, <2>7 DEF y, sx, sy
<1>9. UndoSeen(sd, cmd, s)
  <2>. SUFFICES ASSUME NEW x, Keyed(x), Same(sd, Seen(x))
                PROVE  LET y == Undo(x, cmd)
                       IN  Real(y) /\ Shaped(Seen(y)) /\ Same(s, Seen(y)) /\ Keeps(Seen(x), Seen(y), s, sd)
    BY DEF UndoSeen
  <2>. DEFINE y == Undo(x, cmd)
              z == RemoveInstanceEvents(Seen(x), {e})
  <2>1. Good(Seen(x)) /\ Real(x)
    BY DEF Keyed
  <2>2. Shaped(z) /\ Same(s, z) /\ z.source = Seen(x).source /\ z.target = Seen(x).target
    BY <1>3, <1>4, <1>5, <2>1, AddedTakenOut
  <2>3. y = RemoveInstanceEvents(x, {e})
    BY <1>1
  <2>. HIDE DEF y
  <2>4. FromSeen(x, y, z)
    BY <2>1, <2>3, RemoveEventsSeen DEF FromSeen
  <2>. HIDE DEF z
  <2>5. Keeps(Seen(x), z, s, sd)
    BY <2>2 DEF Keeps, Pair
  <2>6. Real(y) /\ Shaped(Seen(y)) /\ Same(s, Seen(y)) /\ Keeps(Seen(x), Seen(y), s, sd)
    BY <2>2, <2>4, <2>5, SeenFollows
  <2>. QED  BY <2>6 DEF y
<1>10. Brings(View(s), cmd, View(sd)) /\ Returns(View(s), cmd, View(sd))
  BY <1>3, <1>6, <1>8, <1>9, SeenLeads
<1>11. Added(s, cmd, sd)
  BY <1>2, <1>7 DEF Added, Pair
<1>. QED  BY <1>4, <1>6, <1>7, <1>10, <1>11 DEF SeenWorks, Keyed, sd, s, d, cmd
-------------------------------------------------------------------------------
(* The stack that the clients share.                                            *)

\* A new event gets its ends, with the key and without.
GivenEnds(x, e, s, t, c) == c = [WithEnds(x, e, s, t) EXCEPT !.slots[e] = 0]
LEMMA RenewedSeen ==
  ASSUME NEW x, Keyed(x), NEW e \in (Messages \cup Locals) \ InChart(Seen(x)), NEW s \in Ends, NEW t \in Ends,
         e \in Locals => t = NoInstance,
         NEW c, GivenEnds(x, e, s, t, c)
  PROVE  /\ Keyed(c) /\ View(Seen(c)) = View(Seen(x))
         /\ Seen(c).instances = Seen(x).instances /\ Seen(c).creator = Seen(x).creator
         /\ Seen(c).source[e] = s /\ Seen(c).target[e] = t
         /\ \A f \in Events \ {e} : Pair(Seen(c), f) = Pair(Seen(x), f)
         /\ InChart(Seen(c)) = InChart(Seen(x))
<1>. DEFINE sx == Seen(x)
            sc == Seen(c)
            z  == [WithEnds(sx, e, s, t) EXCEPT !.slots[e] = 0]
<1>1. Good(sx) /\ Real(x) /\ e \in (Messages \cup Locals) \ InChart(sx)
  BY DEF Keyed
<1>2. /\ DOMAIN c = Fields /\ c.instances = x.instances /\ c.creator = x.creator /\ c.events = x.events
      /\ c.orphans = x.orphans /\ c.alive = x.alive
      /\ c.source = [x.source EXCEPT ![e] = s] /\ c.target = [x.target EXCEPT ![e] = t]
  BY <1>1 DEF Real, WithEnds, Fields, GivenEnds
<1>3. Real(c)
  BY <1>1, <1>2 DEF Real
<1>4. /\ DOMAIN sx = Fields /\ sx.instances = x.instances /\ sx.orphans = x.orphans
      /\ sx.source = x.source /\ sx.target = x.target /\ sx.creator = x.creator /\ sx.alive = x.alive
      /\ sx.events = [j \in DOMAIN x.events \ {NoInstance} |-> x.events[j]]
  BY <1>1, SeenIs
<1>5. /\ DOMAIN sc = Fields /\ sc.instances = c.instances /\ sc.orphans = c.orphans
      /\ sc.source = c.source /\ sc.target = c.target /\ sc.creator = c.creator /\ sc.alive = c.alive
      /\ sc.events = [j \in DOMAIN c.events \ {NoInstance} |-> c.events[j]]
  BY <1>3, SeenIs
<1>. HIDE DEF sx, sc
<1>6. /\ DOMAIN z = Fields /\ z.instances = sx.instances /\ z.creator = sx.creator /\ z.events = sx.events
      /\ z.orphans = sx.orphans /\ z.alive = sx.alive
      /\ z.source = [sx.source EXCEPT ![e] = s] /\ z.target = [sx.target EXCEPT ![e] = t]
  BY <1>4 DEF WithEnds, Fields
<1>7. /\ z.instances = sx.instances /\ z.creator = sx.creator /\ z.source[e] = s /\ z.target[e] = t
      /\ \A f \in Events \ {e} : Pair(z, f) = Pair(sx, f)
      /\ InChart(z) = InChart(sx) /\ Good(z) /\ View(z) = View(sx)
  <2>1. LET d == [WithEnds(sx, e, s, t) EXCEPT !.slots[e] = 0]
        IN  /\ d.instances = sx.instances /\ d.creator = sx.creator
            /\ d.source[e] = s /\ d.target[e] = t
            /\ \A f \in Events \ {e} : Pair(d, f) = Pair(sx, f)
            /\ InChart(d) = InChart(sx)
            /\ Good(d) /\ View(d) = View(sx)
    BY <1>1, RenewedIs, SMTT(60)
  <2>. QED  BY <2>1, Zenon
<1>. HIDE DEF z
<1>8. Alike(z, sc)
  <2>1. sc.events = z.events
    BY <1>2, <1>4, <1>5, <1>6
  <2>2. sc.alive = z.alive
    BY <1>2, <1>4, <1>5, <1>6, Zenon
  <2>. QED  BY <1>2, <1>4, <1>5, <1>6, <2>1, <2>2 DEF Alike
<1>9. Good(sc) /\ View(sc) = View(z)
  <2>1. Shaped(sc) /\ Same(z, sc)
    BY <1>7, <1>8, AlikeIsGood DEF Good
  <2>2. Good(sc)
    BY <1>7, <2>1, SameIsGood
  <2>. QED  BY <1>7, <2>1, <2>2, SameIsView
<1>10. sc.source[e] = s /\ sc.target[e] = t /\ \A f : Pair(sc, f) = Pair(z, f)
  BY <1>7, <1>8 DEF Alike, Pair
<1>11. InChart(sc) = InChart(z)
  BY <1>8 DEF Alike, InChart
<1>. QED  BY <1>3, <1>7, <1>8, <1>9, <1>10, <1>11 DEF Keyed, Alike, sc, sx

\* The views without the null key.
Shown(vs) == [k \in 1..Len(vs) |-> Seen(vs[k])]

\* Each command leads from the view before it to the one after it, and back.
Carried(st, ws) ==
  \A k \in 1..Len(st) : Brings(ws[k], st[k], ws[k + 1]) /\ Returns(ws[k], st[k], ws[k + 1])

\* What a command makes of the stops a, which it adds to.
Halts(a, cmd, b) == IF cmd.kind = "stop" THEN cmd.i \notin a /\ b = a \cup {cmd.i} ELSE b = a

\* The stops now, those after each command (hs), and the instances they are of.
Halted(now, st, ix, hs, ws) ==
  /\ \E S : hs \in Seq(S)
  /\ Len(hs) = Len(st) + 1 /\ now = hs[ix + 1]
  /\ \A k \in 1..Len(hs) : hs[k] \subseteq Range(ws[k].instances)
  /\ \A k \in 1..Len(st) : Halts(hs[k], st[k], hs[k + 1])

Reversible(I, x, st, ix, vs, now, hs) ==
  /\ Real(x) /\ \E S : vs \in Seq(S)
  /\ Traced(I, Seen(x), st, ix, Shown(vs))
  /\ Carried(st, Shown(vs))
  /\ Halted(now, st, ix, hs, Shown(vs))

SharedStack == Reversible(Range(Start[kinds]), chart, stack, index, views, stopped, stops)

LEMMA ShownIs ==
  ASSUME NEW vs, \E S : vs \in Seq(S)
  PROVE  /\ \E S : Shown(vs) \in Seq(S)
         /\ Len(Shown(vs)) = Len(vs) /\ \A k \in 1..Len(vs) : Shown(vs)[k] = Seen(vs[k])
<1>. DEFINE w == Shown(vs)
            T == {Seen(vs[k]) : k \in 1..Len(vs)}
<1>1. Len(vs) \in Nat
  BY LenProperties
<1>2. w \in [1..Len(vs) -> T] /\ \A k \in 1..Len(vs) : w[k] = Seen(vs[k])
  BY DEF Shown
<1>. HIDE DEF w, T
<1>3. w \in Seq(T) /\ Len(w) = Len(vs)
  BY <1>1, <1>2, SeqDef, LenProperties
<1>. QED  BY <1>2, <1>3 DEF w

\* A list of views that is cut and extended is shown cut and extended.
LEMMA ShownExtended ==
  ASSUME NEW vs, \E S : vs \in Seq(S), NEW n \in 0..Len(vs), NEW v, NEW vs2, Extended(vs, n, v, vs2)
  PROVE  Extended(Shown(vs), n, Seen(v), Shown(vs2))
<1>1. Len(vs) \in Nat /\ n \in Nat /\ n <= Len(vs)
  BY LenProperties
<1>2. (\E S : vs2 \in Seq(S)) /\ Len(vs2) = n + 1 /\ (\A k \in 1..n : vs2[k] = vs[k]) /\ vs2[n + 1] = v
  BY DEF Extended
<1>3. /\ \E S : Shown(vs2) \in Seq(S)
      /\ Len(Shown(vs2)) = n + 1 /\ \A k \in 1..(n + 1) : Shown(vs2)[k] = Seen(vs2[k])
  BY <1>2, ShownIs
<1>4. \A k \in 1..n : Shown(vs)[k] = Seen(vs[k])
  BY <1>1, ShownIs
<1>5. \A k \in 1..n : Shown(vs2)[k] = Shown(vs)[k]
  BY <1>1, <1>2, <1>3, <1>4
<1>6. Shown(vs2)[n + 1] = Seen(v)
  BY <1>1, <1>2, <1>3
<1>. QED  BY <1>3, <1>5, <1>6 DEF Extended

\* A push, of a command that does what it should to a chart c that is seen as the chart
\* is, but for the ends of a new event.
LEMMA SharedPush ==
  ASSUME NEW I, NEW x, NEW st, NEW ix, NEW vs, NEW now, NEW hs, Reversible(I, x, st, ix, vs, now, hs),
         NEW c, Keyed(c), View(Seen(c)) = View(Seen(x)), NEW cmd, NEW d, SeenWorks(c, cmd, d),
         \A e \in Events : Pair(Seen(c), e) = Pair(Seen(x), e) \/ (cmd.kind = "event" /\ cmd.e = e),
         cmd.kind = "event" => /\ cmd.e \notin Comments
                               /\ \A k \in 1..ix : st[k].kind = "event" => st[k].e # cmd.e,
         NEW then, Halts(now, cmd, then), then \subseteq Range(Seen(d).instances),
         NEW st2, Extended(st, ix, cmd, st2), NEW vs2, Extended(vs, ix + 1, View(d), vs2),
         NEW hs2, Extended(hs, ix + 1, then, hs2)
  PROVE  Reversible(I, d, st2, ix + 1, vs2, then, hs2)
<1>. DEFINE ws  == Shown(vs)
            ws2 == Shown(vs2)
            sd  == Seen(d)
            sc  == Seen(c)
<1>0. Keyed(d) /\ Real(d) /\ Good(sd) /\ Good(sc)
  BY DEF SeenWorks, Keyed
<1>1. /\ Len(st) \in Nat /\ Len(ws) = Len(st) + 1 /\ Len(ws) = Len(vs) /\ ix \in Nat /\ ix <= Len(st)
      /\ ix + 1 \in 0..Len(vs) /\ ix + 1 + 1 = ix + 2 /\ Traced(I, Seen(x), st, ix, ws)
  <2>1. Sized(st, ix, ws) /\ (\E S : vs \in Seq(S)) /\ Traced(I, Seen(x), st, ix, ws)
    BY DEF Reversible, Traced
  <2>2. Len(ws) = Len(vs)
    BY <2>1, ShownIs
  <2>. HIDE DEF ws
  <2>. QED  BY <2>1, <2>2, SizedParts
<1>2. Extended(ws, ix + 1, View(sd), ws2)
  <2>1. View(sd) = Seen(View(d))
    BY <1>0, SeenView
  <2>. QED  BY <1>1, <2>1, ShownExtended DEF Reversible
<1>3. Traced(I, sd, st2, ix + 1, ws2)
  <2>1. Added(sc, cmd, sd)
    BY DEF SeenWorks
  <2>. HIDE DEF sd, sc, ws, ws2
  <2>. QED  BY <1>0, <1>1, <1>2, <2>1, TracePush DEF sc
<1>4. /\ Len(st2) = ix + 1 /\ st2[ix + 1] = cmd /\ (\A k \in 1..ix : st2[k] = st[k])
      /\ Len(ws2) = ix + 2 /\ ws2[ix + 2] = View(sd) /\ (\A k \in 1..(ix + 1) : ws2[k] = ws[k])
      /\ ws[ix + 1] = View(sc)
      /\ Len(hs2) = ix + 2 /\ hs2[ix + 2] = then /\ (\A k \in 1..(ix + 1) : hs2[k] = hs[k])
      /\ \E S : hs2 \in Seq(S)
  BY <1>1, <1>2 DEF Extended, Traced
<1>5. Carried(st2, ws2)
  <2>. SUFFICES ASSUME NEW k \in 1..(ix + 1)
                PROVE  Brings(ws2[k], st2[k], ws2[k + 1]) /\ Returns(ws2[k], st2[k], ws2[k + 1])
    BY <1>4 DEF Carried
  <2>1. CASE k = ix + 1
    <3>1. ws2[k] = View(sc) /\ st2[k] = cmd /\ ws2[k + 1] = View(sd)
      BY <1>1, <1>4, <2>1
    <3>. QED  BY <3>1 DEF SeenWorks
  <2>2. CASE k # ix + 1
    <3>1. ws2[k] = ws[k] /\ st2[k] = st[k] /\ ws2[k + 1] = ws[k + 1] /\ k \in 1..Len(st)
      BY <1>1, <1>4, <2>2
    <3>2. Carried(st, ws)
      BY DEF Reversible
    <3>. HIDE DEF ws, ws2
    <3>. QED  BY <3>1, <3>2 DEF Carried
  <2>. QED  BY <2>1, <2>2
<1>6. Halted(then, st2, ix + 1, hs2, ws2)
  <2>0. Halted(now, st, ix, hs, ws)
    BY DEF Reversible
  <2>. HIDE DEF ws, ws2
  <2>1. \A k \in 1..Len(hs2) : hs2[k] \subseteq Range(ws2[k].instances)
    <3>. SUFFICES ASSUME NEW k \in 1..(ix + 2)  PROVE hs2[k] \subseteq Range(ws2[k].instances)
      BY <1>4
    <3>1. CASE k = ix + 2
      <4>1. View(sd).instances = sd.instances
        BY DEF View
      <4>. QED  BY <1>4, <3>1, <4>1
    <3>2. CASE k # ix + 2
      <4>1. k \in 1..(ix + 1) /\ k \in 1..Len(hs)
        BY <1>1, <2>0, <3>2 DEF Halted
      <4>. QED  BY <1>4, <2>0, <4>1 DEF Halted
    <3>. QED  BY <3>1, <3>2
  <2>2. \A k \in 1..Len(st2) : Halts(hs2[k], st2[k], hs2[k + 1])
    <3>. SUFFICES ASSUME NEW k \in 1..(ix + 1)  PROVE Halts(hs2[k], st2[k], hs2[k + 1])
      BY <1>4
    <3>1. CASE k = ix + 1
      <4>1. hs2[k] = now /\ st2[k] = cmd /\ hs2[k + 1] = then
        BY <1>1, <1>4, <2>0, <3>1 DEF Halted
      <4>. QED  BY <4>1
    <3>2. CASE k # ix + 1
      <4>1. hs2[k] = hs[k] /\ st2[k] = st[k] /\ hs2[k + 1] = hs[k + 1] /\ k \in 1..Len(st)
        BY <1>1, <1>4, <3>2
      <4>. QED  BY <2>0, <4>1 DEF Halted
    <3>. QED  BY <3>1, <3>2
  <2>. QED  BY <1>1, <1>4, <2>1, <2>2 DEF Halted
<1>7. \E S : vs2 \in Seq(S)
  BY DEF Extended
<1>. QED  BY <1>0, <1>3, <1>5, <1>6, <1>7 DEF Reversible

\* Undo, by whichever client.
LEMMA SharedBack ==
  ASSUME NEW I, NEW x, NEW st, NEW ix, NEW vs, NEW now, NEW hs, Reversible(I, x, st, ix, vs, now, hs), ix > 0,
         NEW then, then = IF st[ix].kind = "stop" THEN now \ {st[ix].i} ELSE now
  PROVE  Reversible(I, Undo(x, st[ix]), st, ix - 1, vs, then, hs)
<1>. DEFINE ws == Shown(vs)
            y  == Undo(x, st[ix])
<1>1. /\ Traced(I, Seen(x), st, ix, ws) /\ Carried(st, ws) /\ Halted(now, st, ix, hs, ws)
      /\ Real(x) /\ \E S : vs \in Seq(S)
  BY DEF Reversible
<1>. HIDE DEF ws
<1>2. ix \in 1..Len(st) /\ Good(Seen(x)) /\ View(Seen(x)) = ws[ix + 1] /\ EndsFit(Seen(x), ws[ix + 1], ws[ix])
  BY <1>1, FitsBack
<1>3. Keyed(y) /\ View(Seen(y)) = ws[ix] /\ EndsKept(Seen(x), Seen(y), ws[ix], ws[ix + 1])
  <2>1. Returns(ws[ix], st[ix], ws[ix + 1])
    BY <1>1, <1>2 DEF Carried
  <2>2. Keyed(x)
    BY <1>1, <1>2 DEF Keyed
  <2>. QED  BY <1>2, <2>1, <2>2 DEF Returns
<1>. HIDE DEF y
<1>4. Traced(I, Seen(y), st, ix - 1, ws)
  BY <1>1, <1>3, TraceBack DEF Keyed
<1>5. Halted(then, st, ix - 1, hs, ws)
  <2>1. Len(st) \in Nat /\ ix \in Nat /\ ix - 1 + 1 = ix
    BY <1>1, SizedParts DEF Traced
  <2>2. Halts(hs[ix], st[ix], hs[ix + 1]) /\ now = hs[ix + 1]
    BY <1>1, <1>2 DEF Halted
  <2>3. then = hs[ix]
    BY <2>2 DEF Halts
  <2>. QED  BY <1>1, <2>1, <2>3 DEF Halted
<1>. QED  BY <1>1, <1>3, <1>4, <1>5 DEF Reversible, Keyed, ws, y

\* Redo.
LEMMA SharedOn ==
  ASSUME NEW I, NEW x, NEW st, NEW ix, NEW vs, NEW now, NEW hs, Reversible(I, x, st, ix, vs, now, hs), ix < Len(st),
         NEW then, then = IF st[ix + 1].kind = "stop" THEN now \cup {st[ix + 1].i} ELSE now
  PROVE  Reversible(I, Redo(x, st[ix + 1]), st, ix + 1, vs, then, hs)
<1>. DEFINE ws == Shown(vs)
            y  == Redo(x, st[ix + 1])
<1>1. /\ Traced(I, Seen(x), st, ix, ws) /\ Carried(st, ws) /\ Halted(now, st, ix, hs, ws)
      /\ Real(x) /\ \E S : vs \in Seq(S)
  BY DEF Reversible
<1>. HIDE DEF ws
<1>2. /\ ix + 1 \in 1..Len(st) /\ Good(Seen(x)) /\ View(Seen(x)) = ws[ix + 1]
      /\ EndsFit(Seen(x), ws[ix + 1], ws[ix + 1 + 1])
  BY <1>1, FitsOn
<1>3. Keyed(y) /\ View(Seen(y)) = ws[ix + 1 + 1] /\ EndsKept(Seen(x), Seen(y), ws[ix + 1], ws[ix + 1 + 1])
  <2>1. Brings(ws[ix + 1], st[ix + 1], ws[ix + 1 + 1])
    BY <1>1, <1>2 DEF Carried
  <2>2. Keyed(x)
    BY <1>1, <1>2 DEF Keyed
  <2>. QED  BY <1>2, <2>1, <2>2 DEF Brings
<1>. HIDE DEF y
<1>4. Traced(I, Seen(y), st, ix + 1, ws)
  BY <1>1, <1>3, TraceOn DEF Keyed
<1>5. Halted(then, st, ix + 1, hs, ws)
  <2>2. Halts(hs[ix + 1], st[ix + 1], hs[ix + 1 + 1]) /\ now = hs[ix + 1]
    BY <1>1, <1>2 DEF Halted
  <2>3. then = hs[ix + 1 + 1]
    BY <2>2 DEF Halts
  <2>. QED  BY <1>1, <2>3 DEF Halted
<1>. QED  BY <1>1, <1>3, <1>4, <1>5 DEF Reversible, Keyed, ws, y
-------------------------------------------------------------------------------
(* What the handler does to the stack.                                          *)

LEMMA SharedParts ==
  ASSUME SharedStack
  PROVE  /\ Keyed(chart) /\ stopped \subseteq InstancesIn
         /\ Seen(chart).instances = chart.instances
         /\ Len(views) = Len(stack) + 1 /\ Len(stops) = Len(stack) + 1
         /\ index \in 0..Len(stack) /\ Len(stack) \in Nat
         /\ View(Seen(chart)) = Seen(views[index + 1]) /\ stopped = stops[index + 1]
         /\ \A e : NewEvent(e) /\ e \notin Comments
                     => /\ e \notin InChart(Seen(chart))
                        /\ \A k \in 1..index : stack[k].kind = "event" => stack[k].e # e
<1>. DEFINE ws == Shown(views)
            I  == Range(Start[kinds])
<1>1. /\ Traced(I, Seen(chart), stack, index, ws) /\ Halted(stopped, stack, index, stops, ws)
      /\ Real(chart) /\ \E S : views \in Seq(S)
  BY DEF SharedStack, Reversible
<1>2. Len(ws) = Len(views) /\ \A k \in 1..Len(views) : ws[k] = Seen(views[k])
  BY <1>1, ShownIs
<1>. HIDE DEF ws
<1>3. /\ Len(ws) = Len(stack) + 1 /\ index \in 0..Len(stack) /\ Len(stack) \in Nat /\ index \in Nat
      /\ index + 1 \in 1..Len(views) /\ index + 1 - 1 = index
  <2>1. Sized(stack, index, ws)
    BY <1>1 DEF Traced
  <2>. QED  BY <1>2, <2>1, SizedParts
<1>4. Keyed(chart) /\ View(Seen(chart)) = ws[index + 1] /\ Seen(chart).instances = chart.instances
  BY <1>1, SeenIs DEF Traced, Keyed
<1>5. /\ Listed(ws, index + 1) = InChart(Seen(chart)) /\ ws[index + 1].instances = chart.instances
  <2>1. DOMAIN View(Seen(chart)).ends = InChart(Seen(chart)) /\ View(Seen(chart)).instances = chart.instances
    BY <1>4, ViewIs DEF Keyed
  <2>. QED  BY <1>4, <2>1 DEF Listed
<1>6. \A e \in InChart(Seen(chart)) \ Comments : \E j \in 1..index : stack[j].kind = "event" /\ stack[j].e = e
  BY <1>1, <1>2, <1>3, <1>5 DEF Traced, Made
<1>7. Len(stops) = Len(stack) + 1 /\ stopped = stops[index + 1] /\ stopped \subseteq InstancesIn
  BY <1>1, <1>3, <1>5 DEF Halted, InstancesIn
<1>. QED  BY <1>2, <1>3, <1>4, <1>6, <1>7 DEF NewEvent

LEMMA SharedPushed ==
  ASSUME NameInv, SharedStack, NEW c, Keyed(c), View(Seen(c)) = View(Seen(chart)), NEW cmd,
         cmd.kind \in {"instance", "stop", "event"}, SeenWorks(c, cmd, Redo(c, cmd)),
         \A e \in Events : Pair(Seen(c), e) = Pair(Seen(chart), e) \/ (cmd.kind = "event" /\ cmd.e = e),
         cmd.kind = "event" => /\ cmd.e \notin Comments
                               /\ \A k \in 1..index : stack[k].kind = "event" => stack[k].e # cmd.e,
         Pushed(c, cmd), Halts(stopped, cmd, stopped'), stopped' \subseteq Range(Seen(Redo(c, cmd)).instances)
  PROVE  SharedStack'
<1>. DEFINE d == Redo(c, cmd)
            I == Range(Start[kinds])
<1>1. /\ chart' = d /\ stack' = Append(SubSeq(stack, 1, index), cmd) /\ index' = index + 1
      /\ kinds' = kinds
  <2>1. chart' = Redo(c, cmd) /\ stack' = Grown(cmd) /\ index' = index + 1 /\ kinds' = kinds
    BY PushAppends
  <2>. QED  BY <2>1 DEF Grown
<1>2. ~(index > 0 /\ CanMerge(stack[index], cmd))
  BY DEF CanMerge
<1>3. Push(c, cmd) /\ stops' = Append(SubSeq(stops, 1, index + 1), stopped')
  BY DEF Pushed
<1>4. views' = Append(SubSeq(views, 1, index + 1), View(chart'))
  BY <1>2, <1>3, Zenon DEF Push
<1>5. /\ index \in 0..Len(stack) /\ index + 1 \in 0..Len(views) /\ index + 1 \in 0..Len(stops)
  BY SharedParts
<1>6. Reversible(I, chart, stack, index, views, stopped, stops)
  BY DEF SharedStack
<1>7. (\E S : stack \in Seq(S)) /\ (\E S : views \in Seq(S)) /\ (\E S : stops \in Seq(S))
  BY <1>6 DEF Reversible, Traced, Sized, Halted
<1>8. Extended(stack, index, cmd, stack')
  BY <1>1, <1>5, <1>7, CutAndExtended
<1>9. Extended(views, index + 1, View(d), views')
  BY <1>1, <1>4, <1>5, <1>7, CutAndExtended
<1>10. Extended(stops, index + 1, stopped', stops')
  BY <1>3, <1>5, <1>7, CutAndExtended
<1>11. SeenWorks(c, cmd, d) /\ stopped' \subseteq Range(Seen(d).instances)
  OBVIOUS
<1>. HIDE DEF d, I
<1>12. Reversible(I, d, stack', index + 1, views', stopped', stops')
  BY <1>6, <1>8, <1>9, <1>10, <1>11, SharedPush
<1>. QED  BY <1>1, <1>12 DEF SharedStack, I

LEMMA SharedInstance ==
  ASSUME NameInv, SharedStack, NEW q, HandleInstance(q), ~Failed
  PROVE  SharedStack'
<1>. DEFINE i   == CHOOSE j \in Instances : NewInstance(j)
            cmd == [kind |-> "instance", i |-> i, pos |-> -1]
            d   == Redo(chart, cmd)
<1>1. (\E j \in Instances : NewInstance(j)) /\ stopped' = stopped \ {i} /\ Pushed(chart, cmd)
  BY Zenon DEF HandleInstance
<1>2. i \in Instances /\ NewInstance(i)
  BY <1>1
<1>. HIDE DEF i
<1>3. i \notin InstancesIn
  BY <1>2 DEF NameInv, NewInstance, Ever, Makes
<1>4. Keyed(chart) /\ stopped \subseteq InstancesIn
  BY SharedParts
<1>5. SeenWorks(chart, cmd, d) /\ Range(d.instances) = Range(chart.instances) \cup {i}
  BY <1>2, <1>3, <1>4, SeenInstance DEF InstancesIn
<1>6. cmd.kind = "instance"
  OBVIOUS
<1>. HIDE DEF cmd
<1>7. Halts(stopped, cmd, stopped') /\ stopped' = stopped
  BY <1>1, <1>3, <1>4, <1>6 DEF Halts
<1>8. stopped' \subseteq Range(Seen(d).instances)
  <2>1. Real(d)
    BY <1>5 DEF SeenWorks, Keyed
  <2>2. Seen(d).instances = d.instances
    BY <2>1, SeenIs
  <2>. QED  BY <1>4, <1>5, <1>7, <2>2 DEF InstancesIn
<1>9. View(Seen(chart)) = View(Seen(chart)) /\ \A e \in Events : Pair(Seen(chart), e) = Pair(Seen(chart), e)
  OBVIOUS
<1>10. cmd.kind \in {"instance", "stop", "event"} /\ cmd.kind # "event"
  BY <1>6
<1>. QED  BY <1>1, <1>4, <1>5, <1>7, <1>8, <1>9, <1>10, SharedPushed DEF d

LEMMA SharedStop ==
  ASSUME Exact, NameInv, SharedStack, NEW q, HandleStop(q), ~Failed
  PROVE  SharedStack'
<1>1. PICK i \in Named(q.name) :
        /\ Stoppable(i) /\ stopped' = stopped \cup {i} /\ Pushed(chart, [kind |-> "stop", i |-> i])
  BY DEF HandleStop
<1>. DEFINE cmd == [kind |-> "stop", i |-> i]
            d   == Redo(chart, cmd)
<1>2. i \in InstancesIn /\ i \notin stopped
  BY <1>1 DEF Named, Stoppable
<1>3. Keyed(chart) /\ stopped \subseteq InstancesIn /\ Seen(chart).instances = chart.instances
  BY SharedParts
<1>4. SeenWorks(chart, cmd, d) /\ d = chart
  BY <1>3, SeenStop
<1>5. cmd.kind = "stop" /\ cmd.i = i /\ Pushed(chart, cmd)
  BY <1>1
<1>. HIDE DEF cmd
<1>6. Halts(stopped, cmd, stopped')
  BY <1>1, <1>2, <1>5 DEF Halts
<1>7. stopped' \subseteq Range(Seen(d).instances)
  BY <1>1, <1>2, <1>3, <1>4 DEF InstancesIn
<1>. QED  BY <1>3, <1>4, <1>5, <1>6, <1>7, SharedPushed

LEMMA SharedEvent ==
  ASSUME NameInv, SharedStack, NEW e \in Messages \cup Locals, NewEvent(e), NEW s \in Ends, NEW t \in Ends,
         e \in Locals => t = NoInstance,
         {s, t} \ {NoInstance} # {}, {s, t} \ {NoInstance} \subseteq InstancesIn,
         e \in Creates => t # NoInstance /\ s # t /\ chart.creator[t] = NoInstance,
         NEW at \in [{s, t} \ {NoInstance} -> Int],
         Pushed(Renewed(e, s, t), [kind |-> "event", e |-> e, at |-> at]), stopped' = stopped
  PROVE  SharedStack'
<1>. DEFINE c   == Renewed(e, s, t)
            cmd == [kind |-> "event", e |-> e, at |-> at]
            d   == Redo(c, cmd)
<1>1. Keyed(chart) /\ stopped \subseteq InstancesIn /\ Seen(chart).instances = chart.instances
  BY SharedParts
<1>2. e \notin Comments
  BY KindsDiffer
<1>3. e \notin InChart(Seen(chart)) /\ \A k \in 1..index : stack[k].kind = "event" => stack[k].e # e
  BY <1>2, SharedParts
<1>4. GivenEnds(chart, e, s, t, c)
  BY DEF GivenEnds, Renewed
<1>. HIDE DEF c
<1>5. /\ Keyed(c) /\ View(Seen(c)) = View(Seen(chart))
      /\ Seen(c).instances = Seen(chart).instances /\ Seen(c).creator = Seen(chart).creator
      /\ Seen(c).source[e] = s /\ Seen(c).target[e] = t
      /\ \A f \in Events \ {e} : Pair(Seen(c), f) = Pair(Seen(chart), f)
      /\ InChart(Seen(c)) = InChart(Seen(chart))
  BY <1>1, <1>3, <1>4, RenewedSeen
<1>6. EndsOf(Seen(c), e) = {s, t} \ {NoInstance}
  BY <1>5 DEF EndsOf
<1>7. Comes(Seen(c), e)
  <2>1. Seen(chart).creator = chart.creator
    BY <1>1, SeenIs DEF Keyed
  <2>. QED  BY <1>1, <1>3, <1>5, <1>6, <2>1 DEF Comes, InstancesIn
<1>8. SeenWorks(c, cmd, d) /\ Seen(d).instances = Seen(c).instances
  BY <1>5, <1>6, <1>7, SeenEvent
<1>9. cmd.kind = "event" /\ cmd.e = e /\ Pushed(c, cmd)
  BY DEF c
<1>. HIDE DEF cmd
<1>10. Halts(stopped, cmd, stopped') /\ stopped' \subseteq Range(Seen(d).instances)
  BY <1>1, <1>5, <1>8, <1>9 DEF Halts, InstancesIn
<1>11. \A f \in Events : Pair(Seen(c), f) = Pair(Seen(chart), f) \/ (cmd.kind = "event" /\ cmd.e = f)
  BY <1>5, <1>9
<1>12. cmd.kind = "event" => /\ cmd.e \notin Comments
                             /\ \A k \in 1..index : stack[k].kind = "event" => stack[k].e # cmd.e
  BY <1>2, <1>3, <1>9
<1>13. cmd.kind \in {"instance", "stop", "event"}
  BY <1>9
<1>. HIDE DEF d
<1>. QED  BY <1>5, <1>8, <1>9, <1>10, <1>11, <1>12, <1>13, SharedPushed DEF d

LEMMA SharedLocal ==
  ASSUME NameInv, SharedStack, NEW q, HandleLocal(q), ~Failed
  PROVE  SharedStack'
<1>. DEFINE e == CHOOSE x \in Locals : NewEvent(x)
<1>1. PICK i \in Named(q.name) :
        /\ \E x \in Locals : NewEvent(x)
        /\ stopped' = stopped
        /\ Pushed(Renewed(e, i, NoInstance), [kind |-> "event", e |-> e, at |-> AtOnly(i, -1)])
  BY DEF HandleLocal
<1>2. e \in Locals /\ NewEvent(e)
  BY <1>1
<1>. HIDE DEF e
<1>3. i \in InstancesIn /\ i \in Instances /\ i # NoInstance
  <2>1. Good(Seen(chart)) /\ Seen(chart).instances = chart.instances
    BY SharedParts DEF Keyed
  <2>. QED  BY <1>1, <2>1, ShapedParts, KindsDiffer DEF Named, InstancesIn, Good
<1>4. /\ {i, NoInstance} \ {NoInstance} = {i} /\ i \in Ends /\ NoInstance \in Ends
      /\ e \in Messages \cup Locals /\ e \notin Creates
  BY <1>2, <1>3, KindsDiffer
<1>5. AtOnly(i, -1) \in [{i} -> Int]
  BY DEF AtOnly
<1>. HIDE DEF AtOnly
<1>. QED  BY <1>1, <1>2, <1>3, <1>4, <1>5, SharedEvent

LEMMA SharedMessage ==
  ASSUME Exact, NameInv, SharedStack, NEW q, HandleMessage(q), ~Failed
  PROVE  SharedStack'
<1>. DEFINE news == {m \in Messages : m \in Creates <=> q.kind = "create"}
            e    == CHOOSE m \in news : NewEvent(m)
<1>1. /\ ~(q.src = NoName /\ q.dst = NoName)
      /\ ~(q.kind = "create" /\ q.dst = NoName)
  BY DEF HandleMessage
<1>2. PICK s \in EndNamed(q.src), t \in EndNamed(q.dst) :
        LET from == IF s = t THEN NoInstance ELSE s
        IN  /\ \E m \in news : NewEvent(m)
            /\ q.kind = "create" => Creatable(t)
            /\ stopped' = stopped
            /\ Pushed(Renewed(e, from, t),
                      [kind |-> "event", e |-> e, at |-> [i \in OnEnds(from, t) |-> -1]])
  BY DEF HandleMessage
<1>. DEFINE from == IF s = t THEN NoInstance ELSE s
            at   == [i \in OnEnds(from, t) |-> -1]
<1>3. /\ \E m \in news : NewEvent(m)
      /\ q.kind = "create" => Creatable(t)
      /\ stopped' = stopped
      /\ Pushed(Renewed(e, from, t), [kind |-> "event", e |-> e, at |-> at])
  BY <1>2
<1>4. e \in Messages /\ (e \in Creates => q.kind = "create") /\ NewEvent(e)
  <2>1. e \in news /\ NewEvent(e)
    BY <1>3
  <2>. HIDE DEF e
  <2>. QED  BY <2>1
<1>. HIDE DEF e
<1>5. /\ s = NoInstance \/ s \in InstancesIn
      /\ IF q.dst = NoName THEN t = NoInstance ELSE t \in InstancesIn
      /\ q.src # NoName => s \in InstancesIn
  BY <1>2 DEF EndNamed, Named
<1>6. InstancesIn \subseteq Instances /\ NoInstance \notin Instances /\ InstancesIn \subseteq Ends /\ NoInstance \in Ends
  <2>1. Good(Seen(chart)) /\ Seen(chart).instances = chart.instances
    BY SharedParts DEF Keyed
  <2>. QED  BY <2>1, ShapedParts, KindsDiffer DEF InstancesIn, Good
<1>7. /\ from \in Ends /\ t \in Ends /\ OnEnds(from, t) = {from, t} \ {NoInstance}
      /\ {from, t} \ {NoInstance} # {} /\ {from, t} \ {NoInstance} \subseteq InstancesIn
  BY <1>1, <1>5, <1>6 DEF OnEnds
<1>8. e \in Creates => t # NoInstance /\ from # t /\ chart.creator[t] = NoInstance
  BY <1>1, <1>3, <1>4, <1>5, <1>6 DEF Creatable
<1>9. at \in [{from, t} \ {NoInstance} -> Int]
  BY <1>7
<1>10. e \in Messages \cup Locals /\ e \notin Locals
  BY <1>4, KindsDiffer
<1>. HIDE DEF at, from
<1>. QED  BY <1>3, <1>4, <1>7, <1>8, <1>9, <1>10, SharedEvent

LEMMA SharedUndo ==
  ASSUME NameInv, SharedStack, HandleUndo, ~Failed
  PROVE  SharedStack'
<1>1. /\ index > 0 /\ chart' = Undo(chart, stack[index]) /\ index' = index - 1
      /\ UNCHANGED <<stack, views, stops, kinds>> /\ stopped' = Unstopped(stack[index])
  BY UndoneOnly DEF HandleUndo, UndoOne
<1>2. stopped' = IF stack[index].kind = "stop" THEN stopped \ {stack[index].i} ELSE stopped
  BY <1>1 DEF Unstopped
<1>3. Reversible(Range(Start[kinds]), Undo(chart, stack[index]), stack, index - 1, views, stopped', stops)
  BY <1>1, <1>2, SharedBack DEF SharedStack
<1>. QED  BY <1>1, <1>3 DEF SharedStack

LEMMA SharedRedo ==
  ASSUME SharedStack, HandleRedo, ~Failed
  PROVE  SharedStack'
<1>1. index < Len(stack)
  <2>1. index # Len(stack)
    BY DEF HandleRedo
  <2>. QED  BY <2>1, SharedParts
<1>2. /\ chart' = Redo(chart, stack[index + 1]) /\ index' = index + 1
      /\ UNCHANGED <<stack, views, stops, kinds>> /\ stopped' = Restopped(stack[index + 1])
  BY DEF HandleRedo, RedoOne
<1>3. stopped' = IF stack[index + 1].kind = "stop" THEN stopped \cup {stack[index + 1].i} ELSE stopped
  BY <1>2 DEF Restopped
<1>4. Reversible(Range(Start[kinds]), Redo(chart, stack[index + 1]), stack, index + 1, views, stopped', stops)
  BY <1>1, <1>3, SharedOn DEF SharedStack
<1>. QED  BY <1>2, <1>4 DEF SharedStack


LEMMA SharedInvInit ==
  ASSUME RemoteInit
  PROVE  SharedStack
<1>. DEFINE I  == Range(Start[kinds])
            ws == Shown(views)
<1>1. /\ chart = AddAll(Start[kinds]) /\ stack = << >> /\ index = 0 /\ views = <<View(chart)>>
      /\ kinds \in Sessions /\ stopped = {} /\ stops = <<{}>>
  BY DEF RemoteInit, Init
<1>2. Bare(chart, I)
  <2>1. Start[kinds] \in Seq(Instances)
    BY <1>1, UndoAssumption
  <2>. QED  BY <1>1, <2>1, FileIsBare
<1>3. Real(chart) /\ Alike(chart, Seen(chart)) /\ Good(chart)
  BY <1>2, SeenGood DEF Bare, Good
<1>4. Good(Seen(chart)) /\ InChart(Seen(chart)) = {} /\ Seen(chart).instances = chart.instances
  <2>1. Shaped(Seen(chart)) /\ Same(chart, Seen(chart))
    BY <1>3, AlikeIsGood DEF Good
  <2>2. Good(Seen(chart))
    BY <1>3, <2>1, SameIsGood
  <2>. QED  BY <1>2, <2>1, <2>2, SameInChart DEF Bare, Same
<1>5. Bare(Seen(chart), I)
  BY <1>2, <1>4 DEF Bare
<1>6. (\E S : views \in Seq(S)) /\ Len(views) = 1 /\ views[1] = View(chart)
  <2>1. views \in Seq({View(chart)})
    BY <1>1
  <2>. QED  BY <1>1, <2>1
<1>7. ws = <<View(Seen(chart))>>
  <2>1. ws[1] = View(Seen(chart))
    BY <1>3, <1>6, SeenView DEF Shown
  <2>2. ws = [k \in 1..1 |-> ws[k]]
    BY <1>6 DEF Shown
  <2>. HIDE DEF ws
  <2>3. ws = [k \in 1..1 |-> View(Seen(chart))]
    BY <2>1, <2>2
  <2>. QED  BY <2>3
<1>. HIDE DEF ws
<1>8. Traced(I, Seen(chart), stack, index, ws)
  BY <1>1, <1>5, <1>7, TraceStarts
<1>9. Carried(stack, ws) /\ Halted(stopped, stack, index, stops, ws)
  <2>1. Len(stack) = 0 /\ Len(stops) = 1 /\ stops[1] = {} /\ \A k \in 1..1 : k = 1
    BY <1>1
  <2>2. stops \in Seq({{}})
    BY <1>1
  <2>3. \A k \in 1..Len(stops) : stops[k] \subseteq Range(ws[k].instances)
    BY <2>1
  <2>4. Carried(stack, ws) /\ \A k \in 1..Len(stack) : Halts(stops[k], stack[k], stops[k + 1])
    BY <2>1 DEF Carried
  <2>5. stopped = stops[index + 1] /\ Len(stops) = Len(stack) + 1
    BY <1>1, <2>1
  <2>. QED  BY <2>2, <2>3, <2>4, <2>5 DEF Halted
<1>. QED  BY <1>3, <1>6, <1>8, <1>9 DEF SharedStack, Reversible, ws

LEMMA SharedUntouched ==
  ASSUME SharedStack, UNCHANGED <<vars, named>>
  PROVE  SharedStack'
BY DEF SharedStack, vars, named

LEMMA SharedHandled ==
  ASSUME Exact, NameInv, SharedStack, NEW q, Failed \/ Handle(q)
  PROVE  SharedStack'
<1>1. CASE Failed
  BY <1>1, SharedUntouched DEF Failed
<1>2. CASE Handle(q) /\ ~Failed
  BY <1>2, SharedInstance, SharedStop, SharedLocal, SharedMessage, SharedUndo, SharedRedo DEF Handle
<1>. QED  BY <1>1, <1>2

\* What one client undoes or does again is what some client did, whatever all of them
\* ask for in between: the chart, and the stops, are those that the commands up to
\* there left.
THEOREM RemoteUndoRestores ==
  RemoteSpec => []UndoRestores
<1>1. RemoteInit => (Exact => SharedStack)
  BY SharedInvInit
<1>2. NameInv /\ (Exact => SharedStack) /\ [RemoteNext]_remoteVars => (Exact => SharedStack)'
  <2>. SUFFICES ASSUME NameInv, Exact => SharedStack, [RemoteNext]_remoteVars, Exact'  PROVE SharedStack'
    OBVIOUS
  <2>1. ASSUME UNCHANGED <<vars, named>>  PROVE SharedStack'
    <3>1. Exact
      BY <2>1 DEF vars, Exact
    <3>. QED  BY <2>1, <3>1, SharedUntouched
  <2>2. ASSUME NEW c \in Clients, Process(c)  PROVE SharedStack'
    <3>1. PICK q \in Requests : Failed \/ Handle(q)
      BY <2>2 DEF Process
    <3>2. UNCHANGED kinds
      BY <3>1 DEF Failed, vars, Handle, HandleInstance, HandleStop, HandleLocal, HandleMessage, HandleUndo,
                  HandleRedo, Pushed
    <3>3. Exact
      BY <3>2 DEF Exact
    <3>. QED  BY <3>1, <3>3, SharedHandled
  <2>3. CASE RemoteNext
    BY <2>1, <2>2, <2>3 DEF RemoteNext, Connect, Disconnect, Send
  <2>4. CASE UNCHANGED remoteVars
    BY <2>1, <2>4 DEF remoteVars
  <2>. QED  BY <2>3, <2>4
<1>3. (Exact => SharedStack) => UndoRestores
  <2>. SUFFICES ASSUME Exact, SharedStack
                PROVE  Seen(View(chart)) = Seen(views[index + 1]) /\ stopped \cap InstancesIn = stops[index + 1]
    BY DEF UndoRestores
  <2>1. /\ Keyed(chart) /\ View(Seen(chart)) = Seen(views[index + 1])
        /\ stopped = stops[index + 1] /\ stopped \subseteq InstancesIn
    BY SharedParts
  <2>2. View(Seen(chart)) = Seen(View(chart))
    BY <2>1, SeenView DEF Keyed
  <2>. QED  BY <2>1, <2>2
<1>. QED  BY <1>1, <1>2, <1>3, NameInvariant, PTL DEF RemoteSpec
===============================================================================
