------------------------------- MODULE MscTimers -------------------------------
(* The timers of a chart (msc::MscTimer, and what msc::MscChart does for them): *)
(* a start timer and the stop or timeout after it on the same lifeline point to *)
(* each other, and are drawn as one.  Other events of the lifelines are left    *)
(* out; an operator is a method and gives the state c after it.                 *)
EXTENDS MscLists

CONSTANTS Instances,   \* MscInstance
          Timers,      \* MscTimer
          Starts,      \* the timers of type Start
          Names,       \* their names
          Suffix,      \* MscTimer::timerInstanceName
          NoInstance,
          NoTimer,
          Sessions     \* the kinds of command given in one session, by session

ASSUME TimersAssumption ==
  /\ Starts \subseteq Timers
  /\ NoInstance \notin Instances /\ NoTimer \notin Timers
  /\ DOMAIN Suffix = Timers
  /\ IsFiniteSet(Instances)

TimerOrNone == Timers \cup {NoTimer}
Chart ==
  [lists : [Instances -> Seq(Timers)],
   inst  : [Timers -> Instances \cup {NoInstance}],
   name  : [Timers -> Names],
   pre   : [Timers -> TimerOrNone],
   fol   : [Timers -> TimerOrNone]]

Lifeline(c, t) == IF c.inst[t] = NoInstance THEN << >> ELSE c.lists[c.inst[t]]
FullName(c, t) == <<c.name[t], Suffix[t]>>
-------------------------------------------------------------------------------
(* MscTimer.                                                                    *)

\* allowPrecedingTimer and allowFollowingTimer: t may be followed by u.
Allowed(c, t, u) ==
  c.inst[t] = c.inst[u] /\ c.inst[u] # NoInstance /\ c.name[t] = c.name[u] /\ t \in Starts

\* A setter that does not tell the old neighbour.
SetFollowingOnly(c, t, u) ==
  [c EXCEPT !.fol[t] = IF u # NoTimer /\ Allowed(c, t, u) THEN u ELSE NoTimer]

\* The old neighbour lets go of t; its own old neighbour is t, so that it stops there.
SetPrecedingTimer(c, t, u) ==
  IF c.pre[t] = u THEN c
  ELSE LET old == c.pre[t]
           n   == IF u # NoTimer /\ Allowed(c, u, t) THEN u ELSE NoTimer
       IN  [c EXCEPT !.pre[t] = n,
                     !.fol = [x \in Timers |-> IF x = old /\ @[x] = t THEN NoTimer ELSE @[x]]]

SetFollowingTimer(c, t, u) ==
  IF c.fol[t] = u THEN c
  ELSE LET old == c.fol[t]
           n   == IF u # NoTimer /\ Allowed(c, t, u) THEN u ELSE NoTimer
       IN  [c EXCEPT !.fol[t] = n,
                     !.pre = [x \in Timers |-> IF x = old /\ @[x] = t THEN NoTimer ELSE @[x]]]

\* The timer's own answer to nameChanged: its neighbours get the name, silently.
SetNameSilently(c, t, n) ==
  [c EXCEPT !.name = [x \in Timers |-> IF x = t \/ x \in {c.pre[t], c.fol[t]} THEN n ELSE @[x]]]
-------------------------------------------------------------------------------
(* MscChart.                                                                    *)

\* The timers of t's full name before and after it on its lifeline.
Earlier(c, t) ==
  {k \in 1..IndexOf(Lifeline(c, t), t) : FullName(c, Lifeline(c, t)[k]) = FullName(c, t)}
Later(c, t) ==
  IF t \notin Range(Lifeline(c, t)) THEN {}
  ELSE {k \in (IndexOf(Lifeline(c, t), t) + 2)..Len(Lifeline(c, t)) :
          FullName(c, Lifeline(c, t)[k]) = FullName(c, t)}
LastBefore(c, t) ==
  LET K == Earlier(c, t)
  IN  IF K = {} THEN NoTimer ELSE Lifeline(c, t)[CHOOSE k \in K : \A j \in K : j <= k]
FirstAfter(c, t) ==
  LET K == Later(c, t)
  IN  IF K = {} THEN NoTimer ELSE Lifeline(c, t)[CHOOSE k \in K : \A j \in K : k <= j]

Join(c, t, u) == SetPrecedingTimer(SetFollowingTimer(c, t, u), u, t)
JoinBack(c, t, u) == SetFollowingTimer(SetPrecedingTimer(c, u, t), t, u)

UpdatePrecedingTimer(c, t) ==
  IF c.inst[t] = NoInstance THEN c
  ELSE IF LastBefore(c, t) = NoTimer THEN SetPrecedingTimer(c, t, NoTimer)
  ELSE JoinBack(c, LastBefore(c, t), t)

UpdateFollowingTimer(c, t) ==
  IF c.inst[t] = NoInstance THEN c
  ELSE IF FirstAfter(c, t) = NoTimer THEN SetFollowingTimer(c, t, NoTimer)
  ELSE Join(c, t, FirstAfter(c, t))

\* A reset that forgets the timers that were the neighbours of t.
ResetOwnRelations(c, t) ==
  LET c3 == SetPrecedingTimer(SetFollowingTimer(c, t, NoTimer), t, NoTimer)
  IN  IF t \notin Range(Lifeline(c3, t)) THEN c3
      ELSE UpdatePrecedingTimer(UpdateFollowingTimer(c3, t), t)

ResetTimerRelations(c, t) ==
  LET p  == c.pre[t]
      f  == c.fol[t]
      c1 == IF p = NoTimer THEN c ELSE UpdateFollowingTimer(c, p)
      c2 == IF f = NoTimer THEN c1 ELSE UpdatePrecedingTimer(c1, f)
      c3 == SetPrecedingTimer(SetFollowingTimer(c2, t, NoTimer), t, NoTimer)
  IN  IF t \notin Range(Lifeline(c3, t)) THEN c3
      ELSE UpdatePrecedingTimer(UpdateFollowingTimer(c3, t), t)

AddInstanceEvent(c, t, pos) ==
  ResetTimerRelations([c EXCEPT !.lists[c.inst[t]] = InsertOrAppend(@, pos, t)], t)

\* The timer keeps its neighbours and they keep it.
RemoveInstanceEvent(c, t) == [c EXCEPT !.lists = [i \in Instances |-> RemoveAll(@[i], t)]]

\* A change of lifeline that leaves the timer on the old one too.
SetInstanceOnly(c, t, i) ==
  IF c.inst[t] = i THEN c ELSE AddInstanceEvent([c EXCEPT !.inst[t] = i], t, -1)

SetEventInstance(c, t, i) ==
  IF c.inst[t] = i THEN c
  ELSE AddInstanceEvent([RemoveInstanceEvent(c, t) EXCEPT !.inst[t] = i], t, -1)

\* A move that leaves the pairs as they were.
MoveKeepingPairs(c, t, i, pos) ==
  LET c1 == SetEventInstance(c, t, i)
  IN  [c1 EXCEPT !.lists[i] = InsertAtPos(RemoveAll(@, t), pos, t)]

\* updateTimerPos, with moveEvent
UpdateTimerPos(c, t, i, pos) ==
  LET c1 == SetEventInstance(c, t, i)
      c2 == [c1 EXCEPT !.lists[i] = InsertAtPos(RemoveAll(@, t), pos, t)]
  IN  IF c.inst[t] = i /\ IndexOf(c.lists[i], t) = pos THEN c ELSE ResetTimerRelations(c2, t)

\* setName: the timer answers first, then the chart.
SetName(c, t, n) ==
  IF c.name[t] = n THEN c ELSE ResetTimerRelations(SetNameSilently(c, t, n), t)

\* setInstanceEvents, which undo of a deletion calls: lifeline by lifeline in the
\* order the hash gives, the timers are reset from the first to the last.
ResetLine(c, line) ==
  LET after[n \in 0..Len(line)] ==
        IF n = 0 THEN c ELSE ResetTimerRelations(after[n - 1], line[n])
  IN  after[Len(line)]
SetInstanceEvents(c, lists, order) ==
  LET after[n \in 0..Len(order)] ==
        IF n = 0 THEN [c EXCEPT !.lists = lists] ELSE ResetLine(after[n - 1], lists[order[n]])
  IN  after[Len(order)]
-------------------------------------------------------------------------------
VARIABLES chart,
          deleted,  \* the timer that was deleted last and the lists before, for undo
          session   \* auxiliary: which of the sessions this is

vars == <<chart, deleted, session>>

NothingDeleted == [timer |-> NoTimer, lists |-> [i \in Instances |-> << >>]]
InChart(c) == UNION {Range(c.lists[i]) : i \in Instances}

Init ==
  /\ chart \in [lists : {[i \in Instances |-> << >>]},
                inst  : {[t \in Timers |-> NoInstance]},
                name  : [Timers -> Names],
                pre   : {[t \in Timers |-> NoTimer]},
                fol   : {[t \in Timers |-> NoTimer]}]
  /\ deleted = NothingDeleted
  /\ session \in Sessions

\* CmdTimerItemCreate: a timer is made on one lifeline.
Create(t, i, pos) ==
  /\ chart.inst[t] = NoInstance
  /\ chart' = AddInstanceEvent([chart EXCEPT !.inst[t] = i], t, pos)
  /\ deleted' = NothingDeleted

\* CmdTimerItemMove
Move(t, i, pos) ==
  /\ t \in InChart(chart)
  /\ pos <= Len(RemoveAll(chart.lists[i], t))
  /\ chart' = UpdateTimerPos(chart, t, i, pos)
  /\ deleted' = NothingDeleted

\* CmdEntityNameChange; undo is a renaming back.
Rename(t, n) ==
  /\ t \in InChart(chart)
  /\ chart' = SetName(chart, t, n)
  /\ deleted' = NothingDeleted

\* CmdDeleteEntity
Delete(t) ==
  /\ t \in InChart(chart)
  /\ chart' = RemoveInstanceEvent(chart, t)
  /\ deleted' = [timer |-> t, lists |-> chart.lists]

UndoDelete(order) ==
  /\ deleted.timer # NoTimer
  /\ chart' = SetInstanceEvents(chart, deleted.lists, order)
  /\ deleted' = NothingDeleted

Positions == 0..Cardinality(Timers)
Orders == {s \in [1..Cardinality(Instances) -> Instances] : NoRepeat(s)}

Next ==
  /\ UNCHANGED session
  /\ \/ \E t \in Timers, i \in Instances, pos \in Positions : Create(t, i, pos)
     \/ \E t \in Timers, i \in Instances, pos \in Positions : Move(t, i, pos)
     \/ "delete" \in session /\ \E t \in Timers : Delete(t)
     \/ "delete" \in session /\ \E order \in Orders : UndoDelete(order)
     \/ "rename" \in session /\ \E t \in Timers, n \in Names : Rename(t, n)

Spec == Init /\ [][Next]_vars
-------------------------------------------------------------------------------
(* Properties.                                                                  *)

\* Types, and a timer in the chart is on the lifeline of its instance, once.
TypeOK ==
  /\ chart \in Chart
  /\ \A i \in Instances : NoRepeat(chart.lists[i])
  /\ \A t \in Timers, i \in Instances : t \in Range(chart.lists[i]) => chart.inst[t] = i

\* The two pointers of a pair agree, also while one of the two is deleted.
LinksMutual ==
  \A t, u \in Timers : chart.fol[t] = u <=> chart.pre[u] = t

\* A pair is on one lifeline, a start first, whatever was renamed or deleted.
PairsOnLifeline ==
  \A t \in Timers : LET u == chart.fol[t] IN u # NoTimer =>
    /\ t \in Starts /\ chart.inst[t] = chart.inst[u]
    /\ {t, u} \subseteq InChart(chart) => IndexOf(Lifeline(chart, t), t) < IndexOf(Lifeline(chart, u), u)

\* "Deny connection with different names" (tst_msctimer.cpp:84): the timers of a pair
\* have one name.
SameNames ==
  \A t \in Timers : chart.fol[t] # NoTimer => chart.name[chart.fol[t]] = chart.name[t]

\* A start and the next timer of its name on its lifeline are a pair, and no others
\* are, when no timer was renamed and none is deleted.
AllInChart(c) == \A t \in Timers : c.inst[t] # NoInstance => t \in InChart(c)
PairsAreNearest ==
  "rename" \notin session /\ AllInChart(chart) =>
    \A t \in InChart(chart) :
      chart.fol[t] = IF t \in Starts THEN FirstAfter(chart, t) ELSE NoTimer
================================================================================
