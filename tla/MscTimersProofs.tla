--------------------------- MODULE MscTimersProofs ---------------------------
(* The pairs of timers of a chart of any size.                               *)
EXTENDS MscTimers, MscListsProofs

\* The lists and the instances of the timers agree.
Shaped(c) ==
  /\ c \in Chart
  /\ \A i \in Instances : NoRepeat(c.lists[i])
  /\ \A t \in Timers, i \in Instances : t \in Range(c.lists[i]) => c.inst[t] = i
Mutual(c) == \A t, u \in Timers : c.fol[t] = u <=> c.pre[u] = t

\* A pair is on one lifeline, and its start is first, as long as both are listed.
PairOk(c, t, u) ==
  LET line == c.lists[c.inst[t]]
  IN  /\ t \in Starts /\ c.inst[t] # NoInstance /\ c.inst[t] = c.inst[u]
      /\ {t, u} \subseteq Range(line) => Precedes(line, t, u)

\* All pairs are right, those of t apart.
GoodBut(c, t) ==
  /\ Shaped(c) /\ Mutual(c)
  /\ \A x \in Timers : c.fol[x] # NoTimer => PairOk(c, x, c.fol[x]) \/ t \in {x, c.fol[x]}
Good(c) ==
  /\ Shaped(c) /\ Mutual(c)
  /\ \A x \in Timers : c.fol[x] # NoTimer => PairOk(c, x, c.fol[x])

\* d is c with other links.
Relinked(c, d) ==
  d \in Chart /\ d.lists = c.lists /\ d.inst = c.inst /\ d.name = c.name
-------------------------------------------------------------------------------
(* The links.                                                                   *)

\* What x is followed by when t was joined to u.
Joined(c, t, u, x) ==
  IF c.fol[t] = u THEN c.fol[x]
  ELSE IF x = t THEN IF Allowed(c, t, u) THEN u ELSE NoTimer
  ELSE IF c.fol[x] = u THEN NoTimer ELSE c.fol[x]

LEMMA SetFollowingIs ==
  ASSUME NEW c \in Chart, NEW t \in Timers, NEW u \in TimerOrNone, c.fol[t] # u
  PROVE  LET d == SetFollowingTimer(c, t, u)
             n == IF u # NoTimer /\ Allowed(c, t, u) THEN u ELSE NoTimer
         IN  /\ Relinked(c, d)
             /\ d.fol = [c.fol EXCEPT ![t] = n]
             /\ d.pre = [x \in Timers |-> IF x = c.fol[t] /\ c.pre[x] = t THEN NoTimer ELSE c.pre[x]]
BY DEF SetFollowingTimer, Relinked, Chart, TimerOrNone

LEMMA SetPrecedingIs ==
  ASSUME NEW c \in Chart, NEW t \in Timers, NEW u \in TimerOrNone, c.pre[t] # u
  PROVE  LET d == SetPrecedingTimer(c, t, u)
             n == IF u # NoTimer /\ Allowed(c, u, t) THEN u ELSE NoTimer
         IN  /\ Relinked(c, d)
             /\ d.pre = [c.pre EXCEPT ![t] = n]
             /\ d.fol = [x \in Timers |-> IF x = c.pre[t] /\ c.fol[x] = t THEN NoTimer ELSE c.fol[x]]
BY DEF SetPrecedingTimer, Relinked, Chart, TimerOrNone

\* A link that is taken away is taken away on both sides.
LEMMA CutFollowing ==
  ASSUME NEW c \in Chart, Mutual(c), NEW t \in Timers
  PROVE  LET d == SetFollowingTimer(c, t, NoTimer)
         IN  /\ Relinked(c, d) /\ Mutual(d)
             /\ \A x \in Timers : d.fol[x] = IF x = t THEN NoTimer ELSE c.fol[x]
<1>1. CASE c.fol[t] = NoTimer
  BY <1>1 DEF SetFollowingTimer, Relinked
<1>2. CASE c.fol[t] # NoTimer
  <2>. DEFINE d == SetFollowingTimer(c, t, NoTimer)
  <2>1. /\ Relinked(c, d)
        /\ d.fol = [c.fol EXCEPT ![t] = NoTimer]
        /\ d.pre = [x \in Timers |-> IF x = c.fol[t] /\ c.pre[x] = t THEN NoTimer ELSE c.pre[x]]
    BY <1>2, SetFollowingIs DEF TimerOrNone
  <2>. HIDE DEF d
  <2>2. c.fol \in [Timers -> TimerOrNone] /\ NoTimer \notin Timers
    BY TimersAssumption DEF Chart
  <2>. QED  BY <2>1, <2>2 DEF Mutual, d
<1>. QED  BY <1>1, <1>2

LEMMA CutPreceding ==
  ASSUME NEW c \in Chart, Mutual(c), NEW t \in Timers
  PROVE  LET d == SetPrecedingTimer(c, t, NoTimer)
         IN  /\ Relinked(c, d) /\ Mutual(d)
             /\ \A x \in Timers : d.fol[x] = IF c.fol[x] = t THEN NoTimer ELSE c.fol[x]
<1>0. c.pre \in [Timers -> TimerOrNone] /\ NoTimer \notin Timers
  BY TimersAssumption DEF Chart
<1>1. CASE c.pre[t] = NoTimer
  BY <1>0, <1>1 DEF SetPrecedingTimer, Relinked, Mutual
<1>2. CASE c.pre[t] # NoTimer
  <2>. DEFINE d == SetPrecedingTimer(c, t, NoTimer)
  <2>1. /\ Relinked(c, d)
        /\ d.pre = [c.pre EXCEPT ![t] = NoTimer]
        /\ d.fol = [x \in Timers |-> IF x = c.pre[t] /\ c.fol[x] = t THEN NoTimer ELSE c.fol[x]]
    BY <1>2 DEF SetPrecedingTimer, Relinked, Chart, TimerOrNone
  <2>. HIDE DEF d
  <2>. QED  BY <1>0, <2>1 DEF Mutual, d
<1>. QED  BY <1>1, <1>2

\* So is one that is made: what the two were linked to before lets go of them.
LEMMA JoinIs ==
  ASSUME NEW c \in Chart, Mutual(c), NEW t \in Timers, NEW u \in Timers
  PROVE  LET d == Join(c, t, u)
         IN  /\ Relinked(c, d) /\ Mutual(d)
             /\ \A x \in Timers : d.fol[x] = Joined(c, t, u, x)
<1>0. /\ c.pre \in [Timers -> TimerOrNone] /\ c.fol \in [Timers -> TimerOrNone]
      /\ NoTimer \notin Timers /\ u \in TimerOrNone /\ t \in TimerOrNone
  BY TimersAssumption DEF Chart, TimerOrNone
<1>1. CASE c.fol[t] = u
  BY <1>1 DEF Join, SetFollowingTimer, SetPrecedingTimer, Mutual, Relinked, Joined
<1>2. CASE c.fol[t] # u
  <2>. DEFINE b == SetFollowingTimer(c, t, u)
              d == SetPrecedingTimer(b, u, t)
              ok == Allowed(c, t, u)
  <2>1. /\ Relinked(c, b)
        /\ b.fol = [c.fol EXCEPT ![t] = IF ok THEN u ELSE NoTimer]
        /\ b.pre = [x \in Timers |-> IF x = c.fol[t] /\ c.pre[x] = t THEN NoTimer ELSE c.pre[x]]
    BY <1>0, <1>2, SetFollowingIs
  <2>. HIDE DEF b
  <2>2. b \in Chart /\ b.pre[u] = c.pre[u] /\ b.pre[u] # t /\ (Allowed(b, t, u) <=> ok)
    BY <1>0, <1>2, <2>1 DEF Mutual, Relinked, Allowed
  <2>3. /\ Relinked(b, d)
        /\ d.pre = [b.pre EXCEPT ![u] = IF ok THEN t ELSE NoTimer]
        /\ d.fol = [x \in Timers |-> IF x = b.pre[u] /\ b.fol[x] = u THEN NoTimer ELSE b.fol[x]]
    BY <1>0, <2>2, SetPrecedingIs
  <2>. HIDE DEF d, ok
  <2>4. Relinked(c, d)
    BY <2>1, <2>3 DEF Relinked
  <2>5. \A x \in Timers : d.fol[x] = IF x = t THEN IF ok THEN u ELSE NoTimer
                                     ELSE IF c.fol[x] = u THEN NoTimer ELSE c.fol[x]
    BY <1>0, <1>2, <2>1, <2>2, <2>3 DEF Mutual
  <2>6. \A x \in Timers : d.pre[x] = IF x = u THEN IF ok THEN t ELSE NoTimer
                                     ELSE IF c.pre[x] = t THEN NoTimer ELSE c.pre[x]
    BY <1>0, <1>2, <2>1, <2>2, <2>3 DEF Mutual
  <2>7. Mutual(d)
    BY <1>0, <1>2, <2>5, <2>6 DEF Mutual
  <2>8. \A x \in Timers : d.fol[x] = Joined(c, t, u, x)
    BY <1>2, <2>5 DEF Joined, ok
  <2>. QED  BY <2>4, <2>7, <2>8 DEF Join, b, d
<1>. QED  BY <1>1, <1>2

LEMMA JoinBackIs ==
  ASSUME NEW c \in Chart, Mutual(c), NEW t \in Timers, NEW u \in Timers
  PROVE  LET d == JoinBack(c, t, u)
         IN  /\ Relinked(c, d) /\ Mutual(d)
             /\ \A x \in Timers : d.fol[x] = Joined(c, t, u, x)
<1>0. /\ c.pre \in [Timers -> TimerOrNone] /\ c.fol \in [Timers -> TimerOrNone]
      /\ NoTimer \notin Timers /\ u \in TimerOrNone /\ t \in TimerOrNone
  BY TimersAssumption DEF Chart, TimerOrNone
<1>1. CASE c.fol[t] = u
  BY <1>1 DEF JoinBack, SetFollowingTimer, SetPrecedingTimer, Mutual, Relinked, Joined
<1>2. CASE c.fol[t] # u
  <2>. DEFINE b == SetPrecedingTimer(c, u, t)
              d == SetFollowingTimer(b, t, u)
              ok == Allowed(c, t, u)
  <2>0. c.pre[u] # t
    BY <1>2 DEF Mutual
  <2>1. /\ Relinked(c, b)
        /\ b.pre = [c.pre EXCEPT ![u] = IF ok THEN t ELSE NoTimer]
        /\ b.fol = [x \in Timers |-> IF x = c.pre[u] /\ c.fol[x] = u THEN NoTimer ELSE c.fol[x]]
    BY <1>0, <2>0, SetPrecedingIs
  <2>. HIDE DEF b
  <2>2. b \in Chart /\ b.fol[t] = c.fol[t] /\ b.fol[t] # u /\ (Allowed(b, t, u) <=> ok)
    BY <1>0, <1>2, <2>0, <2>1 DEF Relinked, Allowed
  <2>3. /\ Relinked(b, d)
        /\ d.fol = [b.fol EXCEPT ![t] = IF ok THEN u ELSE NoTimer]
        /\ d.pre = [x \in Timers |-> IF x = b.fol[t] /\ b.pre[x] = t THEN NoTimer ELSE b.pre[x]]
    BY <1>0, <2>2, SetFollowingIs
  <2>. HIDE DEF d, ok
  <2>4. Relinked(c, d)
    BY <2>1, <2>3 DEF Relinked
  <2>5. \A x \in Timers : d.fol[x] = IF x = t THEN IF ok THEN u ELSE NoTimer
                                     ELSE IF c.fol[x] = u THEN NoTimer ELSE c.fol[x]
    BY <1>0, <1>2, <2>1, <2>2, <2>3 DEF Mutual
  <2>6. \A x \in Timers : d.pre[x] = IF x = u THEN IF ok THEN t ELSE NoTimer
                                     ELSE IF c.pre[x] = t THEN NoTimer ELSE c.pre[x]
    BY <1>0, <1>2, <2>1, <2>2, <2>3 DEF Mutual
  <2>7. Mutual(d)
    BY <1>0, <1>2, <2>5, <2>6 DEF Mutual
  <2>8. \A x \in Timers : d.fol[x] = Joined(c, t, u, x)
    BY <1>2, <2>5 DEF Joined, ok
  <2>. QED  BY <2>4, <2>7, <2>8 DEF JoinBack, b, d
<1>. QED  BY <1>1, <1>2
-------------------------------------------------------------------------------
(* The timers before and after one.                                             *)

\* y is after x on their lifeline, and has its name.
Follows(c, x, y) ==
  /\ c.inst[x] # NoInstance /\ c.inst[x] = c.inst[y] /\ FullName(c, x) = FullName(c, y)
  /\ Precedes(c.lists[c.inst[x]], x, y)

LEMMA FollowsIsOrder ==
  ASSUME NEW c, Shaped(c)
  PROVE  /\ \A x \in Timers : ~Follows(c, x, x)
         /\ \A x, y, z \in Timers : Follows(c, x, y) /\ Follows(c, y, z) => Follows(c, x, z)
         /\ \A x, y, z \in Timers : Follows(c, x, y) /\ Follows(c, x, z) =>
              y = z \/ Follows(c, y, z) \/ Follows(c, z, y)
         /\ \A x, y, z \in Timers : Follows(c, x, z) /\ Follows(c, y, z) =>
              x = y \/ Follows(c, x, y) \/ Follows(c, y, x)
<1>1. \A x \in Timers : c.inst[x] # NoInstance => 
        c.lists[c.inst[x]] \in Seq(Timers) /\ NoRepeat(c.lists[c.inst[x]])
  BY DEF Shaped, Chart
<1>2. \A x \in Timers : ~Follows(c, x, x)
  BY <1>1, PrecedesIsOrder DEF Follows
<1>3. \A x, y, z \in Timers : Follows(c, x, y) /\ Follows(c, y, z) => Follows(c, x, z)
  BY <1>1, PrecedesIsOrder DEF Follows
<1>4. \A x, y, z \in Timers : Follows(c, x, y) /\ Follows(c, x, z) =>
        y = z \/ Follows(c, y, z) \/ Follows(c, z, y)
  BY <1>1, PrecedesIsOrder DEF Follows
<1>5. \A x, y, z \in Timers : Follows(c, x, z) /\ Follows(c, y, z) =>
        x = y \/ Follows(c, x, y) \/ Follows(c, y, x)
  BY <1>1, PrecedesIsOrder DEF Follows
<1>. QED  BY <1>2, <1>3, <1>4, <1>5

\* The lifeline of a timer that is on one, and its place there.
LEMMA OnLifeline ==
  ASSUME NEW c, Shaped(c), NEW t \in Timers
  PROVE  LET line == Lifeline(c, t)
             j    == IndexOf(line, t) + 1
         IN  /\ line \in Seq(Timers) /\ NoRepeat(line)
             /\ c.inst[t] = NoInstance => line = << >>
             /\ c.inst[t] # NoInstance => line = c.lists[c.inst[t]]
             /\ \A k \in 1..Len(line) : line[k] \in Timers /\ c.inst[line[k]] = c.inst[t]
             /\ t \in Range(line) =>
                  j \in 1..Len(line) /\ line[j] = t /\ \A k \in 1..Len(line) : line[k] = t => k = j
<1>. DEFINE line == Lifeline(c, t)
            j    == IndexOf(line, t) + 1
<1>1. CASE c.inst[t] = NoInstance
  <2>1. line = << >>
    BY <1>1 DEF Lifeline
  <2>. HIDE DEF line
  <2>2. line \in Seq(Timers) /\ Range(line) = {} /\ Len(line) = 0 /\ NoRepeat(line)
    BY <2>1 DEF Range, NoRepeat
  <2>. QED  BY <1>1, <2>1, <2>2 DEF line
<1>2. CASE c.inst[t] # NoInstance
  <2>1. c.inst[t] \in Instances /\ line = c.lists[c.inst[t]]
    BY <1>2 DEF Lifeline, Shaped, Chart
  <2>2. line \in Seq(Timers) /\ NoRepeat(line)
    BY <2>1 DEF Shaped, Chart
  <2>3. DOMAIN line = 1..Len(line) /\ Len(line) \in Nat
    BY <2>2, LenProperties
  <2>4. \A k \in 1..Len(line) : line[k] \in Timers /\ c.inst[line[k]] = c.inst[t]
    BY <2>1, <2>2, <2>3, ElementOfSeq DEF Shaped, Range
  <2>5. ASSUME t \in Range(line)
        PROVE  j \in 1..Len(line) /\ line[j] = t /\ \A k \in 1..Len(line) : line[k] = t => k = j
    <3>. HIDE DEF line
    <3>1. IndexOf(line, t) \in 0..(Len(line) - 1) /\ line[IndexOf(line, t) + 1] = t
      BY <2>2, <2>5, IndexOfProperties
    <3>2. j \in 1..Len(line) /\ line[j] = t
      BY <2>3, <3>1
    <3>. QED  BY <2>2, <2>3, <3>2 DEF NoRepeat
  <2>. QED  BY <1>2, <2>1, <2>2, <2>4, <2>5
<1>. QED  BY <1>1, <1>2

\* FirstAfter is the next of these, and LastBefore the previous one.
LEMMA FirstAfterIs ==
  ASSUME NEW c, Shaped(c), NEW t \in Timers
  PROVE  LET u == FirstAfter(c, t)
         IN  /\ u \in TimerOrNone
             /\ u = NoTimer => \A y \in Timers : ~Follows(c, t, y)
             /\ u # NoTimer => Follows(c, t, u) /\ \A y \in Timers : Follows(c, t, y) => y = u \/ Follows(c, u, y)
<1>. DEFINE line == Lifeline(c, t)
            j    == IndexOf(line, t) + 1
            K    == Later(c, t)
            u    == FirstAfter(c, t)
<1>1. /\ line \in Seq(Timers) /\ NoRepeat(line)
      /\ c.inst[t] = NoInstance => line = << >>
      /\ c.inst[t] # NoInstance => line = c.lists[c.inst[t]]
      /\ \A k \in 1..Len(line) : line[k] \in Timers /\ c.inst[line[k]] = c.inst[t]
      /\ t \in Range(line) =>
           j \in 1..Len(line) /\ line[j] = t /\ \A k \in 1..Len(line) : line[k] = t => k = j
  BY OnLifeline
<1>2. Len(line) \in Nat /\ DOMAIN line = 1..Len(line)
  BY <1>1, LenProperties
<1>3. K = IF t \notin Range(line) THEN {}
          ELSE {k \in (IndexOf(line, t) + 2)..Len(line) : FullName(c, line[k]) = FullName(c, t)}
  BY DEF Later
<1>4. u = IF K = {} THEN NoTimer ELSE line[CHOOSE k \in K : \A m \in K : k <= m]
  BY DEF FirstAfter
<1>5. NoTimer \notin Timers /\ TimerOrNone = Timers \cup {NoTimer}
  BY TimersAssumption DEF TimerOrNone
<1>6. t \in Range(line) => j \in Int /\ IndexOf(line, t) + 2 = j + 1
  <2>1. t \in Range(line) => IndexOf(line, t) \in Int
    BY <1>1, IndexOfProperties
  <2>. QED  BY <2>1
<1>. HIDE DEF line, j, K, u
<1>7. K = IF t \notin Range(line) THEN {}
          ELSE {k \in (j + 1)..Len(line) : FullName(c, line[k]) = FullName(c, t)}
  BY <1>3, <1>6
<1>8. K \in SUBSET (1..Len(line)) /\ \A k \in K : j < k /\ j \in 1..Len(line) /\ line[j] = t
  BY <1>1, <1>2, <1>6, <1>7
<1>9. ASSUME NEW k \in K  PROVE Follows(c, t, line[k])
  <2>1. Precedes(line, t, line[k])
    BY <1>2, <1>8 DEF Precedes
  <2>2. c.inst[t] # NoInstance
    <3>1. Len(<< >>) = 0
      OBVIOUS
    <3>2. k \in 1..Len(line)
      BY <1>8
    <3>. QED  BY <1>1, <3>1, <3>2
  <2>3. FullName(c, line[k]) = FullName(c, t) /\ c.inst[line[k]] = c.inst[t]
    BY <1>1, <1>7, <1>8
  <2>. QED  BY <1>1, <2>1, <2>2, <2>3 DEF Follows
<1>10. ASSUME NEW y \in Timers, Follows(c, t, y)
       PROVE  \E k \in K : line[k] = y
  <2>1. line = c.lists[c.inst[t]] /\ FullName(c, t) = FullName(c, y) /\ Precedes(line, t, y)
    BY <1>1, <1>10 DEF Follows
  <2>2. PICK m, k \in DOMAIN line : m < k /\ line[m] = t /\ line[k] = y
    BY <2>1 DEF Precedes
  <2>3. t \in Range(line)
    BY <2>2 DEF Range
  <2>4. m = j
    BY <1>1, <1>2, <2>2, <2>3
  <2>5. k \in (j + 1)..Len(line)
    BY <1>2, <2>2, <2>4
  <2>. QED  BY <1>7, <2>1, <2>2, <2>3, <2>5
<1>11. ASSUME K = {}
       PROVE  u = NoTimer /\ \A y \in Timers : ~Follows(c, t, y)
  BY <1>4, <1>5, <1>10, <1>11
<1>12. ASSUME K # {}
       PROVE  u \in Timers /\ Follows(c, t, u) /\ \A y \in Timers : Follows(c, t, y) => y = u \/ Follows(c, u, y)
  <2>. DEFINE first == CHOOSE k \in K : \A m \in K : k <= m
  <2>1. \E k \in K : \A m \in K : k <= m
    <3>1. K \in SUBSET Nat
      BY <1>8
    <3>. QED  BY <1>12, <3>1, LeastNat
  <2>2. first \in K /\ \A m \in K : first <= m
    BY <2>1
  <2>3. u = line[first]
    BY <1>4, <1>12
  <2>. HIDE DEF first
  <2>4. u \in Timers /\ Follows(c, t, u)
    BY <1>1, <1>8, <1>9, <2>2, <2>3
  <2>5. ASSUME NEW y \in Timers, Follows(c, t, y)  PROVE y = u \/ Follows(c, u, y)
    <3>1. PICK k \in K : line[k] = y
      BY <1>10, <2>5
    <3>2. k = first \/ first < k
      BY <1>8, <2>2
    <3>3. first < k => Precedes(line, u, y)
      BY <1>2, <1>8, <2>2, <2>3, <3>1 DEF Precedes
    <3>4. line = c.lists[c.inst[t]] /\ c.inst[t] # NoInstance
      BY <1>1, <2>4 DEF Follows
    <3>. QED  BY <2>3, <2>4, <2>5, <3>1, <3>2, <3>3, <3>4 DEF Follows
  <2>. QED  BY <2>4, <2>5
<1>13. /\ u \in TimerOrNone
       /\ u = NoTimer => \A y \in Timers : ~Follows(c, t, y)
       /\ u # NoTimer => Follows(c, t, u) /\ \A y \in Timers : Follows(c, t, y) => y = u \/ Follows(c, u, y)
  BY <1>5, <1>11, <1>12
<1>. QED  BY <1>13 DEF u

LEMMA LastBeforeIs ==
  ASSUME NEW c, Shaped(c), NEW t \in Timers
  PROVE  LET u == LastBefore(c, t)
         IN  /\ u \in TimerOrNone
             /\ u = NoTimer => \A y \in Timers : ~Follows(c, y, t)
             /\ u # NoTimer => Follows(c, u, t) /\ \A y \in Timers : Follows(c, y, t) => y = u \/ Follows(c, y, u)
<1>. DEFINE line == Lifeline(c, t)
            j    == IndexOf(line, t) + 1
            K    == Earlier(c, t)
            u    == LastBefore(c, t)
<1>1. /\ line \in Seq(Timers) /\ NoRepeat(line)
      /\ c.inst[t] = NoInstance => line = << >>
      /\ c.inst[t] # NoInstance => line = c.lists[c.inst[t]]
      /\ \A k \in 1..Len(line) : line[k] \in Timers /\ c.inst[line[k]] = c.inst[t]
      /\ t \in Range(line) =>
           j \in 1..Len(line) /\ line[j] = t /\ \A k \in 1..Len(line) : line[k] = t => k = j
  BY OnLifeline
<1>2. Len(line) \in Nat /\ DOMAIN line = 1..Len(line)
  BY <1>1, LenProperties
<1>3. K = {k \in 1..IndexOf(line, t) : FullName(c, line[k]) = FullName(c, t)}
  BY DEF Earlier
<1>4. u = IF K = {} THEN NoTimer ELSE line[CHOOSE k \in K : \A m \in K : m <= k]
  BY DEF LastBefore
<1>5. NoTimer \notin Timers /\ TimerOrNone = Timers \cup {NoTimer}
  BY TimersAssumption DEF TimerOrNone
<1>6. /\ t \in Range(line) => j \in Int /\ IndexOf(line, t) = j - 1
      /\ t \notin Range(line) => IndexOf(line, t) = -1
  <2>1. t \in Range(line) => IndexOf(line, t) \in Int
    BY <1>1, IndexOfProperties
  <2>. QED  BY <2>1 DEF IndexOf
<1>. HIDE DEF line, j, K, u
<1>7. K = IF t \notin Range(line) THEN {}
          ELSE {k \in 1..(j - 1) : FullName(c, line[k]) = FullName(c, t)}
  BY <1>3, <1>6
<1>8. K \in SUBSET (1..Len(line)) /\ \A k \in K : k < j /\ j \in 1..Len(line) /\ line[j] = t
  BY <1>1, <1>2, <1>6, <1>7
<1>9. ASSUME NEW k \in K  PROVE Follows(c, line[k], t)
  <2>1. Precedes(line, line[k], t)
    BY <1>2, <1>8 DEF Precedes
  <2>2. c.inst[t] # NoInstance
    <3>1. Len(<< >>) = 0
      OBVIOUS
    <3>2. k \in 1..Len(line)
      BY <1>8
    <3>. QED  BY <1>1, <3>1, <3>2
  <2>3. FullName(c, line[k]) = FullName(c, t) /\ c.inst[line[k]] = c.inst[t]
    BY <1>1, <1>7, <1>8
  <2>. QED  BY <1>1, <2>1, <2>2, <2>3 DEF Follows
<1>10. ASSUME NEW y \in Timers, Follows(c, y, t)
       PROVE  \E k \in K : line[k] = y
  <2>1. line = c.lists[c.inst[y]] /\ FullName(c, t) = FullName(c, y) /\ Precedes(line, y, t)
    BY <1>1, <1>10 DEF Follows
  <2>2. PICK k, m \in DOMAIN line : k < m /\ line[m] = t /\ line[k] = y
    BY <2>1 DEF Precedes
  <2>3. t \in Range(line)
    BY <2>2 DEF Range
  <2>4. m = j
    BY <1>1, <1>2, <2>2, <2>3
  <2>5. k \in 1..(j - 1)
    BY <1>2, <2>2, <2>4
  <2>. QED  BY <1>7, <2>1, <2>2, <2>3, <2>5
<1>11. ASSUME K = {}
       PROVE  u = NoTimer /\ \A y \in Timers : ~Follows(c, y, t)
  BY <1>4, <1>5, <1>10, <1>11
<1>12. ASSUME K # {}
       PROVE  u \in Timers /\ Follows(c, u, t) /\ \A y \in Timers : Follows(c, y, t) => y = u \/ Follows(c, y, u)
  <2>. DEFINE last == CHOOSE k \in K : \A m \in K : m <= k
  <2>1. \E k \in K : \A m \in K : m <= k
    <3>1. K \in SUBSET (0..Len(line))
      BY <1>8
    <3>. QED  BY <1>2, <1>12, <3>1, GreatestNat
  <2>2. last \in K /\ \A m \in K : m <= last
    BY <2>1
  <2>3. u = line[last]
    BY <1>4, <1>12
  <2>. HIDE DEF last
  <2>4. u \in Timers /\ Follows(c, u, t)
    BY <1>1, <1>8, <1>9, <2>2, <2>3
  <2>5. ASSUME NEW y \in Timers, Follows(c, y, t)  PROVE y = u \/ Follows(c, y, u)
    <3>1. PICK k \in K : line[k] = y
      BY <1>10, <2>5
    <3>2. k = last \/ k < last
      BY <1>8, <2>2
    <3>3. k < last => Precedes(line, y, u)
      BY <1>2, <1>8, <2>2, <2>3, <3>1 DEF Precedes
    <3>4. line = c.lists[c.inst[t]] /\ c.inst[t] # NoInstance
      BY <1>1, <2>4 DEF Follows
    <3>. QED  BY <2>3, <2>4, <2>5, <3>1, <3>2, <3>3, <3>4 DEF Follows
  <2>. QED  BY <2>4, <2>5
<1>13. /\ u \in TimerOrNone
       /\ u = NoTimer => \A y \in Timers : ~Follows(c, y, t)
       /\ u # NoTimer => Follows(c, u, t) /\ \A y \in Timers : Follows(c, y, t) => y = u \/ Follows(c, y, u)
  BY <1>5, <1>11, <1>12
<1>. QED  BY <1>13 DEF u
-------------------------------------------------------------------------------
(* What MscChart does with the pairs.                                           *)

\* What x is followed by after an update of t.
FollowedAfter(c, t, x) ==
  IF c.inst[t] = NoInstance THEN c.fol[x]
  ELSE IF FirstAfter(c, t) = NoTimer THEN IF x = t THEN NoTimer ELSE c.fol[x]
  ELSE Joined(c, t, FirstAfter(c, t), x)
PrecededAfter(c, t, x) ==
  IF c.inst[t] = NoInstance THEN c.fol[x]
  ELSE IF LastBefore(c, t) = NoTimer THEN IF c.fol[x] = t THEN NoTimer ELSE c.fol[x]
  ELSE Joined(c, LastBefore(c, t), t, x)

LEMMA UpdateFollowingIs ==
  ASSUME NEW c, Shaped(c), Mutual(c), NEW t \in Timers
  PROVE  LET d == UpdateFollowingTimer(c, t)
         IN  /\ Relinked(c, d) /\ Shaped(d) /\ Mutual(d)
             /\ \A x \in Timers : d.fol[x] = FollowedAfter(c, t, x)
<1>. DEFINE d == UpdateFollowingTimer(c, t)
            u == FirstAfter(c, t)
<1>0. c \in Chart /\ u \in TimerOrNone
  BY FirstAfterIs DEF Shaped
<1>1. Relinked(c, d) /\ Mutual(d) /\ \A x \in Timers : d.fol[x] = FollowedAfter(c, t, x)
  <2>1. CASE c.inst[t] = NoInstance
    BY <1>0, <2>1 DEF UpdateFollowingTimer, FollowedAfter, Relinked
  <2>2. CASE c.inst[t] # NoInstance /\ u = NoTimer
    <3>1. d = SetFollowingTimer(c, t, NoTimer)
      BY <2>2 DEF UpdateFollowingTimer
    <3>. HIDE DEF d
    <3>2. Relinked(c, d) /\ Mutual(d) /\ \A x \in Timers : d.fol[x] = IF x = t THEN NoTimer ELSE c.fol[x]
      BY <1>0, <3>1, CutFollowing
    <3>. QED  BY <2>2, <3>2 DEF FollowedAfter
  <2>3. CASE c.inst[t] # NoInstance /\ u # NoTimer
    <3>1. d = Join(c, t, u) /\ u \in Timers
      BY <1>0, <2>3 DEF UpdateFollowingTimer, TimerOrNone
    <3>. HIDE DEF d, u
    <3>2. Relinked(c, d) /\ Mutual(d) /\ \A x \in Timers : d.fol[x] = Joined(c, t, u, x)
      BY <1>0, <3>1, JoinIs
    <3>. QED  BY <2>3, <3>2 DEF FollowedAfter, u
  <2>. QED  BY <2>1, <2>2, <2>3
<1>. HIDE DEF d
<1>2. Shaped(d)
  BY <1>1 DEF Shaped, Relinked
<1>. QED  BY <1>1, <1>2 DEF d

LEMMA UpdatePrecedingIs ==
  ASSUME NEW c, Shaped(c), Mutual(c), NEW t \in Timers
  PROVE  LET d == UpdatePrecedingTimer(c, t)
         IN  /\ Relinked(c, d) /\ Shaped(d) /\ Mutual(d)
             /\ \A x \in Timers : d.fol[x] = PrecededAfter(c, t, x)
<1>. DEFINE d == UpdatePrecedingTimer(c, t)
            u == LastBefore(c, t)
<1>0. c \in Chart /\ u \in TimerOrNone
  BY LastBeforeIs DEF Shaped
<1>1. Relinked(c, d) /\ Mutual(d) /\ \A x \in Timers : d.fol[x] = PrecededAfter(c, t, x)
  <2>1. CASE c.inst[t] = NoInstance
    BY <1>0, <2>1 DEF UpdatePrecedingTimer, PrecededAfter, Relinked
  <2>2. CASE c.inst[t] # NoInstance /\ u = NoTimer
    <3>1. d = SetPrecedingTimer(c, t, NoTimer)
      BY <2>2 DEF UpdatePrecedingTimer
    <3>. HIDE DEF d
    <3>2. Relinked(c, d) /\ Mutual(d) /\ \A x \in Timers : d.fol[x] = IF c.fol[x] = t THEN NoTimer ELSE c.fol[x]
      BY <1>0, <3>1, CutPreceding
    <3>. QED  BY <2>2, <3>2 DEF PrecededAfter
  <2>3. CASE c.inst[t] # NoInstance /\ u # NoTimer
    <3>1. d = JoinBack(c, u, t) /\ u \in Timers
      BY <1>0, <2>3 DEF UpdatePrecedingTimer, TimerOrNone
    <3>. HIDE DEF d, u
    <3>2. Relinked(c, d) /\ Mutual(d) /\ \A x \in Timers : d.fol[x] = Joined(c, u, t, x)
      BY <1>0, <3>1, JoinBackIs
    <3>. QED  BY <2>3, <3>2 DEF PrecededAfter, u
  <2>. QED  BY <2>1, <2>2, <2>3
<1>. HIDE DEF d
<1>2. Shaped(d)
  BY <1>1 DEF Shaped, Relinked
<1>. QED  BY <1>1, <1>2 DEF d

\* A pair that is made is right.
LEMMA FollowerIsPair ==
  ASSUME NEW c, Shaped(c), NEW t \in Timers, NEW u \in Timers, Follows(c, t, u), Allowed(c, t, u)
  PROVE  PairOk(c, t, u)
BY DEF PairOk, Follows, Allowed

LEMMA RelinkedPairs ==
  ASSUME NEW c, NEW d, Relinked(c, d), NEW t, NEW u
  PROVE  PairOk(c, t, u) <=> PairOk(d, t, u)
BY DEF Relinked, PairOk

\* So updates keep the pairs right, whichever apart.
LEMMA UpdatesKeepPairs ==
  ASSUME NEW c, NEW t, GoodBut(c, t), NEW p \in Timers
  PROVE  GoodBut(UpdateFollowingTimer(c, p), t) /\ GoodBut(UpdatePrecedingTimer(c, p), t)
<1>0. Shaped(c) /\ Mutual(c) /\ NoTimer \notin Timers /\ TimerOrNone = Timers \cup {NoTimer}
  BY TimersAssumption DEF GoodBut, TimerOrNone
<1>1. GoodBut(UpdateFollowingTimer(c, p), t)
  <2>. DEFINE d == UpdateFollowingTimer(c, p)
              u == FirstAfter(c, p)
  <2>1. Relinked(c, d) /\ Shaped(d) /\ Mutual(d) /\ \A x \in Timers : d.fol[x] = FollowedAfter(c, p, x)
    BY <1>0, UpdateFollowingIs
  <2>2. u # NoTimer => u \in Timers /\ Follows(c, p, u)
    BY <1>0, FirstAfterIs
  <2>. HIDE DEF d
  <2>3. ASSUME NEW x \in Timers, d.fol[x] # NoTimer
        PROVE  PairOk(d, x, d.fol[x]) \/ t \in {x, d.fol[x]}
    <3>1. CASE d.fol[x] = c.fol[x]
      BY <2>1, <2>3, <3>1, RelinkedPairs DEF GoodBut
    <3>2. CASE d.fol[x] # c.fol[x]
      <4>1. x = p /\ u # NoTimer /\ Allowed(c, p, u) /\ d.fol[x] = u
        BY <2>1, <2>3, <3>2 DEF FollowedAfter, Joined
      <4>. QED  BY <1>0, <2>1, <2>2, <4>1, FollowerIsPair, RelinkedPairs
    <3>. QED  BY <3>1, <3>2
  <2>. QED  BY <2>1, <2>3 DEF GoodBut, d
<1>2. GoodBut(UpdatePrecedingTimer(c, p), t)
  <2>. DEFINE d == UpdatePrecedingTimer(c, p)
              u == LastBefore(c, p)
  <2>1. Relinked(c, d) /\ Shaped(d) /\ Mutual(d) /\ \A x \in Timers : d.fol[x] = PrecededAfter(c, p, x)
    BY <1>0, UpdatePrecedingIs
  <2>2. u # NoTimer => u \in Timers /\ Follows(c, u, p)
    BY <1>0, LastBeforeIs
  <2>. HIDE DEF d
  <2>3. ASSUME NEW x \in Timers, d.fol[x] # NoTimer
        PROVE  PairOk(d, x, d.fol[x]) \/ t \in {x, d.fol[x]}
    <3>1. CASE d.fol[x] = c.fol[x]
      BY <2>1, <2>3, <3>1, RelinkedPairs DEF GoodBut
    <3>2. CASE d.fol[x] # c.fol[x]
      <4>1. u # NoTimer /\ x = u /\ Allowed(c, u, p) /\ d.fol[x] = p
        BY <2>1, <2>3, <3>2 DEF PrecededAfter, Joined
      <4>. QED  BY <1>0, <2>1, <2>2, <4>1, FollowerIsPair, RelinkedPairs
    <3>. QED  BY <3>1, <3>2
  <2>. QED  BY <2>1, <2>3 DEF GoodBut, d
<1>. QED  BY <1>1, <1>2

LEMMA GoodIs ==
  ASSUME NEW c, c \in Chart
  PROVE  Good(c) <=> GoodBut(c, NoTimer)
<1>1. NoTimer \notin Timers
  BY TimersAssumption
<1>. QED  BY <1>1 DEF Good, GoodBut

LEMMA RelinkedTwice ==
  ASSUME NEW a, NEW b, NEW c, Relinked(a, b), Relinked(b, c)
  PROVE  Relinked(a, c)
BY DEF Relinked

\* A reset of t makes its own pairs right.
LEMMA ResetGood ==
  ASSUME NEW c, NEW t \in Timers, GoodBut(c, t)
  PROVE  Relinked(c, ResetTimerRelations(c, t)) /\ Good(ResetTimerRelations(c, t))
<1>. DEFINE p  == c.pre[t]
            f  == c.fol[t]
            c1 == IF p = NoTimer THEN c ELSE UpdateFollowingTimer(c, p)
            c2 == IF f = NoTimer THEN c1 ELSE UpdatePrecedingTimer(c1, f)
            c3 == SetFollowingTimer(c2, t, NoTimer)
            c4 == SetPrecedingTimer(c3, t, NoTimer)
            c5 == UpdateFollowingTimer(c4, t)
            c6 == UpdatePrecedingTimer(c5, t)
            d  == ResetTimerRelations(c, t)
<1>0. d = IF t \notin Range(Lifeline(c4, t)) THEN c4 ELSE c6
  BY Zenon DEF ResetTimerRelations
<1>1. Shaped(c) /\ Mutual(c) /\ c \in Chart /\ p \in TimerOrNone /\ f \in TimerOrNone
  BY DEF GoodBut, Shaped, Chart
<1>. HIDE DEF p, f, d
<1>2. GoodBut(c1, t) /\ Relinked(c, c1)
  BY <1>1, UpdatesKeepPairs, UpdateFollowingIs DEF TimerOrNone, Relinked
<1>. HIDE DEF c1
<1>3. Shaped(c1) /\ Mutual(c1) /\ c1 \in Chart
  BY <1>2 DEF GoodBut, Shaped
<1>4. GoodBut(c2, t) /\ Relinked(c1, c2)
  BY <1>1, <1>2, <1>3, UpdatesKeepPairs, UpdatePrecedingIs DEF TimerOrNone, Relinked
<1>. HIDE DEF c2
<1>5. Shaped(c2) /\ Mutual(c2) /\ c2 \in Chart
  BY <1>4 DEF GoodBut, Shaped
<1>6. Relinked(c2, c3) /\ Mutual(c3) /\ \A x \in Timers : c3.fol[x] = IF x = t THEN NoTimer ELSE c2.fol[x]
  BY <1>5, CutFollowing
<1>. HIDE DEF c3
<1>7. Relinked(c3, c4) /\ Mutual(c4) /\ \A x \in Timers : c4.fol[x] = IF c3.fol[x] = t THEN NoTimer ELSE c3.fol[x]
  BY <1>6, CutPreceding DEF Relinked
<1>. HIDE DEF c4
<1>8. Relinked(c2, c4) /\ Shaped(c4)
  BY <1>5, <1>6, <1>7 DEF Shaped, Relinked
<1>9. GoodBut(c4, NoTimer)
  <2>1. ASSUME NEW x \in Timers, c4.fol[x] # NoTimer  PROVE PairOk(c4, x, c4.fol[x])
    <3>1. x # t /\ c4.fol[x] = c2.fol[x] /\ c2.fol[x] # t
      BY <1>6, <1>7, <2>1
    <3>2. PairOk(c2, x, c2.fol[x])
      BY <1>4, <2>1, <3>1 DEF GoodBut
    <3>. QED  BY <1>8, <3>1, <3>2, RelinkedPairs
  <2>. QED  BY <1>7, <1>8, <2>1 DEF GoodBut
<1>10. GoodBut(c5, NoTimer) /\ Relinked(c4, c5)
  BY <1>7, <1>8, <1>9, UpdatesKeepPairs, UpdateFollowingIs
<1>. HIDE DEF c5
<1>11. GoodBut(c6, NoTimer) /\ Relinked(c5, c6)
  <2>1. Shaped(c5) /\ Mutual(c5)
    BY <1>10 DEF GoodBut
  <2>. QED  BY <1>10, <2>1, UpdatesKeepPairs, UpdatePrecedingIs
<1>. HIDE DEF c6
<1>12. c4 \in Chart /\ c6 \in Chart /\ Relinked(c, c4) /\ Relinked(c, c6)
  BY <1>2, <1>4, <1>8, <1>10, <1>11 DEF Relinked
<1>13. Good(d) /\ Relinked(c, d)
  BY <1>0, <1>9, <1>11, <1>12, GoodIs
<1>. QED  BY <1>13 DEF d
-------------------------------------------------------------------------------
(* A timer changes its place.                                                   *)

\* d is c with t on another lifeline, at another place or on none.
Relisted(c, d, t) ==
  /\ Shaped(d)
  /\ d.fol = c.fol /\ d.pre = c.pre /\ d.name = c.name
  /\ \A x \in Timers \ {t} : d.inst[x] = c.inst[x]
  /\ \A x \in Timers \ {t}, i \in Instances : x \in Range(d.lists[i]) <=> x \in Range(c.lists[i])
  /\ \A x, y \in Timers \ {t}, i \in Instances :
       Precedes(d.lists[i], x, y) <=> Precedes(c.lists[i], x, y)

LEMMA RelistedPairs ==
  ASSUME NEW c, NEW d, NEW t, GoodBut(c, t), Relisted(c, d, t)
  PROVE  GoodBut(d, t)
<1>1. c \in Chart /\ NoTimer \notin Timers
  BY TimersAssumption DEF GoodBut, Shaped
<1>2. ASSUME NEW x \in Timers \ {t}, c.fol[x] \notin {t, NoTimer}
      PROVE  PairOk(d, x, c.fol[x])
  <2>1. c.fol[x] \in Timers \ {t} /\ PairOk(c, x, c.fol[x])
    BY <1>1, <1>2 DEF GoodBut, Chart, TimerOrNone
  <2>2. c.inst[x] \in Instances
    BY <1>1, <2>1 DEF PairOk, Chart
  <2>. QED  BY <2>1, <2>2 DEF Relisted, PairOk
<1>. QED  BY <1>1, <1>2 DEF GoodBut, Relisted, Mutual

LEMMA RelistedTwice ==
  ASSUME NEW a, NEW b, NEW c, NEW t, Relisted(a, b, t), Relisted(b, c, t)
  PROVE  Relisted(a, c, t)
BY DEF Relisted

LEMMA GoodButAny ==
  ASSUME NEW c, NEW t, Good(c)
  PROVE  GoodBut(c, t)
BY DEF Good, GoodBut
-------------------------------------------------------------------------------
(* The next timer.                                                              *)

\* The links of a chart in which all timers that were placed are listed.
Nearest(c) ==
  \A x \in Timers : c.fol[x] = IF x \in Starts THEN FirstAfter(c, x) ELSE NoTimer

LEMMA NextAndPrevious ==
  ASSUME NEW c, Shaped(c), NEW x \in Timers, NEW y \in Timers
  PROVE  FirstAfter(c, x) = y <=> LastBefore(c, y) = x
<1>0. NoTimer \notin Timers /\ TimerOrNone = Timers \cup {NoTimer}
  BY TimersAssumption DEF TimerOrNone
<1>1. ASSUME FirstAfter(c, x) = y  PROVE LastBefore(c, y) = x
  <2>1. Follows(c, x, y) /\ \A z \in Timers : Follows(c, x, z) => z = y \/ Follows(c, y, z)
    BY <1>0, <1>1, FirstAfterIs
  <2>. DEFINE w == LastBefore(c, y)
  <2>2. w \in Timers /\ Follows(c, w, y) /\ (x = w \/ Follows(c, x, w))
    BY <1>0, <2>1, LastBeforeIs
  <2>. HIDE DEF w
  <2>3. ~Follows(c, x, w)
    BY <2>1, <2>2, FollowsIsOrder
  <2>. QED  BY <2>2, <2>3 DEF w
<1>2. ASSUME LastBefore(c, y) = x  PROVE FirstAfter(c, x) = y
  <2>1. Follows(c, x, y) /\ \A z \in Timers : Follows(c, z, y) => z = x \/ Follows(c, z, x)
    BY <1>0, <1>2, LastBeforeIs
  <2>. DEFINE w == FirstAfter(c, x)
  <2>2. w \in Timers /\ Follows(c, x, w) /\ (y = w \/ Follows(c, w, y))
    BY <1>0, <2>1, FirstAfterIs
  <2>. HIDE DEF w
  <2>3. ~Follows(c, w, y)
    BY <2>1, <2>2, FollowsIsOrder
  <2>. QED  BY <2>2, <2>3 DEF w
<1>. QED  BY <1>1, <1>2

\* Only the lists, the instances and the names matter to what is next.
LEMMA SameNext ==
  ASSUME NEW c, NEW d, Relinked(c, d), NEW x
  PROVE  FirstAfter(d, x) = FirstAfter(c, x) /\ LastBefore(d, x) = LastBefore(c, x)
BY DEF Relinked, FirstAfter, LastBefore, Later, Earlier, Lifeline, FullName

\* What follows x next when t is passed over.
NextBut(c, t, x) ==
  IF FirstAfter(c, x) = t THEN FirstAfter(c, t) ELSE FirstAfter(c, x)

LEMMA NextButIs ==
  ASSUME NEW c, Shaped(c), NEW t \in Timers, NEW x \in Timers \ {t}
  PROVE  LET w == NextBut(c, t, x)
         IN  /\ w \in (Timers \ {t}) \cup {NoTimer}
             /\ w = NoTimer => \A y \in Timers \ {t} : ~Follows(c, x, y)
             /\ w # NoTimer => /\ Follows(c, x, w)
                               /\ \A y \in Timers \ {t} : Follows(c, x, y) => y = w \/ Follows(c, w, y)
<1>. DEFINE u == FirstAfter(c, x)
            v == FirstAfter(c, t)
<1>0. NoTimer \notin Timers /\ TimerOrNone = Timers \cup {NoTimer}
  BY TimersAssumption DEF TimerOrNone
<1>1. /\ u \in TimerOrNone
      /\ u = NoTimer => \A y \in Timers : ~Follows(c, x, y)
      /\ u # NoTimer => Follows(c, x, u) /\ \A y \in Timers : Follows(c, x, y) => y = u \/ Follows(c, u, y)
  BY FirstAfterIs
<1>2. /\ v \in TimerOrNone
      /\ v = NoTimer => \A y \in Timers : ~Follows(c, t, y)
      /\ v # NoTimer => Follows(c, t, v) /\ \A y \in Timers : Follows(c, t, y) => y = v \/ Follows(c, v, y)
  BY FirstAfterIs
<1>3. NextBut(c, t, x) = IF u = t THEN v ELSE u
  BY DEF NextBut
<1>. HIDE DEF u, v
<1>. QED  BY <1>0, <1>1, <1>2, <1>3, FollowsIsOrder

\* The timers that stay are next to each other as before, t passed over.
LEMMA NextButSame ==
  ASSUME NEW c, Shaped(c), NEW d, NEW t \in Timers, Relisted(c, d, t), NEW x \in Timers \ {t}
  PROVE  NextBut(d, t, x) = NextBut(c, t, x)
<1>0. Shaped(d) /\ NoTimer \notin Timers
  BY TimersAssumption DEF Relisted
<1>1. ASSUME NEW y \in Timers \ {t}, NEW z \in Timers \ {t}
      PROVE  Follows(d, y, z) <=> Follows(c, y, z)
  BY DEF Relisted, Follows, FullName, Shaped, Chart
<1>. DEFINE v == NextBut(c, t, x)
            w == NextBut(d, t, x)
<1>2. /\ v \in (Timers \ {t}) \cup {NoTimer}
      /\ v = NoTimer => \A y \in Timers \ {t} : ~Follows(c, x, y)
      /\ v # NoTimer => Follows(c, x, v) /\ \A y \in Timers \ {t} : Follows(c, x, y) => y = v \/ Follows(c, v, y)
  BY NextButIs
<1>3. /\ w \in (Timers \ {t}) \cup {NoTimer}
      /\ w = NoTimer => \A y \in Timers \ {t} : ~Follows(d, x, y)
      /\ w # NoTimer => Follows(d, x, w) /\ \A y \in Timers \ {t} : Follows(d, x, y) => y = w \/ Follows(d, w, y)
  BY <1>0, NextButIs
<1>. HIDE DEF v, w
<1>4. v = w
  BY <1>0, <1>1, <1>2, <1>3, FollowsIsOrder
<1>. QED  BY <1>4 DEF v, w

\* The chart c has t at its new place and its links are those of the old one, in
\* which t was between p and f; the reset makes all of them right.
Between(c, t, p, f) ==
  /\ \A x \in Timers \ {t} : c.fol[x] =
       IF x \notin Starts THEN NoTimer ELSE IF x = p THEN t ELSE NextBut(c, t, x)
  /\ c.fol[t] = IF t \in Starts THEN f ELSE NoTimer
  /\ p # NoTimer => p \in Timers \ {t} /\ NextBut(c, t, p) = f /\ c.inst[p] # NoInstance
  /\ f # NoTimer => /\ f \in Timers \ {t} /\ c.inst[f] # NoInstance
                    /\ \A x \in Timers \ {t} : NextBut(c, t, x) = f => x = p

LEMMA ResetNearest ==
  ASSUME NEW c, NEW t \in Timers, Shaped(c), Mutual(c), t \in Range(Lifeline(c, t)),
         NEW p, NEW f, Between(c, t, p, f)
  PROVE  Nearest(ResetTimerRelations(c, t))
<1>. DEFINE N(x) == FirstAfter(c, x)
            P(x) == LastBefore(c, x)
            W(x) == NextBut(c, t, x)
            Kept1(x) == IF x \notin Starts THEN NoTimer ELSE IF x = p /\ N(x) = t THEN t ELSE W(x)
            pp == c.pre[t]
            ff == c.fol[t]
            c1 == IF pp = NoTimer THEN c ELSE UpdateFollowingTimer(c, pp)
            c2 == IF ff = NoTimer THEN c1 ELSE UpdatePrecedingTimer(c1, ff)
            c3 == SetFollowingTimer(c2, t, NoTimer)
            c4 == SetPrecedingTimer(c3, t, NoTimer)
            c5 == UpdateFollowingTimer(c4, t)
            c6 == UpdatePrecedingTimer(c5, t)
            d  == ResetTimerRelations(c, t)
<1>1. d = IF t \notin Range(Lifeline(c4, t)) THEN c4 ELSE c6
  BY Zenon DEF ResetTimerRelations
<1>2. NoTimer \notin Timers /\ TimerOrNone = Timers \cup {NoTimer} /\ c \in Chart
  BY TimersAssumption DEF TimerOrNone, Shaped
<1>3. \A x \in Timers : N(x) \in TimerOrNone /\ P(x) \in TimerOrNone
  BY FirstAfterIs, LastBeforeIs
<1>4. \A x, y \in Timers : N(x) = y <=> P(y) = x
  BY NextAndPrevious
<1>5. \A x, y \in Timers : N(x) = y =>
        x # y /\ c.inst[x] # NoInstance /\ c.inst[y] # NoInstance /\ (Allowed(c, x, y) <=> x \in Starts)
  <2>1. \A x, y \in Timers : N(x) = y => Follows(c, x, y) /\ x # y
    BY <1>2, FirstAfterIs, FollowsIsOrder
  <2>. HIDE DEF N
  <2>. QED  BY <2>1 DEF Follows, Allowed, FullName
<1>6. \A x \in Timers : W(x) = IF N(x) = t THEN N(t) ELSE N(x)
  BY DEF NextBut
<1>7. c.inst[t] # NoInstance
  <2>1. Range(<< >>) = {}
    BY DEF Range
  <2>. QED  BY <2>1 DEF Lifeline
<1>8. /\ \A x \in Timers \ {t} : c.fol[x] =
           IF x \notin Starts THEN NoTimer ELSE IF x = p THEN t ELSE W(x)
      /\ ff = IF t \in Starts THEN f ELSE NoTimer
      /\ p # NoTimer => p \in Timers \ {t} /\ W(p) = f /\ c.inst[p] # NoInstance
      /\ f # NoTimer => f \in Timers \ {t} /\ c.inst[f] # NoInstance
                        /\ \A x \in Timers \ {t} : W(x) = f => x = p
  BY DEF Between
<1>9. pp = IF p \in Starts THEN p ELSE NoTimer
  <2>1. \A x \in Timers \ {t} : c.fol[x] = t => x = p /\ p \in Starts
    BY <1>2, <1>5, <1>6, <1>8
  <2>2. p \in Starts => p \in Timers \ {t} /\ c.fol[p] = t
    BY <1>2, <1>8, TimersAssumption
  <2>3. c.fol[t] # t
    BY <1>2, <1>8
  <2>4. pp \in TimerOrNone
    BY DEF Shaped, Chart
  <2>. QED  BY <1>2, <2>1, <2>2, <2>3, <2>4 DEF Mutual
<1>. HIDE DEF N, P, W, pp, ff, d
\* What preceded t finds its next.
<1>10. /\ Relinked(c, c1) /\ Shaped(c1) /\ Mutual(c1)
       /\ \A x \in Timers \ {t} : c1.fol[x] = Kept1(x)
  <2>1. CASE pp = NoTimer
    <3>1. c1 = c /\ p \notin Starts
      BY <1>2, <1>8, <1>9, <2>1, TimersAssumption
    <3>. HIDE DEF c1
    <3>. QED  BY <1>2, <1>8, <3>1 DEF Relinked
  <2>2. CASE pp # NoTimer
    <3>1. pp = p /\ p \in Starts /\ p \in Timers \ {t} /\ c1 = UpdateFollowingTimer(c, p) /\ c.fol[p] = t
      BY <1>2, <1>8, <1>9, <2>2
    <3>. HIDE DEF c1
    <3>2. Relinked(c, c1) /\ Shaped(c1) /\ Mutual(c1) /\ \A x \in Timers : c1.fol[x] = FollowedAfter(c, p, x)
      BY <3>1, UpdateFollowingIs
    <3>3. \A x \in Timers : c1.fol[x] = IF N(p) = NoTimer THEN IF x = p THEN NoTimer ELSE c.fol[x]
                                       ELSE Joined(c, p, N(p), x)
      <4>1. FirstAfter(c, p) = N(p) /\ c.inst[p] # NoInstance
        BY <1>2, <1>8, <3>1 DEF N
      <4>. QED  BY <3>2, <4>1, Zenon DEF FollowedAfter
    <3>4. \A x \in Timers \ {t} : c1.fol[x] = Kept1(x)
      <4>1. CASE N(p) = NoTimer
        BY <1>2, <1>6, <1>8, <3>1, <3>3, <4>1
      <4>2. CASE N(p) = t
        BY <1>2, <1>8, <3>1, <3>3, <4>2 DEF Joined
      <4>3. CASE N(p) \notin {t, NoTimer}
        <5>1. N(p) \in Timers /\ N(p) = W(p) /\ W(p) = f /\ Allowed(c, p, N(p)) /\ c.fol[p] # N(p)
          BY <1>2, <1>3, <1>5, <1>6, <1>8, <3>1, <4>3
        <5>2. \A x \in Timers \ {t, p} : c.fol[x] # N(p)
          BY <1>2, <1>8, <5>1
        <5>. QED  BY <1>2, <1>8, <3>1, <3>3, <4>3, <5>1, <5>2 DEF Joined
      <4>. QED  BY <4>1, <4>2, <4>3
    <3>. QED  BY <3>2, <3>4
  <2>. QED  BY <2>1, <2>2
<1>. HIDE DEF c1
\* So does what followed it.
<1>11. /\ Relinked(c1, c2) /\ Shaped(c2) /\ Mutual(c2)
       /\ \A x \in Timers \ {t} : c2.fol[x] = Kept1(x)
  <2>1. CASE ff = NoTimer
    BY <1>10, <2>1 DEF Relinked
  <2>2. CASE ff # NoTimer
    <3>1. ff = f /\ t \in Starts /\ f \in Timers \ {t} /\ c2 = UpdatePrecedingTimer(c1, f)
      BY <1>8, <2>2
    <3>. HIDE DEF c2
    <3>2. Relinked(c1, c2) /\ Shaped(c2) /\ Mutual(c2) /\ \A x \in Timers : c2.fol[x] = PrecededAfter(c1, f, x)
      BY <1>10, <3>1, UpdatePrecedingIs
    <3>3. LastBefore(c1, f) = P(f) /\ c1.inst[f] # NoInstance
      <4>1. LastBefore(c1, f) = P(f)
        BY <1>10, SameNext DEF P
      <4>2. c1.inst = c.inst /\ f # NoTimer
        BY <1>2, <1>10, <3>1 DEF Relinked
      <4>. QED  BY <1>8, <4>1, <4>2
    <3>4. \A x \in Timers : c2.fol[x] = IF P(f) = NoTimer THEN IF c1.fol[x] = f THEN NoTimer ELSE c1.fol[x]
                                       ELSE Joined(c1, P(f), f, x)
      BY <3>2, <3>3 DEF PrecededAfter
    <3>5. \A x \in Timers \ {t} : c1.fol[x] = f => x = p /\ p \in Starts /\ N(p) = f
      BY <1>2, <1>6, <1>8, <1>10, <3>1
    <3>6. \A x \in Timers \ {t} : c2.fol[x] = c1.fol[x]
      <4>1. CASE P(f) = NoTimer
        <5>1. \A x \in Timers \ {t} : c1.fol[x] # f
          BY <1>2, <1>4, <3>1, <3>5, <4>1
        <5>. QED  BY <3>4, <4>1, <5>1
      <4>2. CASE P(f) # NoTimer /\ c1.fol[P(f)] = f
        BY <3>4, <4>2 DEF Joined
      <4>3. CASE P(f) # NoTimer /\ c1.fol[P(f)] # f
        <5>1. P(f) \in Timers /\ N(P(f)) = f
          BY <1>2, <1>3, <1>4, <3>1, <4>3
        <5>2. CASE P(f) = t
          <6>1. \A x \in Timers \ {t} : c1.fol[x] # f
            BY <1>4, <3>1, <3>5, <5>1, <5>2
          <6>. QED  BY <3>4, <4>3, <5>2, <6>1 DEF Joined
        <5>3. CASE P(f) # t
          <6>1. W(P(f)) = f /\ P(f) = p
            BY <1>2, <1>6, <1>8, <3>1, <5>1, <5>3
          <6>2. p \notin Starts
            BY <1>2, <1>6, <1>10, <3>1, <4>3, <5>1, <5>3, <6>1
          <6>3. c1.fol[p] = NoTimer /\ ~Allowed(c1, p, f)
            BY <1>10, <5>1, <5>3, <6>1, <6>2 DEF Allowed
          <6>4. \A x \in Timers \ {t} : c1.fol[x] # f
            BY <3>5, <6>2
          <6>. QED  BY <3>4, <4>3, <6>1, <6>3, <6>4 DEF Joined
        <5>. QED  BY <5>2, <5>3
      <4>. QED  BY <4>1, <4>2, <4>3
    <3>. QED  BY <1>10, <3>2, <3>6
  <2>. QED  BY <2>1, <2>2
<1>. HIDE DEF c2
\* t has no links.
<1>12. Relinked(c2, c3) /\ Mutual(c3) /\ \A x \in Timers : c3.fol[x] = IF x = t THEN NoTimer ELSE c2.fol[x]
  BY <1>11, CutFollowing DEF Shaped
<1>. HIDE DEF c3
<1>13. Relinked(c3, c4) /\ Mutual(c4) /\ \A x \in Timers : c4.fol[x] = IF c3.fol[x] = t THEN NoTimer ELSE c3.fol[x]
  BY <1>12, CutPreceding DEF Relinked
<1>. HIDE DEF c4
<1>14. Relinked(c, c4) /\ Shaped(c4)
  BY <1>10, <1>11, <1>12, <1>13 DEF Relinked, Shaped
<1>15. c4.fol[t] = NoTimer
  BY <1>2, <1>12, <1>13
<1>16. ASSUME NEW x \in Timers \ {t}
       PROVE  /\ x \notin Starts => c4.fol[x] = NoTimer
              /\ x \in Starts /\ N(x) # t => c4.fol[x] = N(x)
              /\ N(x) = t => c4.fol[x] \in {NoTimer, N(t)}
  <2>1. c4.fol[x] = IF Kept1(x) = t THEN NoTimer ELSE Kept1(x)
    BY <1>11, <1>12, <1>13
  <2>. QED  BY <1>2, <1>6, <2>1
\* t and its next.
<1>17. /\ Relinked(c4, c5) /\ Shaped(c5) /\ Mutual(c5)
       /\ \A x \in Timers : c5.fol[x] = IF N(t) = NoTimer THEN IF x = t THEN NoTimer ELSE c4.fol[x]
                                       ELSE Joined(c4, t, N(t), x)
  <2>1. Relinked(c4, c5) /\ Shaped(c5) /\ Mutual(c5) /\ \A x \in Timers : c5.fol[x] = FollowedAfter(c4, t, x)
    BY <1>13, <1>14, UpdateFollowingIs
  <2>2. FirstAfter(c4, t) = N(t) /\ c4.inst[t] # NoInstance
    BY <1>7, <1>14, SameNext DEF N, Relinked
  <2>. QED  BY <2>1, <2>2 DEF FollowedAfter
<1>. HIDE DEF c5
<1>18. /\ c5.fol[t] = IF t \in Starts THEN N(t) ELSE NoTimer
       /\ \A x \in Timers \ {t} : c5.fol[x] =
            IF N(x) = t THEN NoTimer ELSE IF x \in Starts THEN N(x) ELSE NoTimer
  <2>1. CASE N(t) = NoTimer
    BY <1>15, <1>16, <1>17, <2>1
  <2>2. CASE N(t) # NoTimer
    <3>1. N(t) \in Timers /\ (Allowed(c4, t, N(t)) <=> t \in Starts) /\ c4.fol[t] # N(t)
      BY <1>2, <1>3, <1>5, <1>14, <1>15, <2>2 DEF Relinked, Allowed
    <3>2. \A x \in Timers \ {t} : N(x) # N(t)
      BY <1>4, <3>1
    <3>. QED  BY <1>2, <1>16, <1>17, <2>2, <3>1, <3>2 DEF Joined
  <2>. QED  BY <2>1, <2>2
\* t and its previous.
<1>19. /\ Relinked(c5, c6)
       /\ \A x \in Timers : c6.fol[x] = IF P(t) = NoTimer THEN IF c5.fol[x] = t THEN NoTimer ELSE c5.fol[x]
                                       ELSE Joined(c5, P(t), t, x)
  <2>1. Relinked(c5, c6) /\ \A x \in Timers : c6.fol[x] = PrecededAfter(c5, t, x)
    BY <1>17, UpdatePrecedingIs
  <2>2. LastBefore(c5, t) = P(t) /\ c5.inst[t] # NoInstance
    <3>1. Relinked(c, c5)
      BY <1>14, <1>17, RelinkedTwice
    <3>. QED  BY <1>7, <3>1, SameNext DEF P, Relinked
  <2>. QED  BY <2>1, <2>2 DEF PrecededAfter
<1>. HIDE DEF c6
<1>20. \A x \in Timers : c5.fol[x] # t
  BY <1>2, <1>5, <1>18
<1>21. \A x \in Timers : c6.fol[x] = IF x \in Starts THEN N(x) ELSE NoTimer
  <2>1. CASE P(t) = NoTimer
    <3>1. \A x \in Timers : N(x) # t
      BY <1>2, <1>4, <2>1
    <3>. QED  BY <1>18, <1>19, <1>20, <2>1, <3>1
  <2>2. CASE P(t) # NoTimer
    <3>1. P(t) \in Timers /\ N(P(t)) = t /\ P(t) # t /\ \A x \in Timers : N(x) = t => x = P(t)
      BY <1>2, <1>3, <1>4, <1>5, <2>2
    <3>2. Allowed(c5, P(t), t) <=> P(t) \in Starts
      BY <1>5, <1>14, <1>17, <3>1 DEF Relinked, Allowed
    <3>. QED  BY <1>18, <1>19, <1>20, <2>2, <3>1, <3>2 DEF Joined
  <2>. QED  BY <2>1, <2>2
<1>22. d = c6
  BY <1>1, <1>14 DEF Relinked, Lifeline
<1>23. Relinked(c, c6)
  BY <1>14, <1>17, <1>19, RelinkedTwice
<1>24. \A x \in Timers : FirstAfter(c6, x) = N(x)
  BY <1>23, SameNext DEF N
<1>. QED  BY <1>21, <1>22, <1>24 DEF Nearest, d

\* So it does when t is moved from one place, or none, to another.
LEMMA RelistedNearest ==
  ASSUME NEW b, Shaped(b), Mutual(b), Nearest(b), NEW t \in Timers, NEW c, Relisted(b, c, t),
         t \in Range(Lifeline(c, t))
  PROVE  Nearest(ResetTimerRelations(c, t))
<1>. DEFINE p == LastBefore(b, t)
            f == FirstAfter(b, t)
<1>0. NoTimer \notin Timers /\ TimerOrNone = Timers \cup {NoTimer}
  BY TimersAssumption DEF TimerOrNone
<1>1. p \in TimerOrNone /\ f \in TimerOrNone /\ \A x \in Timers : FirstAfter(b, x) \in TimerOrNone
  BY FirstAfterIs, LastBeforeIs
<1>2. \A x, y \in Timers : FirstAfter(b, x) = y <=> LastBefore(b, y) = x
  BY NextAndPrevious
<1>3. \A x, y \in Timers : FirstAfter(b, x) = y => x # y /\ b.inst[x] # NoInstance /\ b.inst[y] # NoInstance
  <2>1. \A x, y \in Timers : FirstAfter(b, x) = y => Follows(b, x, y) /\ x # y
    BY <1>0, FirstAfterIs, FollowsIsOrder
  <2>. QED  BY <2>1 DEF Follows
<1>4. \A x \in Timers \ {t} : NextBut(c, t, x) = IF FirstAfter(b, x) = t THEN f ELSE FirstAfter(b, x)
  BY NextButSame DEF NextBut
<1>5. c.fol = b.fol /\ \A x \in Timers \ {t} : c.inst[x] = b.inst[x]
  BY DEF Relisted
<1>6. /\ \A x \in Timers \ {t} : c.fol[x] = IF x \in Starts THEN FirstAfter(b, x) ELSE NoTimer
      /\ c.fol[t] = IF t \in Starts THEN f ELSE NoTimer
  BY <1>5 DEF Nearest
<1>7. \A x \in Timers : FirstAfter(b, x) = t <=> p = x
  BY <1>2
<1>. HIDE DEF p, f
<1>8. \A x \in Timers \ {t} : c.fol[x] =
        IF x \notin Starts THEN NoTimer ELSE IF x = p THEN t ELSE NextBut(c, t, x)
  BY <1>4, <1>6, <1>7
<1>9. p # NoTimer => p \in Timers \ {t} /\ NextBut(c, t, p) = f /\ c.inst[p] # NoInstance
  BY <1>0, <1>1, <1>3, <1>4, <1>5, <1>7
<1>10. f # NoTimer => /\ f \in Timers \ {t} /\ c.inst[f] # NoInstance
                      /\ \A x \in Timers \ {t} : NextBut(c, t, x) = f => x = p
  BY <1>0, <1>1, <1>2, <1>3, <1>4, <1>5, <1>7 DEF f
<1>11. Between(c, t, p, f)
  BY <1>6, <1>8, <1>9, <1>10 DEF Between
<1>12. Shaped(c) /\ Mutual(c)
  BY DEF Relisted, Mutual
<1>. QED  BY <1>11, <1>12, ResetNearest

\* From c to d only t changes its place, and if all links of c are to the next
\* timer, so are those of d.
KeepsNearest(c, d, t) ==
  /\ \A x \in Timers \ {t} : d.inst[x] = c.inst[x]
  /\ \A x \in Timers \ {t}, i \in Instances : x \in Range(d.lists[i]) <=> x \in Range(c.lists[i])
  /\ Nearest(c) => Nearest(d)

LEMMA KeepsNearestTwice ==
  ASSUME NEW a, NEW b, NEW c, NEW t, KeepsNearest(a, b, t), KeepsNearest(b, c, t)
  PROVE  KeepsNearest(a, c, t)
BY DEF KeepsNearest

LEMMA ResetKeepsNearest ==
  ASSUME NEW c, Good(c), NEW t \in Timers, NEW e, Relisted(c, e, t),
         t \in Range(Lifeline(e, t))
  PROVE  KeepsNearest(c, ResetTimerRelations(e, t), t)
<1>. DEFINE d == ResetTimerRelations(e, t)
<1>1. Relinked(e, d)
  BY GoodButAny, RelistedPairs, ResetGood
<1>2. Nearest(c) => Nearest(d)
  BY RelistedNearest DEF Good
<1>. HIDE DEF d
<1>3. KeepsNearest(c, d, t)
  BY <1>1, <1>2 DEF Relinked, Relisted, KeepsNearest
<1>. QED  BY <1>3 DEF d
-------------------------------------------------------------------------------
(* Changes of place.                                                            *)

LEMMA RemovedIs ==
  ASSUME NEW c, Shaped(c), NEW t \in Timers
  PROVE  LET d == RemoveInstanceEvent(c, t)
         IN  /\ Relisted(c, d, t)
             /\ d.inst = c.inst
             /\ \A i \in Instances : t \notin Range(d.lists[i])
<1>. DEFINE d == RemoveInstanceEvent(c, t)
<1>0. c \in Chart
  BY DEF Shaped
<1>1. /\ d.fol = c.fol /\ d.pre = c.pre /\ d.name = c.name /\ d.inst = c.inst
      /\ d.lists = [i \in Instances |-> RemoveAll(c.lists[i], t)]
      /\ \A L : d.lists = L /\ L \in [Instances -> Seq(Timers)] => d \in Chart
  BY <1>0 DEF RemoveInstanceEvent, Chart
<1>. HIDE DEF d
<1>2. ASSUME NEW i \in Instances
      PROVE  /\ d.lists[i] \in Seq(Timers) /\ NoRepeat(d.lists[i])
             /\ Range(d.lists[i]) = Range(c.lists[i]) \ {t}
  <2>1. c.lists[i] \in Seq(Timers) /\ NoRepeat(c.lists[i])
    BY DEF Shaped, Chart
  <2>2. d.lists[i] = KeepOnly(c.lists[i], Range(c.lists[i]) \ {t})
    BY <1>1 DEF RemoveAll
  <2>. QED  BY <2>1, <2>2, KeepOnlyProperties
<1>3. ASSUME NEW i \in Instances, NEW x \in Timers \ {t}, NEW y \in Timers \ {t}
      PROVE  Precedes(d.lists[i], x, y) <=> Precedes(c.lists[i], x, y)
  <2>1. c.lists[i] \in Seq(Timers) /\ NoRepeat(c.lists[i])
    BY DEF Shaped, Chart
  <2>2. d.lists[i] = KeepOnly(c.lists[i], Range(c.lists[i]) \ {t})
    BY <1>1 DEF RemoveAll
  <2>3. Precedes(c.lists[i], x, y) => x \in Range(c.lists[i]) /\ y \in Range(c.lists[i])
    BY <2>1, PrecedesIsOrder
  <2>. QED  BY <2>1, <2>2, <2>3, KeepOnlyOrder
<1>4. d \in Chart
  BY <1>1, <1>2
<1>5. Shaped(d)
  BY <1>1, <1>2, <1>4 DEF Shaped
<1>6. Relisted(c, d, t)
  BY <1>1, <1>2, <1>3, <1>5 DEF Relisted
<1>. QED  BY <1>1, <1>2, <1>6 DEF d

\* The pairs stay right when a timer is taken out and keeps its links.
LEMMA RemovedGood ==
  ASSUME NEW c, Good(c), NEW t \in Timers
  PROVE  Good(RemoveInstanceEvent(c, t))
<1>. DEFINE d == RemoveInstanceEvent(c, t)
<1>1. Relisted(c, d, t) /\ d.inst = c.inst /\ \A i \in Instances : t \notin Range(d.lists[i])
  BY RemovedIs DEF Good
<1>. HIDE DEF d
<1>2. ASSUME NEW x \in Timers, c.fol[x] # NoTimer  PROVE PairOk(d, x, c.fol[x])
  <2>1. PairOk(c, x, c.fol[x]) /\ c.inst[x] \in Instances /\ c.fol[x] \in Timers
    BY <1>2 DEF Good, Shaped, Chart, TimerOrNone, PairOk
  <2>. QED  BY <1>1, <2>1 DEF PairOk, Relisted
<1>. QED  BY <1>1, <1>2 DEF Good, Relisted, Mutual, d

\* A timer that is on no lifeline is given one.
LEMMA Rehomed ==
  ASSUME NEW c, Shaped(c), NEW t \in Timers, NEW i \in Instances,
         \A j \in Instances : t \notin Range(c.lists[j])
  PROVE  LET d == [c EXCEPT !.inst[t] = i]
         IN  Relisted(c, d, t) /\ d.inst[t] = i /\ d.lists = c.lists
BY DEF Relisted, Shaped, Chart

LEMMA ListedIs ==
  ASSUME NEW c, Shaped(c), NEW t \in Timers, NEW i \in Instances, c.inst[t] = i,
         NEW line, line \in Seq(Timers), NoRepeat(line),
         Range(line) = Range(c.lists[i]) \cup {t},
         \A x, y \in Timers \ {t} : Precedes(line, x, y) <=> Precedes(c.lists[i], x, y)
  PROVE  LET d == [c EXCEPT !.lists[i] = line]
         IN  Relisted(c, d, t) /\ d.inst = c.inst /\ t \in Range(d.lists[i])
<1>. DEFINE d == [c EXCEPT !.lists[i] = line]
<1>0. c \in Chart
  BY DEF Shaped
<1>1. /\ d.fol = c.fol /\ d.pre = c.pre /\ d.name = c.name /\ d.inst = c.inst
      /\ d.lists = [c.lists EXCEPT ![i] = line]
      /\ d \in Chart
  BY <1>0 DEF Chart
<1>. HIDE DEF d
<1>2. \A j \in Instances : d.lists[j] = IF j = i THEN line ELSE c.lists[j]
  BY <1>0, <1>1 DEF Chart
<1>3. Shaped(d)
  BY <1>1, <1>2 DEF Shaped
<1>4. Relisted(c, d, t)
  BY <1>1, <1>2, <1>3 DEF Relisted
<1>. QED  BY <1>1, <1>2, <1>4 DEF d

\* addInstanceEvent and the reset that it ends with.
LEMMA AddGood ==
  ASSUME NEW c, NEW t \in Timers, GoodBut(c, t), NEW i \in Instances, c.inst[t] = i,
         \A j \in Instances : t \notin Range(c.lists[j]), NEW pos \in Int
  PROVE  LET b == [c EXCEPT !.lists[i] = InsertOrAppend(@, pos, t)]
             d == AddInstanceEvent(c, t, pos)
         IN  /\ Relisted(c, b, t) /\ b.inst = c.inst /\ t \in Range(b.lists[i])
             /\ d = ResetTimerRelations(b, t)
             /\ Relinked(b, d) /\ Good(d)
<1>. DEFINE line == InsertOrAppend(c.lists[i], pos, t)
            b == [c EXCEPT !.lists[i] = line]
<1>1. Shaped(c) /\ c \in Chart /\ c.lists[i] \in Seq(Timers) /\ NoRepeat(c.lists[i])
  BY DEF GoodBut, Shaped, Chart
<1>2. line \in Seq(Timers) /\ Range(line) = Range(c.lists[i]) \cup {t} /\ NoRepeat(line)
  BY <1>1, InsertedNew
<1>3. \A x, y \in Timers \ {t} : Precedes(line, x, y) <=> Precedes(c.lists[i], x, y)
  BY <1>1, InsertOrAppendOrder
<1>. HIDE DEF line
<1>4. Relisted(c, b, t) /\ b.inst = c.inst /\ t \in Range(b.lists[i])
  <2>1. Relisted(c, b, t)
    BY <1>1, <1>2, <1>3, ListedIs
  <2>2. b.inst = c.inst
    BY <1>1, <1>2, <1>3, ListedIs
  <2>3. t \in Range(b.lists[i])
    BY <1>1, <1>2, <1>3, ListedIs
  <2>. QED  BY <2>1, <2>2, <2>3
<1>. HIDE DEF b
<1>5. GoodBut(b, t)
  BY <1>4, RelistedPairs
<1>6. AddInstanceEvent(c, t, pos) = ResetTimerRelations(b, t)
  BY Zenon DEF AddInstanceEvent, b, line
<1>7. Relinked(b, ResetTimerRelations(b, t)) /\ Good(ResetTimerRelations(b, t))
  BY <1>5, ResetGood
<1>. QED  BY <1>4, <1>6, <1>7 DEF b, line

\* setInstance of a timer of the chart
LEMMA SetInstanceGood ==
  ASSUME NEW c, Good(c), NEW t \in Timers, NEW i \in Instances, c.inst[t] # NoInstance
  PROVE  LET d == SetEventInstance(c, t, i)
         IN  /\ Good(d) /\ d.inst[t] = i /\ KeepsNearest(c, d, t)
             /\ c.inst[t] # i => d.lists[i] = Append(RemoveAll(c.lists[i], t), t)
<1>1. CASE c.inst[t] = i
  BY <1>1 DEF SetEventInstance, KeepsNearest
<1>2. CASE c.inst[t] # i
  <2>. DEFINE a == RemoveInstanceEvent(c, t)
              b == [a EXCEPT !.inst[t] = i]
  <2>1. Relisted(c, a, t) /\ \A j \in Instances : t \notin Range(a.lists[j])
    BY RemovedIs DEF Good
  <2>. HIDE DEF a
  <2>2. Shaped(a)
    BY <2>1 DEF Relisted
  <2>3. Relisted(a, b, t) /\ b.inst[t] = i /\ b.lists = a.lists
    BY <2>1, <2>2, Rehomed
  <2>. HIDE DEF b
  <2>4. GoodBut(b, t)
    BY <2>1, <2>3, GoodButAny, RelistedPairs
  <2>5. SetEventInstance(c, t, i) = AddInstanceEvent(b, t, -1)
    BY <1>2, Zenon DEF SetEventInstance, a, b
  <2>. DEFINE d == AddInstanceEvent(b, t, -1)
              e == [b EXCEPT !.lists[i] = InsertOrAppend(@, -1, t)]
  <2>6. -1 \in Int
    OBVIOUS
  <2>7. e.inst = b.inst
    BY <2>1, <2>3, <2>4, <2>6, AddGood
  <2>11. KeepsNearest(c, d, t)
    <3>1. Relisted(b, e, t)
      BY <2>1, <2>3, <2>4, <2>6, AddGood
    <3>2. t \in Range(e.lists[i])
      BY <2>1, <2>3, <2>4, <2>6, AddGood
    <3>3. d = ResetTimerRelations(e, t)
      BY <2>1, <2>3, <2>4, <2>6, AddGood
    <3>. HIDE DEF d, e
    <3>4. Relisted(c, e, t)
      BY <2>1, <2>3, <3>1, RelistedTwice
    <3>5. Lifeline(e, t) = e.lists[i]
      BY <2>3, <2>7, TimersAssumption DEF Lifeline
    <3>. QED  BY <3>2, <3>3, <3>4, <3>5, ResetKeepsNearest
  <2>8. Relinked(e, d) /\ Good(d)
    BY <2>1, <2>3, <2>4, <2>6, AddGood
  <2>9. Good(d) /\ d.inst[t] = i
    BY <2>3, <2>7, <2>8 DEF Relinked
  <2>10. d.lists[i] = Append(RemoveAll(c.lists[i], t), t)
    <3>1. a.lists[i] = RemoveAll(c.lists[i], t)
      BY DEF a, RemoveInstanceEvent, Good, Shaped, Chart
    <3>2. InsertOrAppend(b.lists[i], -1, t) = Append(b.lists[i], t)
      BY DEF InsertOrAppend
    <3>3. e.lists[i] = InsertOrAppend(b.lists[i], -1, t)
      BY <2>4 DEF GoodBut, Shaped, Chart
    <3>. HIDE DEF e
    <3>. QED  BY <2>3, <2>8, <3>1, <3>2, <3>3 DEF Relinked
  <2>. QED  BY <2>5, <2>9, <2>10, <2>11
<1>. QED  BY <1>1, <1>2

\* updateTimerPos puts the timer at a position the lifeline has.
LEMMA MoveGood ==
  ASSUME NEW c, Good(c), NEW t \in InChart(c), NEW i \in Instances,
         NEW pos \in Nat, pos <= Len(RemoveAll(c.lists[i], t))
  PROVE  LET d == UpdateTimerPos(c, t, i, pos)
         IN  Good(d) /\ KeepsNearest(c, d, t)
<1>. DEFINE c1   == SetEventInstance(c, t, i)
            line == InsertAtPos(RemoveAll(c1.lists[i], t), pos, t)
            c2   == [c1 EXCEPT !.lists[i] = line]
<1>0. c \in Chart /\ \A j \in Instances : c.lists[j] \in Seq(Timers) /\ NoRepeat(c.lists[j])
  BY DEF Good, Shaped, Chart
<1>1. PICK j \in Instances : t \in Range(c.lists[j])
  BY DEF InChart
<1>2. t \in Timers /\ c.inst[t] = j /\ j # NoInstance
  <2>1. Range(c.lists[j]) \in SUBSET Timers
    BY <1>0, RangeOfSeq DEF Range
  <2>. QED  BY <1>1, <2>1, TimersAssumption DEF Good, Shaped
<1>3. Good(c1) /\ c1.inst[t] = i /\ KeepsNearest(c, c1, t) /\ (c.inst[t] # i => c1.lists[i] = Append(RemoveAll(c.lists[i], t), t))
  BY <1>2, SetInstanceGood
<1>4. CASE c.inst[t] = i /\ IndexOf(c.lists[i], t) = pos
  <2>1. UpdateTimerPos(c, t, i, pos) = c
    BY <1>4, Zenon DEF UpdateTimerPos
  <2>. QED  BY <2>1 DEF KeepsNearest
<1>5. CASE ~(c.inst[t] = i /\ IndexOf(c.lists[i], t) = pos)
  <2>1. UpdateTimerPos(c, t, i, pos) = ResetTimerRelations(c2, t)
    BY <1>5, Zenon DEF UpdateTimerPos
  <2>2. c.inst[t] = i => c1 = c
    BY DEF SetEventInstance
  <2>. HIDE DEF c1
  <2>3. Shaped(c1) /\ c1 \in Chart /\ c1.lists[i] \in Seq(Timers) /\ NoRepeat(c1.lists[i])
    BY <1>3 DEF Good, Shaped, Chart
  <2>4. InsertDefined(RemoveAll(c1.lists[i], t), pos) /\ t \in Range(c1.lists[i])
    <3>1. CASE c.inst[t] = i
      BY <1>1, <1>2, <2>2, <3>1 DEF InsertDefined
    <3>2. CASE c.inst[t] # i
      <4>. DEFINE rest == RemoveAll(c.lists[i], t)
      <4>1. rest \in Seq(Timers)
        BY <1>0, KeepOnlyProperties DEF RemoveAll
      <4>2. c1.lists[i] = Append(rest, t)
        BY <1>3, <3>2
      <4>. HIDE DEF rest
      <4>3. t \in Range(c1.lists[i])
        BY <1>2, <4>1, <4>2, AppendListProperties
      <4>4. Len(c1.lists[i]) = Len(rest) + 1 /\ Len(rest) \in Nat
        BY <1>2, <4>1, <4>2, AppendProperties, LenProperties
      <4>5. Len(RemoveAll(c1.lists[i], t)) = Len(c1.lists[i]) - 1
        BY <2>3, <4>3, RemoveAllLength
      <4>6. pos <= Len(rest)
        BY DEF rest
      <4>. QED  BY <4>3, <4>4, <4>5, <4>6 DEF InsertDefined
    <3>. QED  BY <3>1, <3>2
  <2>5. line \in Seq(Timers) /\ NoRepeat(line) /\ Range(line) = Range(c1.lists[i]) \cup {t}
    <3>1. line \in Seq(Timers)
      BY <1>2, <2>3, <2>4, MovedElement
    <3>2. NoRepeat(line)
      BY <1>2, <2>3, <2>4, MovedElement
    <3>3. Range(line) = Range(c1.lists[i]) \cup {t}
      BY <1>2, <2>3, <2>4, MovedElement
    <3>. QED  BY <3>1, <3>2, <3>3
  <2>6. ASSUME NEW x \in Timers \ {t}, NEW y \in Timers \ {t}
        PROVE  Precedes(line, x, y) <=> Precedes(c1.lists[i], x, y)
    <3>. DEFINE rest == RemoveAll(c1.lists[i], t)
    <3>1. rest \in Seq(Timers) /\ InsertDefined(rest, pos)
      BY <2>3, <2>4, KeepOnlyProperties DEF RemoveAll
    <3>2. Precedes(rest, x, y) <=> Precedes(c1.lists[i], x, y)
      BY <2>3, KeepOnlyOrder, PrecedesIsOrder DEF RemoveAll
    <3>. HIDE DEF rest
    <3>3. Precedes(InsertAtPos(rest, pos, t), x, y) <=> Precedes(rest, x, y)
      BY <1>2, <3>1, InsertAtPosOrder
    <3>. QED  BY <3>2, <3>3 DEF rest
  <2>. HIDE DEF line
  <2>7. Relisted(c1, c2, t)
    BY <1>2, <1>3, <2>3, <2>5, <2>6, ListedIs
  <2>8. t \in Range(c2.lists[i])
    BY <1>2, <1>3, <2>3, <2>5, <2>6, ListedIs
  <2>9. c2.inst = c1.inst
    BY <1>2, <1>3, <2>3, <2>5, <2>6, ListedIs
  <2>. HIDE DEF c2
  <2>10. Good(ResetTimerRelations(c2, t))
    BY <1>2, <1>3, <2>7, GoodButAny, RelistedPairs, ResetGood
  <2>11. KeepsNearest(c1, ResetTimerRelations(c2, t), t)
    <3>1. Lifeline(c2, t) = c2.lists[i]
      BY <1>3, <2>9, TimersAssumption DEF Lifeline
    <3>. QED  BY <1>2, <1>3, <2>7, <2>8, <3>1, ResetKeepsNearest
  <2>12. KeepsNearest(c, ResetTimerRelations(c2, t), t)
    BY <1>3, <2>11, KeepsNearestTwice
  <2>. QED  BY <2>1, <2>10, <2>12
<1>. QED  BY <1>4, <1>5

\* setName keeps the pair, whose other timer takes the name over.
LEMMA SetNameGood ==
  ASSUME NEW c, Good(c), NEW t \in Timers, NEW n \in Names
  PROVE  Good(SetName(c, t, n))
<1>1. CASE c.name[t] = n
  BY <1>1 DEF SetName
<1>2. CASE c.name[t] # n
  <2>. DEFINE b == SetNameSilently(c, t, n)
  <2>1. b \in Chart /\ b.lists = c.lists /\ b.inst = c.inst /\ b.fol = c.fol /\ b.pre = c.pre
    BY DEF Good, Shaped, Chart, SetNameSilently
  <2>2. SetName(c, t, n) = ResetTimerRelations(b, t)
    BY <1>2, Zenon DEF SetName
  <2>. HIDE DEF b
  <2>3. Good(b)
    BY <2>1 DEF Good, Shaped, Mutual, PairOk
  <2>. QED  BY <2>2, <2>3, GoodButAny, ResetGood
<1>. QED  BY <1>1, <1>2
-------------------------------------------------------------------------------
(* setInstanceEvents resets one timer after the other.                          *)

ResettingLine(c, line, after, N) ==
  after = [n \in 0..N |-> IF n = 0 THEN c ELSE ResetTimerRelations(after[n - 1], line[n])]
ResettingAll(c, lists, order, after, N) ==
  after = [n \in 0..N |-> IF n = 0 THEN [c EXCEPT !.lists = lists]
                          ELSE ResetLine(after[n - 1], lists[order[n]])]

\* The recursions are ones: some function is as they say.
LEMMA ResettingLineExists ==
  ASSUME NEW c, NEW line, NEW N \in Nat
  PROVE  \E after : ResettingLine(c, line, after, N)
<1>. DEFINE Bad == {n \in Nat : ~\E after : ResettingLine(c, line, after, n)}
<1>1. SUFFICES ASSUME Bad # {}  PROVE FALSE
  OBVIOUS
<1>2. PICK n \in Bad : \A m \in Bad : n <= m
  BY <1>1, LeastNat
<1>3. n # 0
  <2>. DEFINE w == [m \in 0..0 |-> c]
  <2>1. ResettingLine(c, line, w, 0)
    BY DEF ResettingLine
  <2>. QED  BY <2>1
<1>4. n - 1 \in Nat /\ n - 1 \notin Bad
  BY <1>2, <1>3
<1>5. PICK v : ResettingLine(c, line, v, n - 1)
  BY <1>4
<1>. DEFINE w == [m \in 0..n |-> IF m = 0 THEN c
                                ELSE IF m < n THEN v[m] ELSE ResetTimerRelations(v[n - 1], line[n])]
<1>6. \A m \in 0..n : w[m] = IF m = 0 THEN c ELSE ResetTimerRelations(w[m - 1], line[m])
  <2>. SUFFICES ASSUME NEW m \in 0..n, m # 0  PROVE w[m] = ResetTimerRelations(w[m - 1], line[m])
    OBVIOUS
  <2>0. v[0] = c /\ m - 1 \in 0..(n - 1)
    BY <1>3, <1>5 DEF ResettingLine
  <2>1. w[m - 1] = v[m - 1]
    BY <2>0
  <2>2. CASE m < n
    BY <1>5, <2>1, <2>2 DEF ResettingLine
  <2>3. CASE m = n
    BY <2>1, <2>3
  <2>. QED  BY <2>2, <2>3
<1>7. ResettingLine(c, line, w, n)
  <2>1. w = [m \in 0..n |-> w[m]]
    OBVIOUS
  <2>. HIDE DEF w
  <2>2. w = [m \in 0..n |-> IF m = 0 THEN c ELSE ResetTimerRelations(w[m - 1], line[m])]
    BY <1>6, <2>1
  <2>. QED  BY <2>2 DEF ResettingLine
<1>. QED  BY <1>2, <1>7

LEMMA ResettingAllExists ==
  ASSUME NEW c, NEW lists, NEW order, NEW N \in Nat
  PROVE  \E after : ResettingAll(c, lists, order, after, N)
<1>. DEFINE first == [c EXCEPT !.lists = lists]
            Bad == {n \in Nat : ~\E after : ResettingAll(c, lists, order, after, n)}
<1>1. SUFFICES ASSUME Bad # {}  PROVE FALSE
  OBVIOUS
<1>2. PICK n \in Bad : \A m \in Bad : n <= m
  BY <1>1, LeastNat
<1>3. n # 0
  <2>. DEFINE w == [m \in 0..0 |-> first]
  <2>1. ResettingAll(c, lists, order, w, 0)
    BY DEF ResettingAll
  <2>. QED  BY <2>1
<1>4. n - 1 \in Nat /\ n - 1 \notin Bad
  BY <1>2, <1>3
<1>5. PICK v : ResettingAll(c, lists, order, v, n - 1)
  BY <1>4
<1>. DEFINE w == [m \in 0..n |-> IF m = 0 THEN first
                                ELSE IF m < n THEN v[m] ELSE ResetLine(v[n - 1], lists[order[n]])]
<1>6. \A m \in 0..n : w[m] = IF m = 0 THEN first ELSE ResetLine(w[m - 1], lists[order[m]])
  <2>. SUFFICES ASSUME NEW m \in 0..n, m # 0  PROVE w[m] = ResetLine(w[m - 1], lists[order[m]])
    OBVIOUS
  <2>0. v[0] = first /\ m - 1 \in 0..(n - 1)
    BY <1>3, <1>5 DEF ResettingAll
  <2>1. w[m - 1] = v[m - 1]
    BY <2>0
  <2>2. CASE m < n
    <3>1. m \in 0..(n - 1) /\ w[m] = v[m]
      BY <2>2
    <3>. HIDE DEF w, first
    <3>2. v[m] = ResetLine(v[m - 1], lists[order[m]])
      BY <1>5, <3>1, Zenon DEF ResettingAll
    <3>. QED  BY <2>1, <3>1, <3>2
  <2>3. CASE m = n
    BY <2>1, <2>3
  <2>. QED  BY <2>2, <2>3
<1>7. ResettingAll(c, lists, order, w, n)
  <2>1. w = [m \in 0..n |-> w[m]]
    OBVIOUS
  <2>. HIDE DEF w
  <2>2. w = [m \in 0..n |-> IF m = 0 THEN first ELSE ResetLine(w[m - 1], lists[order[m]])]
    BY <1>6, <2>1
  <2>. QED  BY <2>2 DEF ResettingAll
<1>. QED  BY <1>2, <1>7

\* Good pairs stay good when all timers of a list are reset, and links to the next
\* timer stay links to the next.
OnTheirLines(c, line) == \A n \in 1..Len(line) : line[n] \in Range(Lifeline(c, line[n]))

LEMMA ResetLineGood ==
  ASSUME NEW c, Good(c), NEW line \in Seq(Timers)
  PROVE  LET d == ResetLine(c, line)
         IN  /\ Good(d) /\ Relinked(c, d)
             /\ OnTheirLines(c, line) /\ Nearest(c) => Nearest(d)
<1>. DEFINE after == CHOOSE f : ResettingLine(c, line, f, Len(line))
            Fine(n) == /\ Good(after[n]) /\ Relinked(c, after[n])
                       /\ OnTheirLines(c, line) /\ Nearest(c) => Nearest(after[n])
            Bad == {n \in 0..Len(line) : ~Fine(n)}
<1>0. Len(line) \in Nat /\ \A n \in 1..Len(line) : line[n] \in Timers
  BY LenProperties, ElementOfSeq
<1>1. ResettingLine(c, line, after, Len(line))
  BY <1>0, ResettingLineExists
<1>2. ResetLine(c, line) = after[Len(line)]
  BY DEF ResetLine, ResettingLine
<1>. HIDE DEF after
<1>3. Fine(0)
  BY <1>0, <1>1 DEF ResettingLine, Relinked, Good, Shaped
<1>4. ASSUME NEW n \in 1..Len(line), Fine(n - 1)  PROVE Fine(n)
  <2>1. after[n] = ResetTimerRelations(after[n - 1], line[n]) /\ line[n] \in Timers
    BY <1>0, <1>1 DEF ResettingLine
  <2>2. Relinked(after[n - 1], after[n]) /\ Good(after[n])
    BY <1>4, <2>1, GoodButAny, ResetGood
  <2>3. ASSUME OnTheirLines(c, line), Nearest(c)  PROVE Nearest(after[n])
    <3>1. line[n] \in Range(Lifeline(after[n - 1], line[n]))
      BY <1>4, <2>3 DEF OnTheirLines, Relinked, Lifeline
    <3>2. Relisted(after[n - 1], after[n - 1], line[n])
      BY <1>4 DEF Relisted, Good
    <3>3. KeepsNearest(after[n - 1], after[n], line[n])
      BY <1>4, <2>1, <3>1, <3>2, ResetKeepsNearest
    <3>. QED  BY <1>4, <2>3, <3>3 DEF KeepsNearest
  <2>. QED  BY <1>4, <2>2, <2>3, RelinkedTwice
<1>. HIDE DEF Fine
<1>5. \A n \in 0..Len(line) : Fine(n)
  <2>1. SUFFICES ASSUME Bad # {}  PROVE FALSE
    OBVIOUS
  <2>2. PICK n \in Bad : \A m \in Bad : n <= m
    <3>1. Bad \in SUBSET Nat
      OBVIOUS
    <3>. QED  BY <2>1, <3>1, LeastNat, Zenon
  <2>3. n \in 1..Len(line) /\ n - 1 \in 0..Len(line) /\ n - 1 \notin Bad
    BY <1>0, <1>3, <2>2
  <2>. QED  BY <1>4, <2>2, <2>3
<1>6. Fine(Len(line))
  BY <1>0, <1>5
<1>. QED  BY <1>2, <1>6 DEF Fine

LEMMA SetInstanceEventsGood ==
  ASSUME NEW c, NEW lists \in [Instances -> Seq(Timers)], Good([c EXCEPT !.lists = lists]),
         NEW N \in Nat, NEW order \in [1..N -> Instances]
  PROVE  /\ Good(SetInstanceEvents(c, lists, order))
         /\ Relinked([c EXCEPT !.lists = lists], SetInstanceEvents(c, lists, order))
         /\ Nearest([c EXCEPT !.lists = lists]) => Nearest(SetInstanceEvents(c, lists, order))
<1>. DEFINE first == [c EXCEPT !.lists = lists]
            after == CHOOSE f : ResettingAll(c, lists, order, f, N)
            Fine(n) == /\ Good(after[n]) /\ Relinked(first, after[n])
                       /\ Nearest(first) => Nearest(after[n])
            Bad == {n \in 0..N : ~Fine(n)}
<1>0. Len(order) = N /\ \A n \in 1..N : lists[order[n]] \in Seq(Timers)
  BY LenProperties
<1>1. ResettingAll(c, lists, order, after, N)
  BY ResettingAllExists
<1>2. SetInstanceEvents(c, lists, order) = after[N]
  BY <1>0 DEF SetInstanceEvents, ResettingAll
<1>. HIDE DEF after
<1>3. Fine(0)
  <2>1. after[0] = first
    BY <1>1 DEF ResettingAll
  <2>. HIDE DEF first
  <2>. QED  BY <2>1 DEF Relinked, Good, Shaped, first
<1>. HIDE DEF first
<1>4. ASSUME NEW n \in 1..N, Fine(n - 1)  PROVE Fine(n)
  <2>1. after[n] = ResetLine(after[n - 1], lists[order[n]])
    <3>1. n \in 0..N /\ n # 0
      OBVIOUS
    <3>. QED  BY <1>1, <3>1, Zenon DEF ResettingAll
  <2>. DEFINE line == lists[order[n]]
  <2>2. OnTheirLines(after[n - 1], line)
    <3>1. Relinked(first, after[n - 1]) /\ first.lists = lists /\ Good(first)
      BY <1>4 DEF first, Good, Shaped, Chart
    <3>2. line = first.lists[order[n]] /\ order[n] \in Instances /\ line \in Seq(Timers)
      BY <1>0, <3>1
    <3>3. \A m \in 1..Len(line) : line[m] \in Range(line) /\ line[m] \in Timers
      BY <3>2, ElementOfSeq DEF Range
    <3>4. \A m \in 1..Len(line) : Lifeline(first, line[m]) = line
      BY <3>2, <3>1, <3>3, TimersAssumption DEF Good, Shaped, Lifeline
    <3>. QED  BY <3>1, <3>3, <3>4 DEF OnTheirLines, Relinked, Lifeline
  <2>3. /\ Relinked(after[n - 1], after[n]) /\ Good(after[n])
        /\ Nearest(after[n - 1]) => Nearest(after[n])
    BY <1>0, <1>4, <2>1, <2>2, ResetLineGood
  <2>. QED  BY <1>4, <2>3, RelinkedTwice
<1>. HIDE DEF Fine
<1>5. \A n \in 0..N : Fine(n)
  <2>1. SUFFICES ASSUME Bad # {}  PROVE FALSE
    OBVIOUS
  <2>2. PICK n \in Bad : \A m \in Bad : n <= m
    <3>1. Bad \in SUBSET Nat
      OBVIOUS
    <3>. QED  BY <2>1, <3>1, LeastNat, Zenon
  <2>3. n \in 1..N /\ n - 1 \in 0..N /\ n - 1 \notin Bad
    BY <1>3, <2>2
  <2>. QED  BY <1>4, <2>2, <2>3
<1>6. Fine(N)
  BY <1>5
<1>. QED  BY <1>2, <1>6 DEF Fine, first
-------------------------------------------------------------------------------
(* The invariant.  The lists that undo will bring back agree with the links and *)
(* the instances of the timers as they are now.                                 *)

Restored == [chart EXCEPT !.lists = deleted.lists]
PairsInv ==
  /\ Good(chart)
  /\ deleted.lists \in [Instances -> Seq(Timers)]
  /\ deleted.timer # NoTimer => Good(Restored)

LEMMA CreateStep ==
  ASSUME PairsInv, NEW t \in Timers, NEW i \in Instances, NEW pos \in Positions, Create(t, i, pos)
  PROVE  PairsInv'
<1>. DEFINE b == [chart EXCEPT !.inst[t] = i]
<1>1. Shaped(chart) /\ \A j \in Instances : t \notin Range(chart.lists[j])
  BY TimersAssumption DEF PairsInv, Good, Shaped, Create
<1>2. Relisted(chart, b, t) /\ b.inst[t] = i /\ b.lists = chart.lists
  BY <1>1, Rehomed
<1>3. chart' = AddInstanceEvent(b, t, pos) /\ deleted' = NothingDeleted
  BY DEF Create
<1>. HIDE DEF b
<1>4. GoodBut(b, t) /\ pos \in Int
  BY <1>2, GoodButAny, RelistedPairs DEF PairsInv, Positions
<1>5. Good(chart')
  BY <1>1, <1>2, <1>3, <1>4, AddGood
<1>. QED  BY <1>3, <1>5 DEF PairsInv, NothingDeleted

LEMMA MoveStep ==
  ASSUME PairsInv, NEW t \in Timers, NEW i \in Instances, NEW pos \in Positions, Move(t, i, pos)
  PROVE  PairsInv'
<1>1. Good(chart') /\ deleted' = NothingDeleted
  BY MoveGood DEF PairsInv, Move, Positions
<1>. QED  BY <1>1 DEF PairsInv, NothingDeleted

LEMMA RenameStep ==
  ASSUME PairsInv, NEW t \in Timers, NEW n \in Names, Rename(t, n)
  PROVE  PairsInv'
<1>1. Good(chart') /\ deleted' = NothingDeleted
  BY SetNameGood DEF PairsInv, Rename
<1>. QED  BY <1>1 DEF PairsInv, NothingDeleted

LEMMA DeleteStep ==
  ASSUME PairsInv, NEW t \in Timers, Delete(t)
  PROVE  PairsInv'
<1>1. Good(chart')
  BY RemovedGood DEF PairsInv, Delete
<1>2. deleted'.lists = chart.lists /\ Restored' = chart
  BY DEF PairsInv, Delete, Restored, RemoveInstanceEvent, Good, Shaped, Chart
<1>. QED  BY <1>1, <1>2 DEF PairsInv, Good, Shaped, Chart

LEMMA UndoDeleteStep ==
  ASSUME PairsInv, NEW order \in Orders, UndoDelete(order)
  PROVE  PairsInv'
<1>1. Cardinality(Instances) \in Nat
  BY TimersAssumption, FS_CardinalityType
<1>2. order \in [1..Cardinality(Instances) -> Instances]
  BY DEF Orders
<1>3. chart' = SetInstanceEvents(chart, deleted.lists, order) /\ deleted' = NothingDeleted
  BY DEF UndoDelete
<1>4. Good([chart EXCEPT !.lists = deleted.lists]) /\ deleted.lists \in [Instances -> Seq(Timers)]
  BY DEF UndoDelete, PairsInv, Restored
<1>5. Good(chart')
  BY <1>1, <1>2, <1>3, <1>4, SetInstanceEventsGood
<1>. QED  BY <1>3, <1>5 DEF PairsInv, NothingDeleted

LEMMA PairsInvariant ==
  Spec => []PairsInv
<1>1. Init => PairsInv
  <2>. SUFFICES ASSUME Init  PROVE PairsInv
    OBVIOUS
  <2>1. /\ chart.lists = [i \in Instances |-> << >>]
        /\ chart.fol = [t \in Timers |-> NoTimer] /\ chart.pre = [t \in Timers |-> NoTimer]
        /\ chart \in Chart
    <3>1. << >> \in Seq(Timers)
      OBVIOUS
    <3>2. [i \in Instances |-> << >>] \in [Instances -> Seq(Timers)]
      BY <3>1
    <3>3. /\ chart.lists = [i \in Instances |-> << >>] /\ chart.inst = [t \in Timers |-> NoInstance]
          /\ chart.fol = [t \in Timers |-> NoTimer] /\ chart.pre = [t \in Timers |-> NoTimer]
          /\ chart.name \in [Timers -> Names]
          /\ chart = [lists |-> chart.lists, inst |-> chart.inst, name |-> chart.name,
                      pre |-> chart.pre, fol |-> chart.fol]
      BY DEF Init
    <3>. QED  BY <3>2, <3>3 DEF Chart, TimerOrNone
  <2>2. Range(<< >>) = {} /\ NoRepeat(<< >>)
    BY DEF Range, NoRepeat
  <2>3. Good(chart)
    BY <2>1, <2>2, TimersAssumption DEF Good, Shaped, Mutual
  <2>. QED  BY <2>3 DEF Init, PairsInv, NothingDeleted
<1>2. PairsInv /\ [Next]_vars => PairsInv'
  <2>. SUFFICES ASSUME PairsInv, [Next]_vars  PROVE PairsInv'
    OBVIOUS
  <2>1. CASE Next
    BY <2>1, CreateStep, MoveStep, RenameStep, DeleteStep, UndoDeleteStep DEF Next
  <2>2. CASE UNCHANGED vars
    BY <2>2 DEF vars, PairsInv, Restored
  <2>. QED  BY <2>1, <2>2
<1>. QED  BY <1>1, <1>2, PTL DEF Spec

\* The chart has its type, and a timer is on the lifeline of its instance only, once.
THEOREM TimersTyped ==
  Spec => []TypeOK
<1>1. PairsInv => TypeOK
  BY DEF PairsInv, Good, Shaped, TypeOK
<1>. QED  BY <1>1, PairsInvariant, PTL

\* The two pointers of a pair agree, whatever was moved, renamed, deleted and brought back.
THEOREM LinksStayMutual ==
  Spec => []LinksMutual
<1>1. PairsInv => LinksMutual
  BY DEF PairsInv, Good, Mutual, LinksMutual
<1>. QED  BY <1>1, PairsInvariant, PTL

\* A pair is on one lifeline with its start first.
THEOREM PairsStayOnLifeline ==
  Spec => []PairsOnLifeline
<1>1. PairsInv => PairsOnLifeline
  <2>. SUFFICES ASSUME PairsInv, NEW t \in Timers, NEW u, u = chart.fol[t], u # NoTimer
                PROVE  /\ t \in Starts /\ chart.inst[t] = chart.inst[u]
                       /\ {t, u} \subseteq InChart(chart) =>
                            IndexOf(Lifeline(chart, t), t) < IndexOf(Lifeline(chart, u), u)
    BY DEF PairsOnLifeline
  <2>1. PairOk(chart, t, u) /\ Shaped(chart)
    BY DEF PairsInv, Good
  <2>2. ASSUME {t, u} \subseteq InChart(chart)
        PROVE  IndexOf(Lifeline(chart, t), t) < IndexOf(Lifeline(chart, u), u)
    <3>. DEFINE line == chart.lists[chart.inst[t]]
    <3>1. Lifeline(chart, t) = line /\ Lifeline(chart, u) = line /\ chart.inst[t] \in Instances
      BY <2>1 DEF PairOk, Lifeline, Shaped, Chart
    <3>2. t \in Range(line) /\ u \in Range(line)
      <4>1. PICK i, j \in Instances : t \in Range(chart.lists[i]) /\ u \in Range(chart.lists[j])
        BY <2>2 DEF InChart
      <4>2. u \in Timers
        BY <2>1 DEF Shaped, Chart, TimerOrNone
      <4>. QED  BY <2>1, <4>1, <4>2 DEF Shaped, PairOk
    <3>3. line \in Seq(Timers) /\ NoRepeat(line) /\ Precedes(line, t, u)
      BY <2>1, <3>1, <3>2 DEF PairOk, Shaped, Chart
    <3>. HIDE DEF line
    <3>. QED  BY <3>1, <3>2, <3>3, IndexOfOrder
  <2>. QED  BY <2>1, <2>2 DEF PairOk
<1>. QED  BY <1>1, PairsInvariant, PTL
-------------------------------------------------------------------------------
(* The invariant of the sessions without a renaming: if all timers that were    *)
(* placed are listed, each start is linked to the next timer of its name.  The   *)
(* lists that undo will bring back are such ones too.                           *)

NearInv ==
  /\ AllInChart(chart) => Nearest(chart)
  /\ deleted.timer # NoTimer /\ AllInChart(Restored) => Nearest(Restored)

\* No timer left the chart with the one that changed its place.
LEMMA AllWereInChart ==
  ASSUME NEW c, NEW d, NEW t, KeepsNearest(c, d, t), t \in InChart(c) \/ c.inst[t] = NoInstance
  PROVE  (AllInChart(c) => Nearest(c)) => (AllInChart(d) => Nearest(d))
<1>1. ASSUME AllInChart(d)  PROVE AllInChart(c)
  <2>1. \A x \in Timers \ {t} : x \in InChart(d) <=> x \in InChart(c)
    BY DEF KeepsNearest, InChart
  <2>. QED  BY <1>1, <2>1 DEF KeepsNearest, AllInChart
<1>. QED  BY <1>1 DEF KeepsNearest

LEMMA CreateNear ==
  ASSUME PairsInv, NearInv, NEW t \in Timers, NEW i \in Instances, NEW pos \in Positions,
         Create(t, i, pos)
  PROVE  NearInv'
<1>. DEFINE b == [chart EXCEPT !.inst[t] = i]
            e == [b EXCEPT !.lists[i] = InsertOrAppend(@, pos, t)]
<1>1. Shaped(chart) /\ \A j \in Instances : t \notin Range(chart.lists[j])
  BY TimersAssumption DEF PairsInv, Good, Shaped, Create
<1>2. Relisted(chart, b, t) /\ b.inst[t] = i /\ b.lists = chart.lists
  BY <1>1, Rehomed
<1>3. chart' = AddInstanceEvent(b, t, pos) /\ deleted' = NothingDeleted /\ chart.inst[t] = NoInstance
  BY DEF Create
<1>. HIDE DEF b
<1>4. GoodBut(b, t) /\ pos \in Int
  BY <1>2, GoodButAny, RelistedPairs DEF PairsInv, Positions
<1>5. Relisted(b, e, t)
  BY <1>1, <1>2, <1>4, AddGood
<1>6. e.inst = b.inst
  BY <1>1, <1>2, <1>4, AddGood
<1>7. t \in Range(e.lists[i])
  BY <1>1, <1>2, <1>4, AddGood
<1>8. chart' = ResetTimerRelations(e, t)
  BY <1>1, <1>2, <1>3, <1>4, AddGood
<1>. HIDE DEF e
<1>9. Lifeline(e, t) = e.lists[i]
  BY <1>2, <1>6, TimersAssumption DEF Lifeline
<1>10. Relisted(chart, e, t)
  BY <1>2, <1>5, RelistedTwice
<1>11. KeepsNearest(chart, chart', t)
  BY <1>7, <1>8, <1>9, <1>10, ResetKeepsNearest DEF PairsInv
<1>12. AllInChart(chart') => Nearest(chart')
  BY <1>3, <1>11, AllWereInChart DEF NearInv
<1>13. deleted'.timer = NoTimer
  BY <1>3 DEF NothingDeleted
<1>. QED  BY <1>12, <1>13 DEF NearInv

LEMMA MoveNear ==
  ASSUME PairsInv, NearInv, NEW t \in Timers, NEW i \in Instances, NEW pos \in Positions,
         Move(t, i, pos)
  PROVE  NearInv'
<1>1. /\ t \in InChart(chart) /\ pos \in Nat /\ pos <= Len(RemoveAll(chart.lists[i], t))
      /\ chart' = UpdateTimerPos(chart, t, i, pos) /\ deleted' = NothingDeleted
  BY DEF Move, Positions
<1>2. KeepsNearest(chart, chart', t)
  BY <1>1, MoveGood DEF PairsInv
<1>3. AllInChart(chart') => Nearest(chart')
  BY <1>1, <1>2, AllWereInChart DEF NearInv
<1>4. deleted'.timer = NoTimer
  BY <1>1 DEF NothingDeleted
<1>. QED  BY <1>3, <1>4 DEF NearInv

\* The deleted timer is missing now, and all that was known of the chart holds of
\* what undo brings back.
LEMMA DeleteNear ==
  ASSUME PairsInv, NearInv, NEW t \in Timers, Delete(t)
  PROVE  NearInv'
<1>1. t \in InChart(chart) /\ chart' = RemoveInstanceEvent(chart, t) /\ Good(chart)
  BY DEF Delete, PairsInv
<1>2. chart.inst[t] # NoInstance
  BY <1>1, TimersAssumption DEF Good, Shaped, InChart
<1>3. chart'.inst = chart.inst /\ \A i \in Instances : t \notin Range(chart'.lists[i])
  BY <1>1, RemovedIs DEF Good
<1>4. ~AllInChart(chart')
  BY <1>2, <1>3 DEF AllInChart, InChart
<1>5. Restored' = chart
  BY DEF PairsInv, Delete, Restored, RemoveInstanceEvent, Good, Shaped, Chart
<1>. QED  BY <1>4, <1>5 DEF NearInv

LEMMA UndoDeleteNear ==
  ASSUME PairsInv, NearInv, NEW order \in Orders, UndoDelete(order)
  PROVE  NearInv'
<1>1. Cardinality(Instances) \in Nat
  BY TimersAssumption, FS_CardinalityType
<1>2. order \in [1..Cardinality(Instances) -> Instances]
  BY DEF Orders
<1>3. /\ chart' = SetInstanceEvents(chart, deleted.lists, order) /\ deleted' = NothingDeleted
      /\ deleted.timer # NoTimer
  BY DEF UndoDelete
<1>4. Good(Restored) /\ deleted.lists \in [Instances -> Seq(Timers)]
  BY <1>3 DEF PairsInv
<1>5. Relinked(Restored, chart')
  BY <1>1, <1>2, <1>3, <1>4, SetInstanceEventsGood DEF Restored
<1>6. Nearest(Restored) => Nearest(chart')
  BY <1>1, <1>2, <1>3, <1>4, SetInstanceEventsGood DEF Restored
<1>7. AllInChart(chart') => AllInChart(Restored)
  BY <1>5 DEF Relinked, AllInChart, InChart
<1>8. deleted'.timer = NoTimer
  BY <1>3 DEF NothingDeleted
<1>. QED  BY <1>3, <1>6, <1>7, <1>8 DEF NearInv

LEMMA NearInvariant ==
  Spec => []("rename" \notin session => NearInv)
<1>. DEFINE Inv == "rename" \notin session => NearInv
<1>1. Init => Inv
  <2>. SUFFICES ASSUME Init  PROVE NearInv
    OBVIOUS
  <2>1. /\ \A t \in Timers : chart.inst[t] = NoInstance /\ chart.fol[t] = NoTimer
        /\ deleted.timer = NoTimer
    BY DEF Init, NothingDeleted
  <2>2. \A t \in Timers : FirstAfter(chart, t) = NoTimer
    <3>1. Range(<< >>) = {}
      BY DEF Range
    <3>. QED  BY <2>1, <3>1 DEF FirstAfter, Later, Lifeline
  <2>. QED  BY <2>1, <2>2 DEF NearInv, Nearest
<1>2. PairsInv /\ Inv /\ [Next]_vars => Inv'
  <2>. SUFFICES ASSUME PairsInv, Inv, [Next]_vars, "rename" \notin session'  PROVE NearInv'
    OBVIOUS
  <2>1. CASE Next
    <3>1. "rename" \notin session /\ NearInv
      BY <2>1 DEF Next
    <3>. QED  BY <2>1, <3>1, CreateNear, MoveNear, DeleteNear, UndoDeleteNear DEF Next
  <2>2. CASE UNCHANGED vars
    BY <2>2 DEF vars, NearInv, Restored
  <2>. QED  BY <2>1, <2>2
<1>. QED  BY <1>1, <1>2, PairsInvariant, PTL DEF Spec

\* When no timer was renamed and none is deleted, each start is linked to the next
\* timer of its name on its lifeline, and no other links are there: what a reset
\* looks up is enough, whatever was moved away from between the two.
THEOREM PairsStayNearest ==
  Spec => []PairsAreNearest
<1>1. PairsInv /\ ("rename" \notin session => NearInv) => PairsAreNearest
  <2>. SUFFICES ASSUME PairsInv, NearInv, AllInChart(chart), NEW t \in InChart(chart)
                PROVE  chart.fol[t] = IF t \in Starts THEN FirstAfter(chart, t) ELSE NoTimer
    BY DEF PairsAreNearest
  <2>1. t \in Timers
    <3>1. \A i \in Instances : chart.lists[i] \in Seq(Timers)
      BY DEF PairsInv, Good, Shaped, Chart
    <3>2. \A i \in Instances : Range(chart.lists[i]) \in SUBSET Timers
      BY <3>1, RangeOfSeq DEF Range
    <3>. QED  BY <3>2 DEF InChart
  <2>. QED  BY <2>1 DEF NearInv, Nearest
<1>. QED  BY <1>1, PairsInvariant, NearInvariant, PTL
===============================================================================
