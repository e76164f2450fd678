--------------------------- MODULE NameSyncProofs ----------------------------
(* Names stay alike and unique, and undo restores what an editor showed, for    *)
(* any number of functions, files, instances and names, in the sessions that    *)
(* the properties of NameSync are about.                                        *)
EXTENDS NameSync, MscListsProofs

\* What an editor shows, and the commands that may be on its stack in the session se.
Objects(ed) ==
  IF ed = IV THEN Functions \cup Interfaces ELSE {i \in Range(Instances) : CoreOf[i] = ed}
Documents(ed) == [Objects(ed) -> Names \cup {None}]

CommandsAt(ed, se) ==
  IF ed = IV
  THEN [kind : {"title", "unheard"}, o : Functions, old : Names, new : Names]
       \cup [kind : {"function"}, o : Functions, old : {None}, new : Names]
       \cup [kind : {"remove"}, o : Functions, old : Names, new : {None}]
  ELSE {c \in [kind : {"name"}, o : Present(se), old : Names, new : Names]
               \cup [kind : {"instance"}, o : Present(se), old : {None}, new : Names]
               \cup [kind : {"delete"}, o : Present(se), old : Names, new : {None}] :
          CoreOf[c.o] = ed}
CommandsOf(ed, se) == {c \in CommandsAt(ed, se) : Updating(se) => c.kind \in {"title", "name"}}

\* The state is of its type, and only the session's instances are in a chart.
Base(s, se) ==
  /\ s = [title |-> s.title, name |-> s.name, stack |-> s.stack, index |-> s.index,
          redoing |-> s.redoing, alive |-> s.alive, full |-> s.full, views |-> s.views]
  /\ s.title \in [Functions \cup Interfaces -> Names \cup {None}]
  /\ s.name \in [Range(Instances) -> Names \cup {None}]
  /\ \A i \in Range(Instances) : s.name[i] # None => i \in Present(se)
  /\ s.alive \in BOOLEAN
  /\ s.stack = [ed \in Editors |-> s.stack[ed]] /\ s.views = [ed \in Editors |-> s.views[ed]]
  /\ s.index \in [Editors -> Nat]
  /\ \A ed \in Editors : s.stack[ed] \in Seq(CommandsOf(ed, se)) /\ s.index[ed] <= Len(s.stack[ed])

\* No two functions have one name and, for the user who updates, no two instances of a
\* chart.
Fine(ed, v, se) ==
  IF ed = IV THEN \A f, g \in Functions : v[f] # None /\ v[f] = v[g] => f = g
  ELSE Updating(se) => \A i, j \in Objects(ed) :
         Chart[i] = Chart[j] /\ v[i] # None /\ v[i] = v[j] => i = j

\* The command c leads from the document v to the document w.
Leads(v, c, w) == v[c.o] = c.old /\ w = [v EXCEPT ![c.o] = c.new]

\* The documents of the user of ed follow from each other by the commands of the stack, and
\* v is the one at the index.
Stands(s, ed, se, v) ==
  /\ s.views[ed] \in Seq(Documents(ed)) /\ Len(s.views[ed]) = Len(s.stack[ed]) + 1
  /\ \A k \in 1..Len(s.views[ed]) : Fine(ed, s.views[ed][k], se)
  /\ \A k \in 1..Len(s.stack[ed]) : Leads(s.views[ed][k], s.stack[ed][k], s.views[ed][k + 1])
  /\ s.views[ed][s.index[ed] + 1] = v
Sound(s, ed, se) == Stands(s, ed, se, Document(s, ed))

\* Every instance has its function.
Founded(s) == \A i \in Range(Instances) : s.name[i] # None => HasFunction(s, s.name[i])

Good(s, ed, se) == Sound(s, ed, se) /\ Fine(ed, Document(s, ed), se)
Holds(s, se) ==
  /\ Good(s, IV, se) /\ (s.alive => Base(s, se))
  /\ Exact(se) => \A ed \in Editors : Good(s, ed, se)
  /\ Updating(se) => Founded(s)

\* If interfaces are renamed, nothing is said.
InvOf(s, se) == "renameInterface" \notin se.kinds => Holds(s, se)
Inv == InvOf(sys, session)
-------------------------------------------------------------------------------
(* The stacks.                                                                  *)

\* The editor ed has the stack it had, and what its user saw.
SameIn(s, t, ed) ==
  t.stack[ed] = s.stack[ed] /\ t.index[ed] = s.index[ed] /\ t.views[ed] = s.views[ed]

\* From s to t commands were pushed: nothing is taken off, and if it is on the stack that
\* is being redone, and there was something to redo, the run is over.
Runs(s, t) ==
  /\ t.redoing = s.redoing /\ (t.alive => s.alive)
  /\ \A ed \in Editors : s.index[ed] <= t.index[ed]
  /\ \A ed \in Editors :
       t.alive /\ ed = s.redoing /\ s.index[ed] < Len(s.stack[ed]) =>
         t.stack[ed] = s.stack[ed] /\ t.index[ed] = s.index[ed]

LEMMA RunsOn ==
  ASSUME NEW s, NEW t, NEW u, NEW se, Base(s, se), Base(t, se), Base(u, se), Runs(s, t), Runs(t, u)
  PROVE  Runs(s, u)
  BY DEF Runs, Base

LEMMA RunsStill ==
  ASSUME NEW s, NEW se, Base(s, se)
  PROVE  Runs(s, s)
  BY DEF Runs, Base

LEMMA SameStands ==
  ASSUME NEW s, NEW t, NEW ed, NEW se, NEW v, SameIn(s, t, ed), Stands(s, ed, se, v)
  PROVE  Stands(t, ed, se, v)
  BY DEF SameIn, Stands

\* A command of an editor is about what it shows.
LEMMA CommandsAre ==
  ASSUME NEW se \in Sessions, NEW ed \in Editors, NEW c \in CommandsOf(ed, se)
  PROVE  /\ c = [kind |-> c.kind, o |-> c.o, old |-> c.old, new |-> c.new]
         /\ c.o \in Objects(ed) /\ c.old \in Names \cup {None} /\ c.new \in Names \cup {None}
         /\ ed # IV => c.o \in Present(se) /\ ed = CoreOf[c.o]
         /\ c.kind = "name" => ed # IV /\ c.old \in Names /\ c.new \in Names
         /\ c.kind = "title" => ed = IV /\ c.o \in Functions /\ c.old \in Names /\ c.new \in Names
         /\ c.kind = "remove" => ed = IV /\ c.o \in Functions /\ c.old \in Names /\ c.new = None
         /\ ed = IV => c.o \in Functions
         /\ Updating(se) => c.kind = IF ed = IV THEN "title" ELSE "name"
<1>1. Present(se) \subseteq Range(Instances)
  BY SyncAssumption DEF TypeOfSession, Present
<1>2. CASE ed = IV
  BY <1>2 DEF CommandsOf, CommandsAt, Objects
<1>3. CASE ed # IV
  BY <1>1, <1>3 DEF CommandsOf, CommandsAt, Objects
<1>. QED  BY <1>2, <1>3

\* The first n elements of a list.
LEMMA CutIs ==
  ASSUME NEW C, NEW s \in Seq(C), NEW n \in 0..Len(s)
  PROVE  LET r == SubSeq(s, 1, n)
         IN  r \in Seq(C) /\ Len(r) = n /\ \A k \in 1..n : r[k] = s[k]
<1>. DEFINE r == SubSeq(s, 1, n)
<1>1. Len(s) \in Nat /\ \A k \in 1..Len(s) : s[k] \in C
  BY LenProperties, ElementOfSeq
<1>2. CASE n = 0
  <2>1. r = << >>
    BY <1>1, <1>2, SubSeqProperties
  <2>. QED  BY <1>2, <2>1
<1>3. CASE n # 0
  <2>1. \A k \in 1..n : s[k] \in C
    BY <1>1
  <2>2. /\ r \in Seq(C) /\ Len(r) = (IF 1 <= n THEN n - 1 + 1 ELSE 0)
        /\ \A k \in 1..(n - 1 + 1) : r[k] = s[1 + k - 1]
    BY <1>1, <2>1, SubSeqProperties
  <2>. HIDE DEF r
  <2>. QED  BY <1>1, <1>3, <2>2
<1>. QED  BY <1>2, <1>3

LEMMA StackedIs ==
  ASSUME NEW se \in Sessions, NEW ed \in Editors, NEW done \in Seq(CommandsOf(ed, se)),
         NEW c \in CommandsOf(ed, se)
  PROVE  LET n == Len(done)
             d == Stacked(done, c)
         IN  /\ d \in Seq(CommandsOf(ed, se)) /\ n \in Nat
             /\ \/ d = Append(done, c) /\ Len(d) = n + 1
                \/ /\ n > 0 /\ Joins(done[n], c) /\ Len(d) = n
                   /\ \A k \in 1..(n - 1) : d[k] = done[k]
                   /\ d[n].o = done[n].o /\ d[n].old = done[n].old /\ d[n].new = c.new
<1>. DEFINE n == Len(done)
            d == Stacked(done, c)
            C == CommandsOf(ed, se)
<1>1. n \in Nat /\ DOMAIN done = 1..n /\ \A k \in 1..n : done[k] \in C
  BY LenProperties, ElementOfSeq
<1>2. CASE ~(done # << >> /\ Joins(Last(done), c))
  <2>. HIDE DEF C
  <2>1. d = Append(done, c)
    BY <1>2 DEF Stacked
  <2>2. d \in Seq(C) /\ Len(d) = n + 1
    BY <2>1 DEF C
  <2>. QED  BY <1>1, <2>1, <2>2 DEF C
<1>3. CASE done # << >> /\ Joins(Last(done), c)
  <2>1. n > 0 /\ Last(done) = done[n]
    BY <1>1, <1>3 DEF Last
  <2>. DEFINE e == [done[n] EXCEPT !.new = c.new]
  <2>2. d = [done EXCEPT ![n] = e]
    BY <1>1, <1>3, <2>1 DEF Stacked
  <2>3. done[n] \in C /\ done[n].kind = "name" /\ c.kind = "name" /\ done[n].o = c.o
    BY <1>1, <1>3, <2>1 DEF Joins
  <2>4. e = [kind |-> "name", o |-> done[n].o, old |-> done[n].old, new |-> c.new]
    BY <2>3, CommandsAre
  <2>5. e \in C
    <3>1. ed # IV /\ done[n].o \in Present(se) /\ CoreOf[done[n].o] = ed
          /\ done[n].old \in Names /\ c.new \in Names
      BY <2>3, CommandsAre
    <3>2. e \in [kind : {"name"}, o : Present(se), old : Names, new : Names] /\ CoreOf[e.o] = ed
      BY <2>4, <3>1
    <3>. HIDE DEF e
    <3>. QED  BY <3>1, <3>2, <2>4 DEF CommandsOf, CommandsAt
  <2>. HIDE DEF e, C
  <2>6. DOMAIN d = 1..n /\ \A k \in 1..n : d[k] \in C
    BY <1>1, <2>1, <2>2, <2>5
  <2>7. d \in Seq(C) /\ Len(d) = n
    <3>1. d = [k \in 1..n |-> d[k]]
      BY <1>1, <2>2, <2>6
    <3>2. d \in [1..n -> C]
      BY <2>6, <3>1
    <3>. QED  BY <1>1, <2>6, <3>2
  <2>8. Joins(done[n], c)
    BY <1>3, <2>1, Zenon
  <2>11. \A k \in 1..(n - 1) : d[k] = done[k]
    <3>. HIDE DEF n, d
    <3>. SUFFICES ASSUME NEW k \in 1..(n - 1)  PROVE d[k] = done[k]
      OBVIOUS
    <3>0. n \in Nat
      BY <1>1
    <3>1. k \in 1..n /\ k # n
      BY <3>0
    <3>. QED  BY <1>1, <2>2, <3>1
  <2>9. d[n] = e
    BY <1>1, <2>1, <2>2
  <2>10. d[n].o = done[n].o /\ d[n].old = done[n].old /\ d[n].new = c.new
    BY <2>4, <2>9
  <2>. QED  BY <1>1, <2>1, <2>7, <2>8, <2>10, <2>11 DEF C
<1>. QED  BY <1>2, <1>3

\* What is pushed on a stack, and what is left as it was.
LEMMA PushedIs ==
  ASSUME NEW se \in Sessions, NEW s, Base(s, se), NEW ed \in Editors, NEW c \in CommandsOf(ed, se)
  PROVE  LET t == Pushed(s, ed, c)
             d == Stacked(SubSeq(s.stack[ed], 1, s.index[ed]), c)
         IN  /\ Base(t, se) /\ Runs(s, t) /\ t.title = s.title /\ t.name = s.name
             /\ \A e \in Editors \ {ed} : SameIn(s, t, e)
             /\ t.stack[ed] = d /\ t.index[ed] = Len(d)
             /\ t.views[ed] = Append(SubSeq(s.views[ed], 1, Len(d)), Document(s, ed))
<1>. DEFINE n == s.index[ed]
            done == SubSeq(s.stack[ed], 1, n)
            d == Stacked(done, c)
            t == Pushed(s, ed, c)
            w == Append(SubSeq(s.views[ed], 1, Len(d)), Document(s, ed))
            C == CommandsOf(ed, se)
<1>1. s.stack[ed] \in Seq(C) /\ n \in Nat /\ n <= Len(s.stack[ed]) /\ Len(s.stack[ed]) \in Nat
  BY LenProperties DEF Base
<1>2. done \in Seq(C) /\ Len(done) = n
  BY <1>1, CutIs
<1>. HIDE DEF done
<1>3. d \in Seq(C) /\ Len(d) \in Nat /\ n <= Len(d)
  <2>1. /\ d \in Seq(C)
        /\ \/ d = Append(done, c) /\ Len(d) = n + 1
           \/ Len(d) = n
    <3>1. done \in Seq(CommandsOf(ed, se)) /\ Len(done) = n
      BY <1>2
    <3>. HIDE DEF C, n
    <3>2. /\ d \in Seq(CommandsOf(ed, se))
          /\ (d = Append(done, c) /\ Len(d) = Len(done) + 1) \/ Len(d) = Len(done)
      BY <3>1, StackedIs
    <3>. QED  BY <3>1, <3>2 DEF C
  <2>. HIDE DEF d
  <2>. QED  BY <1>1, <2>1
<1>. DEFINE al == s.alive /\ ~(ed = s.redoing /\ n < Len(s.stack[ed]))
<1>4. t = [title |-> s.title, name |-> s.name, stack |-> [s.stack EXCEPT ![ed] = d],
           index |-> [s.index EXCEPT ![ed] = Len(d)], redoing |-> s.redoing,
           alive |-> al, full |-> s.full, views |-> [s.views EXCEPT ![ed] = w]]
  <2>. HIDE DEF d
  <2>1. t = [s EXCEPT !.stack = [s.stack EXCEPT ![ed] = d],
                      !.index = [s.index EXCEPT ![ed] = Len(d)],
                      !.alive = al,
                      !.views = [s.views EXCEPT ![ed] = w]]
    <3>1. Document(s, ed) = Document(s, ed) /\ s.stack = [e \in Editors |-> s.stack[e]]
          /\ s.views = [e \in Editors |-> s.views[e]] /\ s.index \in [Editors -> Nat]
      BY DEF Base
    <3>. QED  BY <3>1 DEF Pushed, Base, d, done
  <2>. DEFINE st == [s.stack EXCEPT ![ed] = d]
              ix == [s.index EXCEPT ![ed] = Len(d)]
              vw == [s.views EXCEPT ![ed] = w]
  <2>2. s = [title |-> s.title, name |-> s.name, stack |-> s.stack, index |-> s.index,
             redoing |-> s.redoing, alive |-> s.alive, full |-> s.full, views |-> s.views]
    BY DEF Base
  <2>. HIDE DEF st, ix, vw, al, t
  <2>. QED  BY <2>1, <2>2
<1>. HIDE DEF d, w, t
<1>5. /\ t.title = s.title /\ t.name = s.name /\ t.redoing = s.redoing /\ t.alive = al
      /\ t.stack = [s.stack EXCEPT ![ed] = d] /\ t.index = [s.index EXCEPT ![ed] = Len(d)]
      /\ t.views = [s.views EXCEPT ![ed] = w]
  BY <1>4
<1>6. /\ t.stack[ed] = d /\ t.index[ed] = Len(d) /\ t.views[ed] = w
      /\ \A e \in Editors \ {ed} : SameIn(s, t, e)
  BY <1>5 DEF Base, SameIn
<1>7. Runs(s, t)
  <2>1. \A e \in Editors : s.index[e] <= t.index[e]
    <3>. SUFFICES ASSUME NEW e \in Editors  PROVE s.index[e] <= t.index[e]
      OBVIOUS
    <3>1. s.index[e] \in Nat
      BY DEF Base
    <3>2. CASE e = ed
      BY <1>3, <1>6, <3>2
    <3>3. CASE e # ed
      BY <1>6, <3>1, <3>3 DEF SameIn
    <3>. QED  BY <3>2, <3>3
  <2>2. \A e \in Editors : t.alive /\ e = s.redoing /\ s.index[e] < Len(s.stack[e]) => e # ed
    BY <1>5
  <2>. QED  BY <1>5, <1>6, <2>1, <2>2 DEF Runs, SameIn
<1>8. Base(t, se)
  <2>1. t = [title |-> t.title, name |-> t.name, stack |-> t.stack, index |-> t.index,
             redoing |-> t.redoing, alive |-> t.alive, full |-> t.full, views |-> t.views]
    BY <1>4
  <2>2. /\ t.title \in [Functions \cup Interfaces -> Names \cup {None}]
        /\ t.name \in [Range(Instances) -> Names \cup {None}]
        /\ \A i \in Range(Instances) : t.name[i] # None => i \in Present(se)
        /\ t.alive \in BOOLEAN
    BY <1>5 DEF Base
  <2>3. /\ t.stack = [e \in Editors |-> t.stack[e]] /\ t.views = [e \in Editors |-> t.views[e]]
        /\ t.index \in [Editors -> Nat]
    BY <1>3, <1>5 DEF Base
  <2>4. \A e \in Editors : t.stack[e] \in Seq(CommandsOf(e, se)) /\ t.index[e] <= Len(t.stack[e])
    <3>. SUFFICES ASSUME NEW e \in Editors
                  PROVE  t.stack[e] \in Seq(CommandsOf(e, se)) /\ t.index[e] <= Len(t.stack[e])
      OBVIOUS
    <3>1. CASE e = ed
      BY <1>3, <1>6, <3>1
    <3>2. CASE e # ed
      BY <1>6, <3>2 DEF Base, SameIn
    <3>. QED  BY <3>1, <3>2
  <2>. QED  BY <2>1, <2>2, <2>3, <2>4 DEF Base
<1>. QED  BY <1>5, <1>6, <1>7, <1>8 DEF t, d, done, w

\* The documents of an editor's user go on with what the editor shows now.
LEMMA PushedSound ==
  ASSUME NEW se \in Sessions, NEW s, Base(s, se), NEW ed \in Editors, NEW c \in CommandsOf(ed, se),
         NEW v, Stands(s, ed, se, v), Leads(v, c, Document(s, ed)), Fine(ed, Document(s, ed), se),
         Document(s, ed) \in Documents(ed)
  PROVE  Sound(Pushed(s, ed, c), ed, se)
<1>. DEFINE n == s.index[ed]
            S == s.stack[ed]
            V == s.views[ed]
            x == Document(s, ed)
            t == Pushed(s, ed, c)
            T == t.stack[ed]
            W == t.views[ed]
            done == SubSeq(S, 1, n)
            C == CommandsOf(ed, se)
            D == Documents(ed)
<1>1. n \in 0..Len(S) /\ Len(S) \in Nat /\ S \in Seq(C) /\ V \in Seq(D) /\ Len(V) = Len(S) + 1
  BY LenProperties DEF Base, Stands
<1>2. /\ \A k \in 1..Len(V) : Fine(ed, V[k], se) /\ V[k] \in D
      /\ \A k \in 1..Len(S) : Leads(V[k], S[k], V[k + 1]) /\ S[k] \in C
      /\ V[n + 1] = v
  BY <1>1, ElementOfSeq DEF Stands
<1>3. /\ Base(t, se) /\ T = Stacked(done, c) /\ t.index[ed] = Len(T)
      /\ W = Append(SubSeq(V, 1, Len(T)), x)
  BY PushedIs
<1>3a. Document(t, ed) = x
  <2>1. t.title = s.title /\ t.name = s.name
    BY PushedIs
  <2>. HIDE DEF t
  <2>. QED  BY <2>1 DEF Document
<1>. HIDE DEF t
<1>4. done \in Seq(C) /\ Len(done) = n /\ \A k \in 1..n : done[k] = S[k]
  BY <1>1, CutIs
<1>. HIDE DEF done, C, D, W, T, x, V, S, n
<1>5. /\ T \in Seq(CommandsOf(ed, se))
      /\ \/ T = Append(done, c) /\ Len(T) = n + 1
         \/ /\ n > 0 /\ Joins(done[n], c) /\ Len(T) = n
            /\ \A k \in 1..(n - 1) : T[k] = done[k]
            /\ T[n].o = done[n].o /\ T[n].old = done[n].old /\ T[n].new = c.new
  <2>1. done \in Seq(CommandsOf(ed, se))
    BY <1>4 DEF C
  <2>. QED  BY <1>3, <1>4, <2>1, StackedIs
<1>6. Len(T) \in {n, n + 1} /\ Len(T) \in 0..Len(V) /\ Len(T) \in Nat
  BY <1>1, <1>5
<1>7. Len(W) = Len(T) + 1 /\ (\A k \in 1..Len(T) : W[k] = V[k]) /\ W[Len(T) + 1] = x
  <2>1. Extended(V, Len(T), x, Append(SubSeq(V, 1, Len(T)), x))
    BY <1>1, <1>6, CutAndExtended
  <2>. QED  BY <1>3, <2>1 DEF Extended
<1>8. W \in Seq(D) /\ \A k \in 1..Len(W) : Fine(ed, W[k], se)
  <2>1. \E Z : W \in Seq(Z)
    <3>1. Extended(V, Len(T), x, Append(SubSeq(V, 1, Len(T)), x))
      BY <1>1, <1>6, CutAndExtended
    <3>. QED  BY <1>3, <3>1 DEF Extended
  <2>2. W = [k \in 1..Len(W) |-> W[k]] /\ Len(W) \in Nat
    BY <2>1, LenProperties
  <2>3. \A k \in 1..Len(W) : W[k] \in D /\ Fine(ed, W[k], se)
    <3>. SUFFICES ASSUME NEW k \in 1..Len(W)  PROVE W[k] \in D /\ Fine(ed, W[k], se)
      OBVIOUS
    <3>1. CASE k \in 1..Len(T)
      <4>1. k \in 1..Len(V)
        BY <1>6, <3>1
      <4>. QED  BY <1>2, <1>7, <3>1, <4>1
    <3>2. CASE k = Len(T) + 1
      BY <1>7, <3>2 DEF x, D
    <3>. QED  BY <1>6, <1>7, <3>1, <3>2
  <2>4. W \in [1..Len(W) -> D]
    BY <2>2, <2>3
  <2>. QED  BY <2>2, <2>3, <2>4, SeqDef
<1>9. \A k \in 1..Len(T) : Leads(W[k], T[k], W[k + 1])
  <2>0. Leads(v, c, x)
    BY DEF x
  <2>. SUFFICES ASSUME NEW k \in 1..Len(T)  PROVE Leads(W[k], T[k], W[k + 1])
    OBVIOUS
  <2>1. CASE T = Append(done, c) /\ Len(T) = n + 1
    <3>1. (\A j \in 1..n : T[j] = done[j]) /\ T[n + 1] = c
      BY <1>4, <2>1, AppendProperties
    <3>2. CASE k \in 1..n
      <4>1. T[k] = S[k] /\ k \in 1..Len(S) /\ k + 1 \in 1..Len(T) /\ k \in 1..Len(T)
        BY <1>1, <1>4, <2>1, <3>1, <3>2
      <4>. QED  BY <1>2, <1>7, <4>1
    <3>3. CASE k = n + 1
      <4>1. W[k] = v /\ W[k + 1] = x
        BY <1>2, <1>7, <2>1, <3>3
      <4>. QED  BY <2>0, <3>1, <3>3, <4>1
    <3>. QED  BY <1>1, <2>1, <3>2, <3>3
  <2>2. CASE /\ n > 0 /\ Joins(done[n], c) /\ Len(T) = n
             /\ \A j \in 1..(n - 1) : T[j] = done[j]
             /\ T[n].o = done[n].o /\ T[n].old = done[n].old /\ T[n].new = c.new
    <3>1. CASE k \in 1..(n - 1)
      <4>1. T[k] = S[k] /\ k \in 1..Len(S) /\ k + 1 \in 1..Len(T) /\ k \in 1..Len(T)
        BY <1>1, <1>4, <2>2, <3>1
      <4>. QED  BY <1>2, <1>7, <4>1
    <3>2. CASE k = n
      <4>1. W[k] = V[n] /\ W[k + 1] = x /\ n \in 1..Len(S) /\ done[n] = S[n] /\ S[n].o = c.o
        BY <1>1, <1>4, <1>7, <2>2, <3>2 DEF Joins
      <4>2. V[n][c.o] = S[n].old /\ v = [V[n] EXCEPT ![c.o] = S[n].new]
        BY <1>2, <4>1 DEF Leads
      <4>3. V[n] \in D
        BY <1>1, <1>2, <4>1
      <4>4. x = [V[n] EXCEPT ![c.o] = c.new]
        <5>1. x = [v EXCEPT ![c.o] = c.new]
          BY <2>0 DEF Leads
        <5>. QED  BY <4>2, <4>3, <5>1 DEF D, Documents
      <4>. QED  BY <2>2, <3>2, <4>1, <4>2, <4>4 DEF Leads
    <3>. QED  BY <1>1, <2>2, <3>1, <3>2
  <2>. QED  BY <1>5, <2>1, <2>2
<1>10. Stands(t, ed, se, x)
  <2>1. W[t.index[ed] + 1] = x
    BY <1>3, <1>7
  <2>. QED  BY <1>7, <1>8, <1>9, <2>1 DEF Stands, W, T, D
<1>. QED  BY <1>3a, <1>10 DEF Sound, t
-------------------------------------------------------------------------------
(* What is given a name.                                                        *)

LEMMA SessionsAre ==
  ASSUME NEW se \in Sessions
  PROVE  /\ Present(se) \subseteq Range(Instances)
         /\ se.title \in [Functions \cup Interfaces -> Names \cup {None}]
         /\ se.name \in [Range(Instances) -> Names \cup {None}]
  BY SyncAssumption DEF TypeOfSession, Present

LEMMA EditorOf ==
  ASSUME NEW i \in Range(Instances)
  PROVE  CoreOf[i] \in Editors /\ CoreOf[i] # IV
  BY SyncAssumption DEF Editors

LEMMA DocumentsAre ==
  ASSUME NEW se \in Sessions, NEW s, Base(s, se), NEW ed \in Editors
  PROVE  Document(s, ed) \in Documents(ed)
<1>1. CASE ed = IV
  BY <1>1 DEF Base, Document, Documents, Objects
<1>2. CASE ed # IV
  BY <1>2 DEF Base, Document, Documents, Objects
<1>. QED  BY <1>1, <1>2

\* The function f with another value for o.
With(f, o, n) == [f EXCEPT ![o] = n]

\* A command does what it says to the document of its editor and nothing to the others.
LEMMA GivenIs ==
  ASSUME NEW se \in Sessions, NEW s, Base(s, se), NEW ed \in Editors, NEW o \in Objects(ed),
         NEW n \in Names \cup {None}, ed # IV => o \in Present(se)
  PROVE  LET t == Given(s, o, n)
         IN  /\ Base(t, se) /\ Runs(s, t) /\ \A e \in Editors : SameIn(s, t, e)
             /\ Document(t, ed) = With(Document(s, ed), o, n)
             /\ \A e \in Editors \ {ed} : Document(t, e) = Document(s, e)
             /\ ed = IV => t.title = With(s.title, o, n) /\ t.name = s.name
             /\ ed # IV => t.name = With(s.name, o, n) /\ t.title = s.title
<1>. DEFINE t == Given(s, o, n)
<1>0. s = [title |-> s.title, name |-> s.name, stack |-> s.stack, index |-> s.index,
           redoing |-> s.redoing, alive |-> s.alive, full |-> s.full, views |-> s.views]
  BY DEF Base
<1>1. CASE ed = IV
  <2>1. o \in Functions \cup Interfaces /\ o \notin Range(Instances)
    BY <1>1, SyncAssumption DEF Objects
  <2>2. t = [s EXCEPT !.title = [s.title EXCEPT ![o] = n]]
    BY <2>1 DEF Given
  <2>. DEFINE ti == [s.title EXCEPT ![o] = n]
  <2>. HIDE DEF ti, t
  <2>3. t = [title |-> ti, name |-> s.name, stack |-> s.stack, index |-> s.index,
             redoing |-> s.redoing, alive |-> s.alive, full |-> s.full, views |-> s.views]
    BY <1>0, <2>2 DEF ti
  <2>4. /\ t.title = ti /\ t.name = s.name /\ t.stack = s.stack /\ t.index = s.index
        /\ t.redoing = s.redoing /\ t.alive = s.alive /\ t.views = s.views
    BY <2>3
  <2>5. ti \in [Functions \cup Interfaces -> Names \cup {None}]
    BY <2>1 DEF Base, ti
  <2>6. Base(t, se)
    BY <2>3, <2>4, <2>5 DEF Base
  <2>7. Runs(s, t) /\ \A e \in Editors : SameIn(s, t, e)
    BY <2>4 DEF Runs, SameIn, Base
  <2>8. /\ Document(t, ed) = [Document(s, ed) EXCEPT ![o] = n]
        /\ \A e \in Editors \ {ed} : Document(t, e) = Document(s, e)
    BY <1>1, <2>4 DEF Document, ti
  <2>. QED  BY <1>1, <2>4, <2>6, <2>7, <2>8 DEF With, t, ti
<1>2. CASE ed # IV
  <2>1. o \in Range(Instances) /\ CoreOf[o] = ed
    BY <1>2 DEF Objects
  <2>2. t = [s EXCEPT !.name = [s.name EXCEPT ![o] = n]]
    BY <2>1 DEF Given
  <2>. DEFINE na == [s.name EXCEPT ![o] = n]
  <2>. HIDE DEF na, t
  <2>3. t = [title |-> s.title, name |-> na, stack |-> s.stack, index |-> s.index,
             redoing |-> s.redoing, alive |-> s.alive, full |-> s.full, views |-> s.views]
    BY <1>0, <2>2 DEF na
  <2>4. /\ t.title = s.title /\ t.name = na /\ t.stack = s.stack /\ t.index = s.index
        /\ t.redoing = s.redoing /\ t.alive = s.alive /\ t.views = s.views
    BY <2>3
  <2>5. /\ na \in [Range(Instances) -> Names \cup {None}]
        /\ \A i \in Range(Instances) : na[i] # None => i \in Present(se)
    BY <1>2, <2>1 DEF Base, na
  <2>6. Base(t, se)
    BY <2>3, <2>4, <2>5 DEF Base
  <2>7. Runs(s, t) /\ \A e \in Editors : SameIn(s, t, e)
    BY <2>4 DEF Runs, SameIn, Base
  <2>8. /\ Document(t, ed) = [Document(s, ed) EXCEPT ![o] = n]
        /\ \A e \in Editors \ {ed} : Document(t, e) = Document(s, e)
    BY <1>2, <2>1, <2>4 DEF Document, na, Base
  <2>. QED  BY <1>2, <2>4, <2>6, <2>7, <2>8 DEF With, t, na
<1>. QED  BY <1>1, <1>2

\* A command that nobody follows: its editor stays sound if the command is about what it
\* shows, and the others do not notice.
LEMMA UnfollowedIs ==
  ASSUME NEW se \in Sessions, NEW s, Base(s, se), NEW ed \in Editors, NEW c \in CommandsOf(ed, se),
         NEW t, t = PushUnfollowed(s, ed, c)
  PROVE  /\ Base(t, se) /\ Runs(s, t)
         /\ Document(t, ed) = With(Document(s, ed), c.o, c.new)
         /\ \A e \in Editors \ {ed} : SameIn(s, t, e) /\ Document(t, e) = Document(s, e)
         /\ ed = IV => t.title = With(s.title, c.o, c.new) /\ t.name = s.name
         /\ ed # IV => t.name = With(s.name, c.o, c.new) /\ t.title = s.title
         /\ Sound(s, ed, se) /\ Document(s, ed)[c.o] = c.old /\ Fine(ed, Document(t, ed), se)
              => Sound(t, ed, se)
<1>. DEFINE r == Given(s, c.o, c.new)
            x == With(Document(s, ed), c.o, c.new)
<1>1. c.o \in Objects(ed) /\ c.new \in Names \cup {None} /\ (ed # IV => c.o \in Present(se))
  BY CommandsAre
<1>2. /\ Base(r, se) /\ Runs(s, r) /\ \A e \in Editors : SameIn(s, r, e)
      /\ Document(r, ed) = x
      /\ \A e \in Editors \ {ed} : Document(r, e) = Document(s, e)
      /\ ed = IV => r.title = With(s.title, c.o, c.new) /\ r.name = s.name
      /\ ed # IV => r.name = With(s.name, c.o, c.new) /\ r.title = s.title
  BY <1>1, GivenIs
<1>3. t = Pushed(r, ed, c)
  BY DEF PushUnfollowed
<1>. HIDE DEF r, x
<1>4. /\ Base(t, se) /\ Runs(r, t) /\ t.title = r.title /\ t.name = r.name
      /\ \A e \in Editors \ {ed} : SameIn(r, t, e)
  BY <1>2, <1>3, PushedIs
<1>5. \A e : Document(t, e) = Document(r, e)
  BY <1>4 DEF Document
<1>6. Runs(s, t)
  BY <1>2, <1>4, RunsOn
<1>7. \A e \in Editors \ {ed} : SameIn(s, t, e)
  BY <1>2, <1>4 DEF SameIn
<1>8. ASSUME Sound(s, ed, se), Document(s, ed)[c.o] = c.old, Fine(ed, Document(t, ed), se)
      PROVE  Sound(t, ed, se)
  <2>1. Stands(r, ed, se, Document(s, ed))
    BY <1>2, <1>8, SameStands DEF Sound
  <2>2. Leads(Document(s, ed), c, Document(r, ed)) /\ Fine(ed, Document(r, ed), se)
    BY <1>2, <1>5, <1>8 DEF Leads, With, x
  <2>3. Document(r, ed) \in Documents(ed)
    BY <1>2, DocumentsAre
  <2>. QED  BY <1>2, <1>3, <2>1, <2>2, <2>3, PushedSound
<1>. QED  BY <1>2, <1>4, <1>5, <1>6, <1>7, <1>8 DEF x
-------------------------------------------------------------------------------
(* The instances that get a name or are removed.                                *)

\* The names when those in G that had one of These have another.
Renamed(s, t, G, These, new) ==
  \A i \in Range(Instances) : t.name[i] = IF i \in G /\ s.name[i] \in These THEN new ELSE s.name[i]

\* The editor e is not asked.
Unasked(s, e, These) == \A i \in Range(Instances) : s.name[i] \in These => CoreOf[i] # e

\* No chart gets two instances of one name.
Clear(s, e, These, new, se) ==
  e # IV /\ new # None /\ Updating(se) =>
    \A i, j \in Objects(e) :
      s.name[i] \in These /\ Chart[i] = Chart[j] /\ i # j => s.name[j] \notin These \cup {new}

LEMMA SoundIsFine ==
  ASSUME NEW se \in Sessions, NEW s, Base(s, se), NEW e \in Editors, Sound(s, e, se)
  PROVE  Fine(e, Document(s, e), se)
<1>1. s.index[e] \in Nat /\ s.index[e] <= Len(s.stack[e]) /\ Len(s.stack[e]) \in Nat
  BY LenProperties DEF Base
<1>2. s.index[e] + 1 \in 1..(Len(s.stack[e]) + 1)
  BY <1>1
<1>. QED  BY <1>2 DEF Sound, Stands

LEMMA RenamedIsFine ==
  ASSUME NEW se \in Sessions, NEW s, Base(s, se), NEW e \in Editors, Sound(s, e, se),
         NEW t, Base(t, se), NEW G, NEW These, NEW new, Renamed(s, t, G, These, new),
         t.title = s.title, Clear(s, e, These, new, se)
  PROVE  Fine(e, Document(t, e), se)
<1>1. Fine(e, Document(s, e), se)
  BY SoundIsFine
<1>2. CASE e = IV
  BY <1>1, <1>2 DEF Document
<1>3. CASE e # IV
  <2>. SUFFICES ASSUME Updating(se), NEW i \in Objects(e), NEW j \in Objects(e), Chart[i] = Chart[j],
                       Document(t, e)[i] # None, Document(t, e)[i] = Document(t, e)[j], i # j
                PROVE  FALSE
    BY <1>3 DEF Fine
  <2>1. i \in Range(Instances) /\ j \in Range(Instances)
    BY <1>3 DEF Objects
  <2>2. /\ Document(t, e)[i] = t.name[i] /\ Document(t, e)[j] = t.name[j]
        /\ Document(s, e)[i] = s.name[i] /\ Document(s, e)[j] = s.name[j]
    BY <1>3 DEF Document, Objects
  <2>3. /\ t.name[i] = IF i \in G /\ s.name[i] \in These THEN new ELSE s.name[i]
        /\ t.name[j] = IF j \in G /\ s.name[j] \in These THEN new ELSE s.name[j]
    BY <2>1 DEF Renamed
  <2>4. CASE t.name[i] = s.name[i] /\ t.name[j] = s.name[j]
    BY <1>1, <1>3, <2>2, <2>4 DEF Fine
  <2>5. CASE i \in G /\ s.name[i] \in These
    <3>1. new # None
      BY <2>2, <2>3, <2>5
    <3>2. s.name[j] \notin These /\ s.name[j] # new
      BY <1>3, <2>5, <3>1 DEF Clear
    <3>. QED  BY <2>2, <2>3, <2>5, <3>2
  <2>6. CASE j \in G /\ s.name[j] \in These
    <3>1. new # None
      BY <2>2, <2>3, <2>6
    <3>2. s.name[i] \notin These /\ s.name[i] # new
      BY <1>3, <2>6, <3>1 DEF Clear
    <3>. QED  BY <2>2, <2>3, <2>6, <3>2
  <2>. QED  BY <2>3, <2>4, <2>5, <2>6
<1>. QED  BY <1>2, <1>3

\* One instance is asked.
LEMMA AskedIs ==
  ASSUME NEW se \in Sessions, NEW s, Base(s, se), NEW i \in Range(Instances),
         NEW These \in SUBSET Names, NEW new \in Names \cup {None},
         new = None => ~Updating(se)
  PROVE  LET t == Asked(s, i, These, new)
         IN  /\ Base(t, se) /\ Runs(s, t) /\ t.title = s.title
             /\ t.name = With(s.name, i, IF s.name[i] \in These THEN new ELSE s.name[i])
             /\ \A e \in Editors : ~(s.name[i] \in These /\ CoreOf[i] = e) =>
                  SameIn(s, t, e) /\ Document(t, e) = Document(s, e)
             /\ \A e \in Editors : Sound(s, e, se) /\ Fine(e, Document(t, e), se) => Sound(t, e, se)
<1>. DEFINE t == Asked(s, i, These, new)
<1>0. s.name \in [Range(Instances) -> Names \cup {None}]
  BY DEF Base
<1>1. CASE s.name[i] \notin These
  <2>1. t = s
    BY <1>1 DEF Asked
  <2>2. s.name = With(s.name, i, s.name[i]) /\ Runs(s, s) /\ \A e : SameIn(s, s, e)
    BY <1>0, RunsStill DEF SameIn, With
  <2>. QED  BY <1>1, <2>1, <2>2
<1>2. CASE s.name[i] \in These
  <2>. DEFINE ed == CoreOf[i]
              c == IF new = None THEN Delete(i, s.name[i]) ELSE Rename(i, s.name[i], new)
  <2>1. ed \in Editors /\ ed # IV /\ s.name[i] \in Names /\ s.name[i] # None
    BY <1>2, EditorOf, SyncAssumption
  <2>2. i \in Present(se) /\ i \notin Functions
    BY <2>1, SyncAssumption DEF Base
  <2>3. c \in CommandsOf(ed, se) /\ c.o = i /\ c.old = s.name[i] /\ c.new = new
    <3>1. CASE new = None
      <4>1. c = [kind |-> "delete", o |-> i, old |-> s.name[i], new |-> None]
        BY <2>2, <3>1 DEF Delete
      <4>. HIDE DEF c
      <4>. QED  BY <2>1, <2>2, <3>1, <4>1 DEF CommandsOf, CommandsAt
    <3>2. CASE new # None
      <4>1. c = [kind |-> "name", o |-> i, old |-> s.name[i], new |-> new]
        BY <3>2 DEF Rename
      <4>. HIDE DEF c
      <4>. QED  BY <2>1, <2>2, <3>2, <4>1 DEF CommandsOf, CommandsAt
    <3>. QED  BY <3>1, <3>2
  <2>4. t = PushUnfollowed(s, ed, c)
    BY <1>2 DEF Asked
  <2>. HIDE DEF c, ed, t
  <2>5. /\ Base(t, se) /\ Runs(s, t)
        /\ \A e \in Editors \ {ed} : SameIn(s, t, e) /\ Document(t, e) = Document(s, e)
        /\ ed # IV => t.name = With(s.name, c.o, c.new) /\ t.title = s.title
        /\ Sound(s, ed, se) /\ Document(s, ed)[c.o] = c.old /\ Fine(ed, Document(t, ed), se)
             => Sound(t, ed, se)
    <3>1. ed \in Editors /\ c \in CommandsOf(ed, se)
      BY <2>1, <2>3
    <3>. QED  BY <2>4, <3>1, UnfollowedIs
  <2>6. Document(s, ed)[i] = s.name[i]
    BY <2>1 DEF Document, ed
  <2>7. \A e \in Editors : Sound(s, e, se) /\ Fine(e, Document(t, e), se) => Sound(t, e, se)
    <3>. SUFFICES ASSUME NEW e \in Editors, Sound(s, e, se), Fine(e, Document(t, e), se)
                  PROVE  Sound(t, e, se)
      OBVIOUS
    <3>1. CASE e = ed
      BY <2>3, <2>5, <2>6, <3>1
    <3>2. CASE e # ed
      BY <2>5, <3>2, SameStands DEF Sound
    <3>. QED  BY <3>1, <3>2
  <2>. QED  BY <1>2, <2>1, <2>3, <2>5, <2>7 DEF t, ed
<1>. QED  BY <1>1, <1>2

\* What has become of s when the instances in G were asked.
Followed(s, t, se, G, These, new) ==
  /\ Base(t, se) /\ Runs(s, t) /\ t.title = s.title /\ Renamed(s, t, G, These, new)
  /\ \A e \in Editors : Unasked(s, e, These) => SameIn(s, t, e)
  /\ \A e \in Editors : Sound(s, e, se) /\ Clear(s, e, These, new, se) => Sound(t, e, se)

LEMMA AskedNext ==
  ASSUME NEW se \in Sessions, NEW s, Base(s, se), NEW These \in SUBSET Names,
         NEW new \in Names \cup {None},
         new = None => ~Updating(se), NEW G, NEW t, Followed(s, t, se, G, These, new),
         NEW i \in Range(Instances), NEW u, u = Asked(t, i, These, new)
  PROVE  Followed(s, u, se, G \cup {i}, These, new)
<1>. DEFINE H == G \cup {i}
<1>1. Base(t, se) /\ Runs(s, t) /\ t.title = s.title /\ Renamed(s, t, G, These, new)
  BY DEF Followed
<1>2. /\ Base(u, se) /\ Runs(t, u) /\ u.title = t.title
      /\ u.name = With(t.name, i, IF t.name[i] \in These THEN new ELSE t.name[i])
      /\ \A e \in Editors : ~(t.name[i] \in These /\ CoreOf[i] = e) =>
           SameIn(t, u, e) /\ Document(u, e) = Document(t, e)
      /\ \A e \in Editors : Sound(t, e, se) /\ Fine(e, Document(u, e), se) => Sound(u, e, se)
  BY <1>1, AskedIs
<1>3. Runs(s, u)
  BY <1>1, <1>2, RunsOn
<1>4. Renamed(s, u, H, These, new)
  <2>. SUFFICES ASSUME NEW j \in Range(Instances)
                PROVE  u.name[j] = IF j \in H /\ s.name[j] \in These THEN new ELSE s.name[j]
    BY DEF Renamed
  <2>1. t.name[j] = IF j \in G /\ s.name[j] \in These THEN new ELSE s.name[j]
    BY <1>1 DEF Renamed
  <2>2. u.name[j] = IF j = i /\ t.name[i] \in These THEN new ELSE t.name[j]
    BY <1>1, <1>2 DEF With, Base
  <2>. QED  BY <2>1, <2>2
<1>. HIDE DEF H
<1>5. \A e \in Editors : Unasked(s, e, These) => SameIn(s, u, e)
  <2>. SUFFICES ASSUME NEW e \in Editors, Unasked(s, e, These)  PROVE SameIn(s, u, e)
    OBVIOUS
  <2>1. SameIn(s, t, e)
    BY DEF Followed
  <2>2. ~(t.name[i] \in These /\ CoreOf[i] = e)
    BY <1>1 DEF Renamed, Unasked
  <2>. QED  BY <1>2, <2>1, <2>2 DEF SameIn
<1>6. \A e \in Editors : Sound(s, e, se) /\ Clear(s, e, These, new, se) => Sound(u, e, se)
  <2>. SUFFICES ASSUME NEW e \in Editors, Sound(s, e, se), Clear(s, e, These, new, se)
                PROVE  Sound(u, e, se)
    OBVIOUS
  <2>1. Sound(t, e, se)
    BY DEF Followed
  <2>2. Fine(e, Document(u, e), se)
    BY <1>1, <1>2, <1>4, RenamedIsFine
  <2>. QED  BY <1>2, <2>1, <2>2
<1>. QED  BY <1>1, <1>2, <1>3, <1>4, <1>5, <1>6 DEF Followed, H

Asking(s, These, new, after, N) ==
  after = [n \in 0..N |-> IF n = 0 THEN s ELSE Asked(after[n - 1], Instances[n], These, new)]

LEMMA AskingExists ==
  ASSUME NEW s, NEW These, NEW new, NEW N \in Nat
  PROVE  \E after : Asking(s, These, new, after, N)
<1>. DEFINE Bad == {n \in Nat : ~\E after : Asking(s, These, new, after, n)}
<1>1. SUFFICES ASSUME Bad # {}  PROVE FALSE
  OBVIOUS
<1>2. PICK n \in Bad : \A m \in Bad : n <= m
  BY <1>1, LeastNat
<1>3. n # 0
  <2>. DEFINE w == [m \in 0..0 |-> s]
  <2>1. Asking(s, These, new, w, 0)
    BY DEF Asking
  <2>. QED  BY <2>1
<1>4. n - 1 \in Nat /\ n - 1 \notin Bad
  BY <1>2, <1>3
<1>5. PICK v : Asking(s, These, new, v, n - 1)
  BY <1>4
<1>. DEFINE w == [m \in 0..n |-> IF m = 0 THEN s
                                ELSE IF m < n THEN v[m] ELSE Asked(v[n - 1], Instances[n], These, new)]
<1>6. \A m \in 0..n : w[m] = IF m = 0 THEN s ELSE Asked(w[m - 1], Instances[m], These, new)
  <2>. SUFFICES ASSUME NEW m \in 0..n, m # 0  PROVE w[m] = Asked(w[m - 1], Instances[m], These, new)
    OBVIOUS
  <2>0. v[0] = s /\ m - 1 \in 0..(n - 1)
    BY <1>3, <1>5 DEF Asking
  <2>1. w[m - 1] = v[m - 1]
    BY <2>0
  <2>2. CASE m < n
    BY <1>5, <2>1, <2>2 DEF Asking
  <2>3. CASE m = n
    BY <2>1, <2>3
  <2>. QED  BY <2>2, <2>3
<1>7. Asking(s, These, new, w, n)
  <2>1. w = [m \in 0..n |-> w[m]]
    OBVIOUS
  <2>. HIDE DEF w
  <2>2. w = [m \in 0..n |-> IF m = 0 THEN s ELSE Asked(w[m - 1], Instances[m], These, new)]
    BY <1>6, <2>1
  <2>. QED  BY <2>2 DEF Asking
<1>. QED  BY <1>2, <1>7

\* The first n instances.
First(n) == {Instances[m] : m \in 1..n}

LEMMA AskingIs ==
  ASSUME NEW se \in Sessions, NEW s, Base(s, se), NEW These \in SUBSET Names,
         NEW new \in Names \cup {None},
         new = None => ~Updating(se), NEW after, Asking(s, These, new, after, Len(Instances)),
         NEW n \in 0..Len(Instances)
  PROVE  Followed(s, after[n], se, First(n), These, new)
<1>. DEFINE F(m) == Followed(s, after[m], se, First(m), These, new)
            Bad == {m \in 0..Len(Instances) : ~F(m)}
<1>0. Len(Instances) \in Nat /\ \A m \in 1..Len(Instances) : Instances[m] \in Range(Instances)
  BY SyncAssumption DEF Range
<1>1. F(0)
  <2>1. after[0] = s /\ First(0) = {}
    BY <1>0 DEF Asking, First
  <2>2. Renamed(s, s, {}, These, new) /\ Runs(s, s) /\ \A e : SameIn(s, s, e)
    BY RunsStill DEF Renamed, SameIn
  <2>. QED  BY <2>1, <2>2 DEF Followed
<1>2. SUFFICES ASSUME Bad # {}  PROVE FALSE
  OBVIOUS
<1>. HIDE DEF F
<1>3. PICK m \in Bad : \A k \in Bad : m <= k
  <2>1. Bad \in SUBSET Nat
    BY <1>0
  <2>. HIDE DEF Bad
  <2>. QED  BY <1>2, <2>1, LeastNat
<1>4. m - 1 \in 0..Len(Instances) /\ m \in 1..Len(Instances) /\ F(m - 1)
  <2>1. m # 0 /\ m \in 0..Len(Instances)
    BY <1>1, <1>3
  <2>2. m - 1 \in 0..Len(Instances) /\ m \in 1..Len(Instances)
    BY <1>0, <2>1
  <2>3. m - 1 \notin Bad
    BY <1>3, <2>2
  <2>. QED  BY <2>2, <2>3
<1>5. after[m] = Asked(after[m - 1], Instances[m], These, new)
  BY <1>4 DEF Asking
<1>6. First(m) = First(m - 1) \cup {Instances[m]}
  BY <1>4 DEF First
<1>7. F(m)
  BY <1>0, <1>4, <1>5, <1>6, AskedNext DEF F
<1>. QED  BY <1>3, <1>7

\* Everything is asked.
LEMMA AllAskedIs ==
  ASSUME NEW se \in Sessions, NEW s, Base(s, se), NEW These \in SUBSET Names,
         NEW new \in Names \cup {None},
         new = None => ~Updating(se)
  PROVE  Followed(s, AllAsked(s, These, new), se, Range(Instances), These, new)
<1>. DEFINE N == Len(Instances)
            after == CHOOSE f : Asking(s, These, new, f, N)
<1>1. N \in Nat /\ DOMAIN Instances = 1..N
  BY SyncAssumption
<1>2. Asking(s, These, new, after, N)
  BY <1>1, AskingExists
<1>3. AllAsked(s, These, new) = after[N]
  BY DEF AllAsked, Asking
<1>. HIDE DEF after
<1>4. First(N) = Range(Instances)
  BY <1>1 DEF First, Range
<1>5. Followed(s, after[N], se, First(N), These, new)
  <2>1. Len(Instances) \in 0..Len(Instances)
    BY <1>1
  <2>. QED  BY <1>2, <2>1, AskingIs
<1>. QED  BY <1>3, <1>4, <1>5

\* What is heard of each new name changes nothing if a function has it.
LEMMA HeardIs ==
  ASSUME NEW se \in Sessions, NEW s, Base(s, se), NEW i \in Range(Instances), NEW old \in Names,
         NEW new \in Names, NEW a, HasFunction(s, new)
  PROVE  Heard(s, i, old, new, a) = Asked(s, i, {old}, new)
<1>1. CASE s.name[i] # old
  BY <1>1 DEF Heard, Asked
<1>2. CASE s.name[i] = old
  <2>. DEFINE r == Given(s, i, new)
              c == Rename(i, old, new)
  <2>1. i \in Objects(CoreOf[i]) /\ i \in Present(se) /\ CoreOf[i] \in Editors /\ CoreOf[i] # IV
    <3>1. s.name[i] # None
      BY <1>2, SyncAssumption
    <3>. QED  BY <3>1, EditorOf DEF Base, Objects
  <2>2. r.name = With(s.name, i, new) /\ r.title = s.title
    BY <2>1, GivenIs
  <2>3. r.name[i] = new
    BY <2>2 DEF With, Base
  <2>4. HasFunction(r, new)
    BY <2>2 DEF HasFunction
  <2>. HIDE DEF r
  <2>5. OnMscEntityNameChanged(r, i, old, TRUE, a) = r
    BY <2>3, <2>4 DEF OnMscEntityNameChanged
  <2>6. Heard(s, i, old, new, a) = Pushed(r, CoreOf[i], c)
    BY <1>2, <2>5 DEF Heard, r
  <2>7. c.o = i /\ c.new = new /\ new # None
    BY SyncAssumption DEF Rename
  <2>8. Asked(s, i, {old}, new) = PushUnfollowed(s, CoreOf[i], c)
    BY <1>2, <2>7 DEF Asked
  <2>9. PushUnfollowed(s, CoreOf[i], c) = Pushed(r, CoreOf[i], c)
    BY <2>7 DEF PushUnfollowed, r
  <2>. QED  BY <2>6, <2>8, <2>9
<1>. QED  BY <1>1, <1>2

Hearing(s, old, new, a, after, N) ==
  after = [n \in 0..N |-> IF n = 0 THEN s ELSE Heard(after[n - 1], Instances[n], old, new, a)]

LEMMA AllHeardIs ==
  ASSUME NEW se \in Sessions, NEW s, Base(s, se), NEW old \in Names, NEW new \in Names, NEW a,
         HasFunction(s, new)
  PROVE  AllHeard(s, old, new, a) = AllAsked(s, {old}, new)
<1>. DEFINE N == Len(Instances)
            asked == CHOOSE f : Asking(s, {old}, new, f, N)
            heard == CHOOSE f : Hearing(s, old, new, a, f, N)
<1>1. N \in Nat /\ DOMAIN Instances = 1..N /\ N \in 0..N
  BY SyncAssumption
<1>2. Asking(s, {old}, new, asked, N)
  BY <1>1, AskingExists
<1>3. AllAsked(s, {old}, new) = asked[N] /\ AllHeard(s, old, new, a) = heard[N]
  BY DEF AllAsked, Asking, AllHeard, Hearing
<1>. HIDE DEF asked
<1>4. \A n \in 1..N : Heard(asked[n - 1], Instances[n], old, new, a)
                        = Asked(asked[n - 1], Instances[n], {old}, new)
  <2>. SUFFICES ASSUME NEW n \in 1..N
                PROVE  Heard(asked[n - 1], Instances[n], old, new, a)
                         = Asked(asked[n - 1], Instances[n], {old}, new)
    OBVIOUS
  <2>1. n - 1 \in 0..Len(Instances) /\ Instances[n] \in Range(Instances)
    BY <1>1 DEF Range
  <2>2. Followed(s, asked[n - 1], se, First(n - 1), {old}, new)
    <3>1. {old} \in SUBSET Names /\ new \in Names \cup {None} /\ new # None
      BY SyncAssumption
    <3>. QED  BY <1>2, <2>1, <3>1, AskingIs
  <2>3. Base(asked[n - 1], se) /\ HasFunction(asked[n - 1], new)
    BY <2>2 DEF Followed, HasFunction
  <2>. QED  BY <2>1, <2>3, HeardIs
<1>5. Hearing(s, old, new, a, asked, N)
  <2>1. asked = [n \in 0..N |-> asked[n]]
    BY <1>2 DEF Asking
  <2>2. \A n \in 0..N : asked[n] = IF n = 0 THEN s ELSE Heard(asked[n - 1], Instances[n], old, new, a)
    <3>. SUFFICES ASSUME NEW n \in 0..N
                  PROVE  asked[n] = IF n = 0 THEN s ELSE Heard(asked[n - 1], Instances[n], old, new, a)
      OBVIOUS
    <3>1. asked[n] = IF n = 0 THEN s ELSE Asked(asked[n - 1], Instances[n], {old}, new)
      BY <1>2 DEF Asking
    <3>2. n # 0 => n \in 1..N
      BY <1>1
    <3>. QED  BY <1>4, <3>1, <3>2
  <2>. QED  BY <2>1, <2>2 DEF Hearing
<1>6. Hearing(s, old, new, a, heard, N)
  BY <1>5
<1>. HIDE DEF heard
<1>. DEFINE Bad == {n \in 0..N : heard[n] # asked[n]}
<1>7. SUFFICES ASSUME Bad # {}  PROVE FALSE
  BY <1>1, <1>3
<1>8. PICK n \in Bad : \A m \in Bad : n <= m
  <2>1. Bad \in SUBSET Nat
    BY <1>1
  <2>. HIDE DEF Bad
  <2>. QED  BY <1>7, <2>1, LeastNat
<1>9. n # 0
  <2>1. heard[0] = s /\ asked[0] = s
    BY <1>1, <1>2, <1>6 DEF Asking, Hearing
  <2>. QED  BY <1>8, <2>1
<1>10. n - 1 \in 0..N /\ n \in 1..N /\ n - 1 \notin Bad
  BY <1>1, <1>8, <1>9
<1>11. heard[n - 1] = asked[n - 1]
  BY <1>10
<1>12. heard[n] = Heard(heard[n - 1], Instances[n], old, new, a)
  BY <1>6, <1>9, <1>10 DEF Hearing
<1>13. asked[n] = Heard(asked[n - 1], Instances[n], old, new, a)
  BY <1>5, <1>9, <1>10 DEF Hearing
<1>. QED  BY <1>8, <1>11, <1>12, <1>13
-------------------------------------------------------------------------------
(* The functions that are added or renamed.                                     *)

\* The charts have not changed.
LEMMA SameNames ==
  ASSUME NEW s, NEW t, t.name = s.name, NEW e \in Editors \ {IV}
  PROVE  Document(t, e) = Document(s, e)
  BY DEF Document

LEMMA SameSound ==
  ASSUME NEW s, NEW t, NEW se, NEW e, SameIn(s, t, e), Document(t, e) = Document(s, e),
         Sound(s, e, se)
  PROVE  Sound(t, e, se)
  BY SameStands DEF Sound

\* A function that gets a name which no function has is the only one with it.
LEMMA NewTitleIsFine ==
  ASSUME NEW se \in Sessions, NEW s, Base(s, se), Sound(s, IV, se), NEW n \in Names,
         NEW f \in Functions, \A g \in Functions : s.title[g] # n
  PROVE  Fine(IV, With(s.title, f, n), se)
<1>1. Fine(IV, s.title, se)
  <2>1. IV \in Editors /\ Document(s, IV) = s.title
    BY DEF Editors, Document
  <2>. QED  BY <2>1, SoundIsFine
<1>2. s.title \in [Functions \cup Interfaces -> Names \cup {None}]
  BY DEF Base
<1>. QED  BY <1>1, <1>2 DEF Fine, With

LEMMA NobodyHas ==
  ASSUME NEW s, NEW n \in Names, ~HasFunction(s, n)
  PROVE  \A g \in Functions : s.title[g] # n
<1>1. n # None
  BY SyncAssumption
<1>. QED  BY <1>1 DEF HasFunction

\* A command about a function that nobody follows and that leaves titles unique.
LEMMA FunctionGiven ==
  ASSUME NEW se \in Sessions, NEW s, Base(s, se), Sound(s, IV, se), NEW n \in Names,
         NEW f \in Functions, \A g \in Functions : s.title[g] # n,
         NEW c \in CommandsOf(IV, se), c.o = f, c.new = n, c.old = s.title[f],
         NEW t, t = PushUnfollowed(s, IV, c)
  PROVE  /\ Base(t, se) /\ Runs(s, t) /\ t.name = s.name /\ Sound(t, IV, se)
         /\ t.title = With(s.title, f, n)
         /\ \A e \in Editors \ {IV} : SameIn(s, t, e)
<1>1. IV \in Editors /\ Document(s, IV) = s.title /\ Document(t, IV) = t.title
  BY DEF Editors, Document
<1>2. /\ Base(t, se) /\ Runs(s, t) /\ t.name = s.name /\ t.title = With(s.title, f, n)
      /\ \A e \in Editors \ {IV} : SameIn(s, t, e)
      /\ Sound(s, IV, se) /\ Document(s, IV)[c.o] = c.old /\ Fine(IV, Document(t, IV), se)
           => Sound(t, IV, se)
  BY <1>1, UnfollowedIs
<1>3. Fine(IV, With(s.title, f, n), se)
  BY NewTitleIsFine
<1>. QED  BY <1>1, <1>2, <1>3

LEMMA AddFunctionIs ==
  ASSUME NEW se \in Sessions, NEW s, Base(s, se), Sound(s, IV, se), NEW n \in Names,
         ~HasFunction(s, n), ~Updating(se), NEW t, t = AddFunction(s, n)
  PROVE  /\ Base(t, se) /\ Runs(s, t) /\ t.name = s.name /\ Sound(t, IV, se)
         /\ \A e \in Editors \ {IV} : SameIn(s, t, e)
<1>1. CASE FreeFunctions(s) = {}
  <2>1. t = [s EXCEPT !.full = TRUE]
    BY <1>1 DEF AddFunction
  <2>2. s = [title |-> s.title, name |-> s.name, stack |-> s.stack, index |-> s.index,
             redoing |-> s.redoing, alive |-> s.alive, full |-> s.full, views |-> s.views]
    BY DEF Base
  <2>3. t = [title |-> s.title, name |-> s.name, stack |-> s.stack, index |-> s.index,
             redoing |-> s.redoing, alive |-> s.alive, full |-> TRUE, views |-> s.views]
    BY <2>1, <2>2
  <2>4. /\ t.title = s.title /\ t.name = s.name /\ t.stack = s.stack /\ t.index = s.index
        /\ t.redoing = s.redoing /\ t.alive = s.alive /\ t.views = s.views /\ t.full = TRUE
    BY <2>3
  <2>5. Base(t, se)
    BY <2>3, <2>4 DEF Base
  <2>6. Runs(s, t) /\ \A e \in Editors : SameIn(s, t, e)
    BY <2>4 DEF Runs, SameIn, Base
  <2>7. IV \in Editors /\ Document(t, IV) = Document(s, IV)
    BY <2>4 DEF Document, Editors
  <2>. QED  BY <2>4, <2>5, <2>6, <2>7, SameSound
<1>2. CASE FreeFunctions(s) # {}
  <2>. DEFINE f == CHOOSE g \in FreeFunctions(s) : TRUE
              c == Create(f, n)
  <2>1. f \in FreeFunctions(s)
    BY <1>2
  <2>. HIDE DEF f
  <2>2. f \in Functions /\ s.title[f] = None
    BY <2>1 DEF FreeFunctions
  <2>3. t = PushUnfollowed(s, IV, c)
    BY <1>2 DEF AddFunction, f
  <2>4. c = [kind |-> "function", o |-> f, old |-> None, new |-> n]
    BY <2>2 DEF Create
  <2>5. c \in CommandsOf(IV, se) /\ c.o = f /\ c.new = n /\ c.old = s.title[f]
    BY <2>2, <2>4 DEF CommandsOf, CommandsAt
  <2>. HIDE DEF c
  <2>. QED  BY <2>2, <2>3, <2>5, FunctionGiven, NobodyHas
<1>. QED  BY <1>1, <1>2

\* A function of the name old, without regard to case, has the name new instead.
Retitled(s, t, old, new) ==
  \E f \in Functions : /\ s.title[f] \in Names /\ Fold[s.title[f]] = Fold[old]
                        /\ t.title = With(s.title, f, new)

LEMMA RenameIVIs ==
  ASSUME NEW se \in Sessions, NEW s, Base(s, se), Sound(s, IV, se), NEW old \in Names,
         HasFunction(s, old), NEW new \in Names, ~HasFunction(s, new),
         NEW t, t = RenameIVFunction(s, old, new)
  PROVE  /\ Base(t, se) /\ Runs(s, t) /\ t.name = s.name /\ Sound(t, IV, se)
         /\ \A e \in Editors \ {IV} : SameIn(s, t, e)
         /\ Retitled(s, t, old, new)
<1>. DEFINE f == CHOOSE g \in Functions : s.title[g] # None /\ Fold[s.title[g]] = Fold[old]
            c == Rename(f, s.title[f], new)
<1>1. f \in Functions /\ s.title[f] # None /\ Fold[s.title[f]] = Fold[old]
  BY DEF HasFunction
<1>2. t = PushUnfollowed(s, IV, c)
  BY DEF RenameIVFunction
<1>. HIDE DEF f
<1>3. s.title[f] \in Names /\ f \notin Range(Instances)
  BY <1>1, SyncAssumption DEF Base
<1>4. c = [kind |-> "title", o |-> f, old |-> s.title[f], new |-> new]
  BY <1>3 DEF Rename
<1>5. c \in CommandsOf(IV, se) /\ c.o = f /\ c.new = new /\ c.old = s.title[f]
  BY <1>1, <1>3, <1>4 DEF CommandsOf, CommandsAt
<1>. HIDE DEF c
<1>6. \A g \in Functions : s.title[g] # new
  BY NobodyHas
<1>. QED  BY <1>1, <1>2, <1>3, <1>5, <1>6, FunctionGiven DEF Retitled

\* A function and the instances of its name get another.
LEMMA UpdateBothIs ==
  ASSUME NEW se \in Sessions, NEW s, Base(s, se), Sound(s, IV, se), NEW old \in Names,
         HasFunction(s, old), NEW new \in Names, ~HasFunction(s, new),
         NEW u, u = UpdateBoth(s, old, new)
  PROVE  /\ Base(u, se) /\ Runs(s, u) /\ Sound(u, IV, se)
         /\ Renamed(s, u, Range(Instances), {old}, new)
         /\ \A e \in Editors \ {IV} : Unasked(s, e, {old}) => SameIn(s, u, e)
         /\ \A e \in Editors \ {IV} :
              Sound(s, e, se) /\ Clear(s, e, {old}, new, se) => Sound(u, e, se)
         /\ Retitled(s, u, old, new)
<1>. DEFINE t == RenameIVFunction(s, old, new)
<1>1. /\ Base(t, se) /\ Runs(s, t) /\ t.name = s.name /\ Sound(t, IV, se)
      /\ \A e \in Editors \ {IV} : SameIn(s, t, e)
      /\ Retitled(s, t, old, new)
  BY RenameIVIs
<1>2. u = AllAsked(t, {old}, new)
  BY DEF UpdateBoth, ChangeInstanceName
<1>. HIDE DEF t
<1>3. Followed(t, u, se, Range(Instances), {old}, new)
  <2>1. {old} \in SUBSET Names /\ new \in Names \cup {None} /\ new # None
    BY SyncAssumption
  <2>. QED  BY <1>1, <1>2, <2>1, AllAskedIs
<1>4. Base(u, se) /\ Runs(s, u) /\ u.title = t.title
  BY <1>1, <1>3, RunsOn DEF Followed
<1>5. Renamed(s, u, Range(Instances), {old}, new)
  BY <1>1, <1>3 DEF Followed, Renamed
<1>6. Sound(u, IV, se)
  <2>1. IV \in Editors /\ Clear(t, IV, {old}, new, se)
    BY DEF Clear, Editors
  <2>. QED  BY <1>1, <1>3, <2>1 DEF Followed
<1>7. ASSUME NEW e \in Editors \ {IV}, Unasked(s, e, {old})  PROVE SameIn(s, u, e)
  <2>1. Unasked(t, e, {old})
    BY <1>1, <1>7 DEF Unasked
  <2>. QED  BY <1>1, <1>3, <2>1 DEF Followed, SameIn
<1>8. ASSUME NEW e \in Editors \ {IV}, Sound(s, e, se), Clear(s, e, {old}, new, se)
      PROVE  Sound(u, e, se)
  <2>1. Sound(t, e, se)
    BY <1>1, <1>8, SameSound, SameNames
  <2>2. Clear(t, e, {old}, new, se)
    BY <1>1, <1>8 DEF Clear
  <2>. QED  BY <1>3, <2>1, <2>2 DEF Followed
<1>9. Retitled(s, u, old, new)
  BY <1>1, <1>4 DEF Retitled
<1>. QED  BY <1>4, <1>5, <1>6, <1>7, <1>8, <1>9
-------------------------------------------------------------------------------
(* What the two sides hear.                                                     *)

\* An instance has a new name: what the user's other charts and the functions make of it.
Noticed(s, t, se, old, new) ==
  /\ Base(t, se) /\ Runs(s, t) /\ Sound(t, IV, se)
  /\ \A e \in Editors \ {IV} :
       HasFunction(s, new) \/ ~HasFunction(s, old) \/ Unasked(s, e, {old})
         => SameIn(s, t, e) /\ Document(t, e) = Document(s, e)
  /\ \A e \in Editors \ {IV} : Sound(s, e, se) /\ Clear(s, e, {old}, new, se) => Sound(t, e, se)

LEMMA OnMscIs ==
  ASSUME NEW se \in Sessions, NEW s, Base(s, se), Sound(s, IV, se), NEW i \in Range(Instances),
         NEW new \in Names, new = s.name[i], NEW old \in Names, NEW first, NEW a,
         Updating(se) => a.update = "update" /\ HasFunction(s, old),
         NEW t, t = OnMscEntityNameChanged(s, i, old, first, a)
  PROVE  Noticed(s, t, se, old, new)
<1>. DEFINE hasOld == HasFunction(s, old)
            hasNew == HasFunction(s, new)
            Goal == Noticed(s, t, se, old, new)
<1>1. ASSUME t = s  PROVE Goal
  BY <1>1, RunsStill DEF SameIn, Noticed
<1>2. ASSUME t = AddFunction(s, new), ~hasNew, ~Updating(se)  PROVE Goal
  <2>1. /\ Base(t, se) /\ Runs(s, t) /\ t.name = s.name /\ Sound(t, IV, se)
        /\ \A e \in Editors \ {IV} : SameIn(s, t, e)
    BY <1>2, AddFunctionIs
  <2>. QED  BY <2>1, SameNames, SameSound DEF Noticed
<1>3. ASSUME t = UpdateBoth(s, old, new), ~hasNew, hasOld  PROVE Goal
  <2>1. /\ Base(t, se) /\ Runs(s, t) /\ Sound(t, IV, se)
        /\ Renamed(s, t, Range(Instances), {old}, new)
        /\ \A e \in Editors \ {IV} : Unasked(s, e, {old}) => SameIn(s, t, e)
        /\ \A e \in Editors \ {IV} :
             Sound(s, e, se) /\ Clear(s, e, {old}, new, se) => Sound(t, e, se)
    BY <1>3, UpdateBothIs
  <2>2. \A e \in Editors \ {IV} : Unasked(s, e, {old}) => Document(t, e) = Document(s, e)
    BY <2>1 DEF Renamed, Unasked, Document
  <2>. QED  BY <1>3, <2>1, <2>2 DEF Noticed
<1>4. \/ t = s
      \/ t = AddFunction(s, new) /\ ~hasNew /\ ~Updating(se)
      \/ t = UpdateBoth(s, old, new) /\ ~hasNew /\ hasOld
  <2>1. CASE hasNew
    BY <2>1 DEF OnMscEntityNameChanged
  <2>2. CASE ~hasNew /\ ~hasOld
    BY <2>2 DEF OnMscEntityNameChanged
  <2>3. CASE ~hasNew /\ hasOld
    BY <2>3 DEF OnMscEntityNameChanged
  <2>. QED  BY <2>1, <2>2, <2>3
<1>5. Goal
  BY <1>1, <1>2, <1>3, <1>4
<1>. QED  BY <1>5

\* It has its function if everything is updated, and so have the others.
LEMMA OnMscFounds ==
  ASSUME NEW se \in Sessions, NEW s, Base(s, se), Sound(s, IV, se), NEW i \in Range(Instances),
         NEW new \in Names, new = s.name[i], NEW old \in Names, NEW first, NEW a, a.update = "update",
         \A m, n \in Names : Fold[m] = Fold[n] => m = n, HasFunction(s, old),
         \A j \in Range(Instances) : j # i /\ s.name[j] # None => HasFunction(s, s.name[j])
  PROVE  Founded(OnMscEntityNameChanged(s, i, old, first, a))
<1>1. CASE HasFunction(s, new)
  <2>1. OnMscEntityNameChanged(s, i, old, first, a) = s
    BY <1>1 DEF OnMscEntityNameChanged
  <2>. QED  BY <1>1, <2>1 DEF Founded
<1>2. CASE ~HasFunction(s, new)
  <2>. DEFINE t == UpdateBoth(s, old, new)
  <2>1. OnMscEntityNameChanged(s, i, old, first, a) = t
    BY <1>2 DEF OnMscEntityNameChanged
  <2>2. Base(t, se) /\ Renamed(s, t, Range(Instances), {old}, new) /\ Retitled(s, t, old, new)
    BY <1>2, UpdateBothIs
  <2>. HIDE DEF t
  <2>3. PICK f \in Functions : /\ s.title[f] \in Names /\ Fold[s.title[f]] = Fold[old]
                               /\ t.title = With(s.title, f, new)
    BY <2>2 DEF Retitled
  <2>4. s.title[f] = old /\ t.title[f] = new /\ new # None
        /\ \A g \in Functions : g # f => t.title[g] = s.title[g]
    BY <2>3, SyncAssumption DEF With, Base
  <2>. SUFFICES ASSUME NEW j \in Range(Instances), t.name[j] # None
                PROVE  HasFunction(t, t.name[j])
    BY <2>1 DEF Founded
  <2>5. t.name[j] = IF s.name[j] = old THEN new ELSE s.name[j]
    BY <2>2 DEF Renamed
  <2>6. CASE t.name[j] = new
    BY <2>4, <2>6 DEF HasFunction
  <2>7. CASE t.name[j] # new
    <3>1. t.name[j] = s.name[j] /\ s.name[j] # old /\ j # i /\ s.name[j] \in Names
      BY <2>5, <2>7 DEF Base
    <3>2. PICK g \in Functions : s.title[g] # None /\ Fold[s.title[g]] = Fold[s.name[j]]
      BY <3>1, SyncAssumption DEF HasFunction
    <3>3. g # f
      BY <2>4, <3>1, <3>2
    <3>. QED  BY <2>4, <3>1, <3>2, <3>3 DEF HasFunction
  <2>. QED  BY <2>6, <2>7
<1>. QED  BY <1>1, <1>2

\* A function has a new name.
Heeded(s, t, se, old, new, a) ==
  /\ Base(t, se) /\ Runs(s, t) /\ t.title = s.title /\ SameIn(s, t, IV)
  /\ \A e \in Editors : Sound(s, e, se) /\ Clear(s, e, {old}, new, se) => Sound(t, e, se)
  /\ a.instances => Renamed(s, t, Range(Instances), {old}, new)

LEMMA OnEntityIs ==
  ASSUME NEW se \in Sessions, NEW s, Base(s, se), NEW f \in Functions, s.title[f] \in Names,
         NEW new, new = s.title[f], NEW old \in Names, NEW first, NEW a,
         NEW t, t = OnEntityNameChanged(s, f, old, first, a)
  PROVE  Heeded(s, t, se, old, new, a)
<1>0. {old} \in SUBSET Names /\ new \in Names \cup {None} /\ new # None /\ IV \in Editors
  BY SyncAssumption DEF Editors
<1>1. CASE t = s /\ (a.instances => ~InstancesExist(s, old))
  <2>1. a.instances => Renamed(s, t, Range(Instances), {old}, new)
    BY <1>1 DEF Renamed, InstancesExist
  <2>. QED  BY <1>1, <2>1, RunsStill DEF SameIn, Heeded
<1>2. CASE t = AllAsked(s, {old}, new)
  <2>1. Followed(s, t, se, Range(Instances), {old}, new)
    BY <1>0, <1>2, AllAskedIs
  <2>2. Unasked(s, IV, {old})
    BY EditorOf DEF Unasked
  <2>. QED  BY <1>0, <2>1, <2>2 DEF Followed, Heeded
<1>3. HasFunction(s, new)
  BY <1>0 DEF HasFunction
<1>4. AllHeard(s, old, new, a) = AllAsked(s, {old}, new)
  BY <1>3, AllHeardIs
<1>5. \/ t = s /\ (a.instances => ~InstancesExist(s, old))
      \/ t = AllAsked(s, {old}, new)
  BY <1>4 DEF OnEntityNameChanged, ChangeInstanceName
<1>. QED  BY <1>1, <1>2, <1>5

\* A function is removed.
LEMMA OnRemovedIs ==
  ASSUME NEW se \in Sessions, NEW s, Base(s, se), NEW title, ~Updating(se), NEW a,
         NEW t, t = OnEntitiesRemoved(s, title, a)
  PROVE  /\ Base(t, se) /\ Runs(s, t) /\ t.title = s.title /\ SameIn(s, t, IV)
         /\ \A e \in Editors : Sound(s, e, se) => Sound(t, e, se)
<1>1. CASE t = s
  BY <1>1, RunsStill DEF SameIn
<1>2. CASE t = RemoveMscInstances(s, title)
  <2>. DEFINE These == {n \in Names : Fold[n] = Fold[title]}
  <2>1. These \in SUBSET Names /\ None \in Names \cup {None} /\ IV \in Editors
    BY DEF Editors
  <2>2. t = AllAsked(s, These, None)
    BY <1>2 DEF RemoveMscInstances
  <2>. HIDE DEF These
  <2>3. Followed(s, t, se, Range(Instances), These, None)
    BY <2>1, <2>2, AllAskedIs
  <2>4. Unasked(s, IV, These)
    BY EditorOf DEF Unasked
  <2>5. \A e : Clear(s, e, These, None, se)
    BY DEF Clear
  <2>. QED  BY <2>1, <2>3, <2>4, <2>5 DEF Followed
<1>3. t = s \/ t = RemoveMscInstances(s, title)
  BY DEF OnEntitiesRemoved
<1>. QED  BY <1>1, <1>2, <1>3
-------------------------------------------------------------------------------
(* The commands.                                                                *)

\* The editor ed may do what gives its object o the name y instead of x.
Ready(s, ed, o, x, y, se) ==
  /\ Base(s, se) /\ Sound(s, IV, se)
  /\ Exact(se) => \A e \in Editors : Sound(s, e, se)
  /\ Updating(se) => Founded(s)
  /\ ed = IV \/ Exact(se) => Document(s, ed)[o] = x /\ Fine(ed, With(Document(s, ed), o, y), se)

\* It was done: its stack, where the session is exact, has not changed meanwhile.
Ran(s, t, ed, o, y, se) ==
  /\ Base(t, se) /\ Runs(s, t)
  /\ ed = IV \/ Exact(se) => SameIn(s, t, ed) /\ Document(t, ed) = With(Document(s, ed), o, y)
  /\ ed # IV => Sound(t, IV, se)
  /\ Exact(se) => \A e \in Editors \ {ed} : Sound(t, e, se)
  /\ Updating(se) => Founded(t)

\* The user's answers, one of which is a.
Answers(a, se) == Updating(se) => a.instances /\ a.update = "update"

\* Who updates has no two instances of a chart under one name, once a function has a new
\* name that no other has.
LEMMA TitleClear ==
  ASSUME NEW se \in Sessions, Updating(se), NEW s, Base(s, se), Founded(s),
         NEW e \in Editors \ {IV}, Sound(s, e, se), NEW f \in Functions,
         NEW x \in Names, s.title[f] = x, NEW y \in Names, x # y, Fine(IV, With(s.title, f, y), se),
         NEW r, r.name = s.name
  PROVE  Clear(r, e, {x}, y, se)
<1>. SUFFICES ASSUME NEW i \in Objects(e), NEW j \in Objects(e), s.name[i] = x, Chart[i] = Chart[j],
                     i # j, s.name[j] \in {x, y}
              PROVE  FALSE
  BY DEF Clear
<1>1. i \in Range(Instances) /\ j \in Range(Instances) /\ x # None /\ y # None
  BY SyncAssumption DEF Objects
<1>2. Document(s, e)[i] = s.name[i] /\ Document(s, e)[j] = s.name[j]
  BY DEF Document, Objects
<1>3. CASE s.name[j] = x
  <2>1. Fine(e, Document(s, e), se)
    BY SoundIsFine
  <2>. QED  BY <1>1, <1>2, <1>3, <2>1 DEF Fine
<1>4. CASE s.name[j] = y
  <2>1. PICK g \in Functions : s.title[g] # None /\ Fold[s.title[g]] = Fold[y]
    BY <1>1, <1>4 DEF Founded, HasFunction
  <2>2. s.title[g] = y
    BY <2>1 DEF Updating, Base
  <2>3. With(s.title, f, y)[f] = y /\ With(s.title, f, y)[g] = y
    BY <2>2 DEF With, Base
  <2>4. f = g
    BY <1>1, <2>3 DEF Fine
  <2>. QED  BY <2>2, <2>4
<1>. QED  BY <1>3, <1>4

LEMMA TitleFounds ==
  ASSUME NEW se \in Sessions, Updating(se), NEW s, Base(s, se), Founded(s), NEW f \in Functions,
         NEW x \in Names, s.title[f] = x, NEW y \in Names, NEW t, t.title = With(s.title, f, y),
         Renamed(s, t, Range(Instances), {x}, y)
  PROVE  Founded(t)
<1>. SUFFICES ASSUME NEW i \in Range(Instances), t.name[i] # None  PROVE HasFunction(t, t.name[i])
  BY DEF Founded
<1>1. t.name[i] = IF s.name[i] = x THEN y ELSE s.name[i]
  BY DEF Renamed
<1>2. t.title[f] = y /\ y # None /\ \A g \in Functions : g # f => t.title[g] = s.title[g]
  BY SyncAssumption DEF With, Base
<1>3. CASE s.name[i] = x
  BY <1>1, <1>2, <1>3 DEF HasFunction
<1>4. CASE s.name[i] # x
  <2>1. t.name[i] = s.name[i] /\ s.name[i] \in Names
    BY <1>1, <1>4 DEF Base
  <2>2. PICK g \in Functions : s.title[g] # None /\ Fold[s.title[g]] = Fold[s.name[i]]
    BY <2>1 DEF Founded, HasFunction
  <2>3. g # f
    BY <1>4, <2>1, <2>2 DEF Updating
  <2>. QED  BY <1>2, <2>1, <2>2, <2>3 DEF HasFunction
<1>. QED  BY <1>3, <1>4

\* What a command of the interface view does.
LEMMA ChangedInView ==
  ASSUME NEW se \in Sessions, NEW c \in CommandsOf(IV, se), NEW x, NEW y,
         (x = c.old /\ y = c.new) \/ (x = c.new /\ y = c.old),
         NEW s, Ready(s, IV, c.o, x, y, se), NEW first, NEW a, Answers(a, se)
  PROVE  Ran(s, Changed(s, c, x, y, first, a), IV, c.o, y, se)
<1>. DEFINE f == c.o
            r == Given(s, f, y)
<1>1. /\ IV \in Editors /\ f \in Functions /\ f \in Objects(IV) /\ y \in Names \cup {None}
      /\ c.kind = "title" => x \in Names /\ y \in Names
      /\ c.kind # "name" /\ (Updating(se) => c.kind = "title")
  BY CommandsAre DEF Editors
<1>2. /\ Base(s, se) /\ Sound(s, IV, se) /\ s.title[f] = x /\ Fine(IV, With(s.title, f, y), se)
      /\ Exact(se) => \A e \in Editors : Sound(s, e, se)
      /\ Updating(se) => Founded(s)
  <2>1. Document(s, IV) = s.title
    BY DEF Document
  <2>. QED  BY <2>1 DEF Ready
<1>3. /\ Base(r, se) /\ Runs(s, r) /\ \A e \in Editors : SameIn(s, r, e)
      /\ Document(r, IV) = With(Document(s, IV), f, y)
      /\ \A e \in Editors \ {IV} : Document(r, e) = Document(s, e)
      /\ r.title = With(s.title, f, y) /\ r.name = s.name
  BY <1>1, <1>2, GivenIs
<1>. HIDE DEF r, f
<1>4. Exact(se) => \A e \in Editors \ {IV} : Sound(r, e, se)
  BY <1>2, <1>3, SameSound
<1>5. CASE ~(c.kind = "title" /\ y # x)
  <2>1. Changed(s, c, x, y, first, a) = r
    BY <1>1, <1>5 DEF Changed, r, f
  <2>2. Updating(se) => Founded(r)
    <3>1. SUFFICES ASSUME Updating(se)  PROVE Founded(r)
      OBVIOUS
    <3>2. y = x
      BY <1>1, <1>5, <3>1
    <3>3. r.title = s.title
      BY <1>2, <1>3, <3>2 DEF With, Base
    <3>. QED  BY <1>2, <1>3, <3>1, <3>3 DEF Founded, HasFunction
  <2>. QED  BY <1>1, <1>3, <1>4, <2>1, <2>2 DEF Ran, f
<1>6. CASE c.kind = "title" /\ y # x
  <2>. DEFINE t == OnEntityNameChanged(r, f, x, first, a)
  <2>1. Changed(s, c, x, y, first, a) = t
    BY <1>6 DEF Changed, r, f
  <2>2. x \in Names /\ y \in Names /\ r.title[f] = y
    BY <1>1, <1>2, <1>3, <1>6 DEF With, Base
  <2>3. /\ Base(t, se) /\ Runs(r, t) /\ t.title = r.title /\ SameIn(r, t, IV)
        /\ \A e \in Editors : Sound(r, e, se) /\ Clear(r, e, {x}, y, se) => Sound(t, e, se)
        /\ a.instances => Renamed(r, t, Range(Instances), {x}, y)
    <3>1. Base(r, se) /\ f \in Functions /\ r.title[f] \in Names /\ y = r.title[f] /\ x \in Names
      BY <1>1, <1>3, <2>2
    <3>2. Heeded(r, t, se, x, y, a)
      BY <3>1, OnEntityIs
    <3>. HIDE DEF t
    <3>. QED  BY <3>2 DEF Heeded
  <2>. HIDE DEF t
  <2>4. Runs(s, t)
    BY <1>2, <1>3, <2>3, RunsOn
  <2>5. SameIn(s, t, IV) /\ Document(t, IV) = With(Document(s, IV), f, y)
    BY <1>1, <1>3, <2>3 DEF SameIn, Document
  <2>6. ASSUME Exact(se), NEW e \in Editors \ {IV}  PROVE Sound(t, e, se)
    <3>1. Clear(r, e, {x}, y, se)
      <4>1. CASE ~Updating(se)
        BY <4>1 DEF Clear
      <4>2. CASE Updating(se)
        BY <1>1, <1>2, <1>3, <1>6, <2>2, <2>6, <4>2, TitleClear
      <4>. QED  BY <4>1, <4>2
    <3>. QED  BY <1>4, <2>3, <2>6, <3>1
  <2>7. ASSUME Updating(se)  PROVE Founded(t)
    <3>1. Renamed(s, t, Range(Instances), {x}, y)
      BY <1>3, <2>3, <2>7 DEF Renamed, Answers
    <3>. QED  BY <1>1, <1>2, <1>3, <2>2, <2>3, <2>7, <3>1, TitleFounds
  <2>. QED  BY <2>1, <2>3, <2>4, <2>5, <2>6, <2>7 DEF Ran, f
<1>. QED  BY <1>5, <1>6

\* What a command of a chart does.
LEMMA ChangedInChart ==
  ASSUME NEW se \in Sessions, NEW ed \in Editors \ {IV}, NEW c \in CommandsOf(ed, se), NEW x, NEW y,
         (x = c.old /\ y = c.new) \/ (x = c.new /\ y = c.old),
         NEW s, Ready(s, ed, c.o, x, y, se), NEW first, NEW a, Answers(a, se)
  PROVE  Ran(s, Changed(s, c, x, y, first, a), ed, c.o, y, se)
<1>. DEFINE i == c.o
            r == Given(s, i, y)
<1>1. /\ i \in Objects(ed) /\ i \in Present(se) /\ ed = CoreOf[i] /\ y \in Names \cup {None}
      /\ c.kind = "name" => x \in Names /\ y \in Names
      /\ c.kind # "title" /\ (Updating(se) => c.kind = "name") /\ IV \in Editors
  BY CommandsAre DEF Editors
<1>2. /\ Base(s, se) /\ Sound(s, IV, se)
      /\ Exact(se) => /\ \A e \in Editors : Sound(s, e, se)
                      /\ Document(s, ed)[i] = x /\ Fine(ed, With(Document(s, ed), i, y), se)
      /\ Updating(se) => Founded(s)
  BY DEF Ready
<1>3. /\ Base(r, se) /\ Runs(s, r) /\ \A e \in Editors : SameIn(s, r, e)
      /\ Document(r, ed) = With(Document(s, ed), i, y)
      /\ \A e \in Editors \ {ed} : Document(r, e) = Document(s, e)
      /\ r.name = With(s.name, i, y) /\ r.title = s.title
  BY <1>1, <1>2, GivenIs
<1>4. i \in Range(Instances) /\ Document(s, ed)[i] = s.name[i]
  BY <1>1 DEF Objects, Document
<1>. HIDE DEF r, i
<1>5. Sound(r, IV, se) /\ (Exact(se) => \A e \in Editors \ {ed} : Sound(r, e, se))
  BY <1>1, <1>2, <1>3, SameSound
<1>6. CASE c.kind # "name"
  <2>1. Changed(s, c, x, y, first, a) = r /\ ~Updating(se)
    BY <1>1, <1>6 DEF Changed, r, i
  <2>. QED  BY <1>3, <1>5, <2>1 DEF Ran, i
<1>7. CASE c.kind = "name"
  <2>. DEFINE t == OnMscEntityNameChanged(r, i, x, first, a)
  <2>1. Changed(s, c, x, y, first, a) = t
    BY <1>7 DEF Changed, r, i
  <2>2. x \in Names /\ y \in Names /\ r.name[i] = y /\ x # None
    BY <1>1, <1>3, <1>4, <1>7, <1>2, SyncAssumption DEF With, Base
  <2>3. Updating(se) => a.update = "update" /\ HasFunction(r, x) /\ Exact(se) /\ s.name[i] = x
    <3>1. SUFFICES ASSUME Updating(se)
                   PROVE  a.update = "update" /\ HasFunction(r, x) /\ Exact(se) /\ s.name[i] = x
      OBVIOUS
    <3>2. Exact(se) /\ s.name[i] = x /\ a.update = "update"
      BY <1>2, <1>4, <3>1 DEF Exact, Answers
    <3>3. HasFunction(s, x)
      BY <1>2, <1>4, <2>2, <3>1, <3>2 DEF Founded
    <3>. QED  BY <1>3, <3>2, <3>3 DEF HasFunction
  <2>4. Noticed(r, t, se, x, y)
    BY <1>3, <1>4, <1>5, <2>2, <2>3, OnMscIs
  <2>5. Updating(se) => Founded(t)
    <3>1. SUFFICES ASSUME Updating(se)  PROVE Founded(t)
      OBVIOUS
    <3>2. \A j \in Range(Instances) : j # i /\ r.name[j] # None => HasFunction(r, r.name[j])
      <4>. SUFFICES ASSUME NEW j \in Range(Instances), j # i, r.name[j] # None
                    PROVE  HasFunction(r, r.name[j])
        OBVIOUS
      <4>1. r.name[j] = s.name[j]
        BY <1>2, <1>3 DEF With, Base
      <4>2. HasFunction(s, s.name[j])
        BY <1>2, <3>1, <4>1 DEF Founded
      <4>. QED  BY <1>3, <4>1, <4>2 DEF HasFunction
    <3>3. \A m, n \in Names : Fold[m] = Fold[n] => m = n
      BY <3>1 DEF Updating
    <3>. QED  BY <1>3, <1>4, <1>5, <2>2, <2>3, <3>1, <3>2, <3>3, OnMscFounds
  <2>. HIDE DEF t
  <2>6. Base(t, se) /\ Runs(s, t) /\ Sound(t, IV, se)
    BY <1>2, <1>3, <2>4, RunsOn DEF Noticed
  <2>7. ASSUME Exact(se), NEW j \in Objects(ed), j # i, s.name[j] = x  PROVE FALSE
    <3>1. j \in Range(Instances) /\ CoreOf[j] = CoreOf[i] /\ j \in Present(se)
      BY <1>1, <1>2, <2>2, <2>7 DEF Objects, Base
    <3>2. CASE Alone(se)
      BY <1>1, <2>7, <3>1, <3>2 DEF Alone
    <3>3. CASE Updating(se)
      <4>1. Chart[j] = Chart[i]
        BY <1>1, <3>1, <3>3 DEF Updating
      <4>2. Fine(ed, Document(s, ed), se)
        BY <1>2, <2>7, SoundIsFine
      <4>3. Document(s, ed)[j] = s.name[j]
        BY <2>7 DEF Document, Objects
      <4>. QED  BY <1>1, <1>4, <2>2, <2>3, <2>7, <3>3, <4>1, <4>2, <4>3 DEF Fine
    <3>. QED  BY <2>7, <3>2, <3>3 DEF Exact
  <2>8. ASSUME Exact(se)  PROVE SameIn(s, t, ed) /\ Document(t, ed) = With(Document(s, ed), i, y)
    <3>1. HasFunction(r, y) \/ ~HasFunction(r, x) \/ Unasked(r, ed, {x})
      <4>1. CASE x = y
        BY <4>1
      <4>2. CASE x # y
        <5>. SUFFICES ASSUME NEW j \in Range(Instances), r.name[j] = x, CoreOf[j] = ed  PROVE FALSE
          BY DEF Unasked
        <5>1. j \in Objects(ed)
          BY DEF Objects
        <5>2. j # i /\ s.name[j] = x
          BY <1>3, <2>2, <4>2 DEF With, Base
        <5>. QED  BY <2>7, <2>8, <5>1, <5>2
      <4>. QED  BY <4>1, <4>2
    <3>2. SameIn(r, t, ed) /\ Document(t, ed) = Document(r, ed)
      BY <2>4, <3>1 DEF Noticed
    <3>. QED  BY <1>3, <3>2 DEF SameIn
  <2>9. ASSUME Exact(se), NEW e \in Editors \ {ed}  PROVE Sound(t, e, se)
    <3>1. CASE e = IV
      BY <2>6, <3>1
    <3>2. CASE e # IV /\ HasFunction(r, y)
      <4>1. SameIn(r, t, e) /\ Document(t, e) = Document(r, e)
        BY <2>4, <3>2 DEF Noticed
      <4>. QED  BY <1>5, <2>9, <4>1, SameSound
    <3>3. CASE e # IV /\ ~HasFunction(r, y)
      <4>1. Clear(r, e, {x}, y, se)
        <5>. SUFFICES ASSUME Updating(se), NEW j \in Objects(e), NEW k \in Objects(e), r.name[j] = x,
                             Chart[j] = Chart[k], j # k, r.name[k] \in {x, y}
                      PROVE  FALSE
          BY DEF Clear
        <5>1. j # i /\ k # i /\ j \in Range(Instances) /\ k \in Range(Instances)
          BY <1>1, <2>9, <3>3 DEF Objects
        <5>2. s.name[j] = r.name[j] /\ s.name[k] = r.name[k]
          BY <1>3, <5>1 DEF With, Base
        <5>3. Document(s, e)[j] = s.name[j] /\ Document(s, e)[k] = s.name[k]
          BY <3>3 DEF Document, Objects
        <5>4. CASE r.name[k] = x
          <6>1. Fine(e, Document(s, e), se)
            BY <1>2, <2>9, SoundIsFine
          <6>. QED  BY <2>2, <3>3, <5>2, <5>3, <5>4, <6>1 DEF Fine
        <5>5. CASE r.name[k] = y
          <6>1. HasFunction(s, y)
            BY <1>2, <2>2, <5>1, <5>2, <5>5, SyncAssumption DEF Founded
          <6>. QED  BY <1>3, <3>3, <6>1 DEF HasFunction
        <5>. QED  BY <5>4, <5>5
      <4>. QED  BY <1>5, <2>4, <2>9, <3>3, <4>1 DEF Noticed
    <3>. QED  BY <3>1, <3>2, <3>3
  <2>. QED  BY <2>1, <2>5, <2>6, <2>8, <2>9 DEF Ran, i
<1>. QED  BY <1>6, <1>7

LEMMA ChangedIs ==
  ASSUME NEW se \in Sessions, NEW ed \in Editors, NEW c \in CommandsOf(ed, se), NEW x, NEW y,
         (x = c.old /\ y = c.new) \/ (x = c.new /\ y = c.old),
         NEW s, Ready(s, ed, c.o, x, y, se), NEW first, NEW a, Answers(a, se)
  PROVE  Ran(s, Changed(s, c, x, y, first, a), ed, c.o, y, se)
  BY ChangedInView, ChangedInChart

LEMMA RedoIs ==
  ASSUME NEW se \in Sessions, NEW ed \in Editors, NEW c \in CommandsOf(ed, se),
         NEW s, Ready(s, ed, c.o, c.old, c.new, se), NEW first, NEW a, Answers(a, se)
  PROVE  Ran(s, Redo(s, c, first, a), ed, c.o, c.new, se)
<1>. DEFINE r == Changed(s, c, c.old, c.new, first, a)
            o == c.o
            y == c.new
<1>1. Ran(s, r, ed, o, y, se)
  BY ChangedIs
<1>2. CASE c.kind # "remove"
  <2>1. Redo(s, c, first, a) = r
    BY <1>2 DEF Redo
  <2>. QED  BY <1>1, <2>1
<1>3. CASE c.kind = "remove"
  <2>. DEFINE t == OnEntitiesRemoved(r, c.old, a)
  <2>1. Redo(s, c, first, a) = t
    BY <1>3 DEF Redo
  <2>2. ed = IV /\ ~Updating(se)
    BY <1>3, CommandsAre
  <2>. HIDE DEF r
  <2>3. Base(r, se) /\ Base(s, se)
    BY <1>1 DEF Ran, Ready
  <2>4. /\ Base(t, se) /\ Runs(r, t) /\ t.title = r.title /\ SameIn(r, t, IV)
        /\ \A e \in Editors : Sound(r, e, se) => Sound(t, e, se)
    BY <2>2, <2>3, OnRemovedIs
  <2>. HIDE DEF t, o, y
  <2>5. Runs(s, t)
    BY <1>1, <2>3, <2>4, RunsOn DEF Ran
  <2>6. Ran(s, t, ed, o, y, se)
    BY <1>1, <2>2, <2>4, <2>5 DEF Ran, SameIn, Document
  <2>. QED  BY <2>1, <2>6 DEF o, y
<1>. QED  BY <1>2, <1>3
-------------------------------------------------------------------------------
(* The steps.                                                                   *)

\* The editor that ran a command is sound if its stack is; the others are as they were.
LEMMA AllHold ==
  ASSUME NEW se \in Sessions, NEW ed \in Editors, NEW r, Base(r, se), NEW t,
         t.title = r.title, t.name = r.name, \A e \in Editors \ {ed} : SameIn(r, t, e),
         ed # IV => Sound(r, IV, se), Exact(se) => \A e \in Editors \ {ed} : Sound(r, e, se),
         Updating(se) => Founded(r), ed = IV \/ Exact(se) => Good(t, ed, se),
         t.alive => Base(t, se)
  PROVE  Holds(t, se)
<1>1. \A e : Document(t, e) = Document(r, e)
  BY DEF Document
<1>2. \A e \in Editors \ {ed} : Sound(r, e, se) => Good(t, e, se)
  BY <1>1, SameSound, SoundIsFine DEF Good
<1>3. IV \in Editors
  BY DEF Editors
<1>4. Updating(se) => Founded(t)
  BY DEF Founded, HasFunction
<1>. QED  BY <1>2, <1>3, <1>4 DEF Holds

LEMMA PushHolds ==
  ASSUME NEW se \in Sessions, NEW ed \in Editors, NEW c \in CommandsOf(ed, se),
         NEW s, Ready(s, ed, c.o, c.old, c.new, se), NEW a, Answers(a, se)
  PROVE  Base(Push(s, ed, c, a), se) /\ Holds(Push(s, ed, c, a), se)
<1>. DEFINE r == Redo(s, c, TRUE, a)
            t == Pushed(r, ed, c)
            o == c.o
            y == c.new
<1>1. Ran(s, r, ed, o, y, se)
  BY RedoIs
<1>2. Push(s, ed, c, a) = t
  BY DEF Push
<1>3. o \in Objects(ed) /\ c.old \in Names \cup {None} /\ y \in Names \cup {None}
  BY CommandsAre
<1>. HIDE DEF r
<1>4. Base(r, se)
  BY <1>1 DEF Ran
<1>5. /\ Base(t, se) /\ t.title = r.title /\ t.name = r.name
      /\ \A e \in Editors \ {ed} : SameIn(r, t, e)
  BY <1>4, PushedIs
<1>6. ASSUME ed = IV \/ Exact(se)  PROVE Good(t, ed, se)
  <2>1. /\ SameIn(s, r, ed) /\ Document(r, ed) = With(Document(s, ed), o, y)
        /\ Document(s, ed)[o] = c.old /\ Fine(ed, With(Document(s, ed), o, y), se)
        /\ Sound(s, ed, se)
    BY <1>1, <1>6 DEF Ran, Ready
  <2>2. Stands(r, ed, se, Document(s, ed))
    BY <2>1, SameStands DEF Sound
  <2>3. Leads(Document(s, ed), c, Document(r, ed))
    BY <2>1 DEF Leads, With
  <2>4. Document(r, ed) \in Documents(ed)
    BY <1>4, DocumentsAre
  <2>5. Sound(t, ed, se)
    BY <1>4, <2>1, <2>2, <2>3, <2>4, PushedSound
  <2>. QED  BY <1>5, <2>5, SoundIsFine DEF Good
<1>. HIDE DEF t, o, y
<1>7. Holds(t, se)
  <2>1. /\ ed # IV => Sound(r, IV, se)
        /\ Exact(se) => \A e \in Editors \ {ed} : Sound(r, e, se)
        /\ Updating(se) => Founded(r)
    BY <1>1 DEF Ran
  <2>. QED  BY <1>4, <1>5, <1>6, <2>1, AllHold
<1>. QED  BY <1>2, <1>5, <1>7

\* The index of ed is set to m, and the run is over.
Moved(r, t, ed, m) ==
  /\ t = [title |-> r.title, name |-> r.name, stack |-> r.stack, index |-> [r.index EXCEPT ![ed] = m],
          redoing |-> t.redoing, alive |-> r.alive, full |-> r.full, views |-> r.views]

LEMMA MovedHolds ==
  ASSUME NEW se \in Sessions, NEW ed \in Editors, NEW m \in Nat, NEW o, NEW y, NEW s, NEW r, NEW t,
         Ran(s, r, ed, o, y, se), Moved(r, t, ed, m), r.alive => m <= Len(r.stack[ed]),
         ed = IV \/ Exact(se) =>
           /\ Sound(s, ed, se) /\ s.views[ed][m + 1] = With(Document(s, ed), o, y)
           /\ Fine(ed, With(Document(s, ed), o, y), se)
  PROVE  Holds(t, se)
<1>1. Base(r, se)
  BY DEF Ran
<1>2. /\ t.title = r.title /\ t.name = r.name /\ t.stack = r.stack /\ t.views = r.views
      /\ t.alive = r.alive /\ t.index = [r.index EXCEPT ![ed] = m]
      /\ t = [title |-> t.title, name |-> t.name, stack |-> t.stack, index |-> t.index,
              redoing |-> t.redoing, alive |-> t.alive, full |-> t.full, views |-> t.views]
  BY DEF Moved
<1>3. t.index[ed] = m /\ \A e \in Editors \ {ed} : SameIn(r, t, e)
  BY <1>1, <1>2 DEF SameIn, Base
<1>4. ASSUME t.alive  PROVE Base(t, se)
  <2>1. \A e \in Editors : t.stack[e] \in Seq(CommandsOf(e, se)) /\ t.index[e] <= Len(t.stack[e])
    <3>. SUFFICES ASSUME NEW e \in Editors
                  PROVE  t.stack[e] \in Seq(CommandsOf(e, se)) /\ t.index[e] <= Len(t.stack[e])
      OBVIOUS
    <3>1. r.stack[e] \in Seq(CommandsOf(e, se)) /\ r.index[e] <= Len(r.stack[e])
      BY <1>1 DEF Base
    <3>2. t.stack[e] = r.stack[e] /\ (e # ed => t.index[e] = r.index[e])
      BY <1>2, <1>3 DEF SameIn
    <3>. QED  BY <1>2, <1>3, <1>4, <3>1, <3>2
  <2>2. t.index \in [Editors -> Nat]
    BY <1>1, <1>2 DEF Base
  <2>3. /\ t.title \in [Functions \cup Interfaces -> Names \cup {None}]
        /\ t.name \in [Range(Instances) -> Names \cup {None}]
        /\ \A i \in Range(Instances) : t.name[i] # None => i \in Present(se)
        /\ t.alive \in BOOLEAN
        /\ t.stack = [e \in Editors |-> t.stack[e]] /\ t.views = [e \in Editors |-> t.views[e]]
    BY <1>1, <1>2 DEF Base
  <2>. QED  BY <1>2, <2>1, <2>2, <2>3 DEF Base
<1>5. ASSUME ed = IV \/ Exact(se)  PROVE Good(t, ed, se)
  <2>1. SameIn(s, r, ed) /\ Document(r, ed) = With(Document(s, ed), o, y)
    BY <1>5 DEF Ran
  <2>2. Document(t, ed) = Document(r, ed) /\ t.stack[ed] = s.stack[ed] /\ t.views[ed] = s.views[ed]
    BY <1>2, <2>1 DEF Document, SameIn
  <2>3. Document(t, ed) = s.views[ed][m + 1]
    BY <1>5, <2>1, <2>2
  <2>4. Sound(t, ed, se)
    BY <1>3, <1>5, <2>2, <2>3 DEF Sound, Stands
  <2>. QED  BY <1>5, <2>1, <2>2, <2>4 DEF Good
<1>6. /\ ed # IV => Sound(r, IV, se)
      /\ Exact(se) => \A e \in Editors \ {ed} : Sound(r, e, se)
      /\ Updating(se) => Founded(r)
  BY DEF Ran
<1>. QED  BY <1>1, <1>2, <1>3, <1>4, <1>5, <1>6, AllHold

\* A step of the stack, from n to n + 1, is between documents that are as they should be.
LEMMA StepIs ==
  ASSUME NEW se \in Sessions, NEW ed \in Editors, NEW s, Base(s, se), Sound(s, ed, se), NEW n \in Nat,
         n + 1 <= Len(s.stack[ed])
  PROVE  LET c == s.stack[ed][n + 1]
             v == s.views[ed][n + 1]
             w == s.views[ed][n + 2]
         IN  /\ v[c.o] = c.old /\ w[c.o] = c.new /\ w = With(v, c.o, c.new) /\ v = With(w, c.o, c.old)
             /\ Fine(ed, v, se) /\ Fine(ed, w, se)
<1>. DEFINE c == s.stack[ed][n + 1]
            v == s.views[ed][n + 1]
            w == s.views[ed][n + 2]
<1>1. Len(s.stack[ed]) \in Nat /\ s.stack[ed] \in Seq(CommandsOf(ed, se))
  BY LenProperties DEF Base
<1>2. n + 1 \in 1..Len(s.stack[ed]) /\ n + 2 \in 1..(Len(s.stack[ed]) + 1)
      /\ n + 1 \in 1..(Len(s.stack[ed]) + 1) /\ n + 1 + 1 = n + 2
  BY <1>1
<1>3. Leads(v, c, w) /\ Fine(ed, v, se) /\ Fine(ed, w, se) /\ v \in Documents(ed)
  BY <1>2, ElementOfSeq DEF Sound, Stands
<1>4. c \in CommandsOf(ed, se)
  BY <1>1, <1>2, ElementOfSeq
<1>5. c.o \in Objects(ed)
  BY <1>4, CommandsAre
<1>. HIDE DEF c, v, w
<1>6. v[c.o] = c.old /\ w = With(v, c.o, c.new)
  BY <1>3 DEF Leads, With
<1>7. w[c.o] = c.new /\ v = With(w, c.o, c.old)
  BY <1>3, <1>5, <1>6 DEF With, Documents
<1>. QED  BY <1>3, <1>6, <1>7 DEF c, v, w

LEMMA UndoHolds ==
  ASSUME NEW se \in Sessions, NEW ed \in Editors, NEW s, Base(s, se), Holds(s, se), s.index[ed] > 0,
         NEW a, Answers(a, se)
  PROVE  Holds(UndoStep(s, ed, a), se)
<1>. DEFINE n == s.index[ed]
            m == n - 1
            c == s.stack[ed][n]
            r == Undo(s, c, a)
            t == UndoStep(s, ed, a)
            o == c.o
            y == c.old
<1>1. /\ n \in Nat /\ m \in Nat /\ m + 1 = n /\ n <= Len(s.stack[ed]) /\ Len(s.stack[ed]) \in Nat
      /\ s.stack[ed] \in Seq(CommandsOf(ed, se))
  BY LenProperties DEF Base
<1>2. c \in CommandsOf(ed, se)
  BY <1>1, ElementOfSeq
<1>3. ed = IV \/ Exact(se) => Sound(s, ed, se)
  BY DEF Holds, Good
<1>4. ed = IV \/ Exact(se) =>
        /\ Document(s, ed)[o] = c.new /\ Fine(ed, With(Document(s, ed), o, y), se)
        /\ s.views[ed][m + 1] = With(Document(s, ed), o, y)
  <2>. SUFFICES ASSUME Sound(s, ed, se)
                PROVE  /\ Document(s, ed)[o] = c.new /\ Fine(ed, With(Document(s, ed), o, y), se)
                       /\ s.views[ed][m + 1] = With(Document(s, ed), o, y)
    BY <1>3
  <2>1. Document(s, ed) = s.views[ed][m + 2]
    <3>1. m + 2 = n + 1
      BY <1>1
    <3>. QED  BY <3>1 DEF Sound, Stands
  <2>. HIDE DEF m, n
  <2>2. m + 1 <= Len(s.stack[ed])
    BY <1>1
  <2>3. c = s.stack[ed][m + 1]
    BY <1>1
  <2>. HIDE DEF c
  <2>. QED  BY <1>1, <2>1, <2>2, <2>3, StepIs
<1>5. Ready(s, ed, o, c.new, y, se)
  BY <1>4 DEF Holds, Good, Ready
<1>6. Ran(s, r, ed, o, y, se)
  <2>1. Ran(s, Changed(s, c, c.new, c.old, FALSE, a), ed, c.o, c.old, se)
    BY <1>2, <1>5, ChangedIs
  <2>. QED  BY <2>1 DEF Undo
<1>7. t = [r EXCEPT !.index = [r.index EXCEPT ![ed] = m]]
  BY DEF UndoStep
<1>. HIDE DEF r, t, o, y, c
<1>8. Base(r, se) /\ Runs(s, r)
  BY <1>6 DEF Ran
<1>9. Moved(r, t, ed, m)
  <2>. DEFINE ix == [r.index EXCEPT ![ed] = m]
  <2>1. r = [title |-> r.title, name |-> r.name, stack |-> r.stack, index |-> r.index,
             redoing |-> r.redoing, alive |-> r.alive, full |-> r.full, views |-> r.views]
    BY <1>8 DEF Base
  <2>. HIDE DEF ix
  <2>2. t = [title |-> r.title, name |-> r.name, stack |-> r.stack, index |-> ix,
             redoing |-> r.redoing, alive |-> r.alive, full |-> r.full, views |-> r.views]
    BY <1>7, <2>1 DEF ix
  <2>. QED  BY <2>2 DEF Moved, ix
<1>10. m <= Len(r.stack[ed])
  <2>1. s.index[ed] <= r.index[ed] /\ r.index[ed] <= Len(r.stack[ed]) /\ r.index[ed] \in Nat
        /\ Len(r.stack[ed]) \in Nat
    BY <1>8, LenProperties DEF Runs, Base
  <2>. QED  BY <1>1, <2>1
<1>. HIDE DEF m, n
<1>11. Holds(t, se)
  BY <1>1, <1>3, <1>4, <1>6, <1>9, <1>10, MovedHolds
<1>. QED  BY <1>11 DEF t

LEMMA RedoHolds ==
  ASSUME NEW se \in Sessions, NEW ed \in Editors, NEW s, Base(s, se), Holds(s, se),
         s.index[ed] < Len(s.stack[ed]), NEW a, Answers(a, se)
  PROVE  Holds(RedoStep(s, ed, a), se)
<1>. DEFINE n == s.index[ed]
            c == s.stack[ed][n + 1]
            q == [s EXCEPT !.redoing = ed]
            r == Redo(q, c, FALSE, a)
            t == RedoStep(s, ed, a)
            o == c.o
            y == c.new
<1>1. /\ n \in Nat /\ n + 1 <= Len(s.stack[ed]) /\ Len(s.stack[ed]) \in Nat
      /\ n + 1 \in 1..Len(s.stack[ed]) /\ s.stack[ed] \in Seq(CommandsOf(ed, se))
  BY LenProperties DEF Base
<1>2. c \in CommandsOf(ed, se)
  BY <1>1, ElementOfSeq
<1>3. /\ q = [title |-> s.title, name |-> s.name, stack |-> s.stack, index |-> s.index,
              redoing |-> ed, alive |-> s.alive, full |-> s.full, views |-> s.views]
      /\ q.title = s.title /\ q.name = s.name /\ q.stack = s.stack /\ q.index = s.index
      /\ q.views = s.views /\ q.alive = s.alive /\ q.redoing = ed
  <2>1. s = [title |-> s.title, name |-> s.name, stack |-> s.stack, index |-> s.index,
             redoing |-> s.redoing, alive |-> s.alive, full |-> s.full, views |-> s.views]
    BY DEF Base
  <2>2. q = [title |-> s.title, name |-> s.name, stack |-> s.stack, index |-> s.index,
              redoing |-> ed, alive |-> s.alive, full |-> s.full, views |-> s.views]
    BY <2>1
  <2>. HIDE DEF q
  <2>. QED  BY <2>2
<1>4. t = [r EXCEPT !.index = [r.index EXCEPT ![ed] = r.index[ed] + 1], !.redoing = None]
  <2>1. t = [r EXCEPT !.index[ed] = @ + 1, !.redoing = None]
    BY DEF RedoStep
  <2>. HIDE DEF r
  <2>. QED  BY <2>1
<1>. HIDE DEF q, r, t
<1>5. Base(q, se) /\ (\A e : Document(q, e) = Document(s, e)) /\ \A e : SameIn(s, q, e)
  BY <1>3 DEF Base, Document, SameIn
<1>6. Holds(q, se)
  <2>1. \A e : Good(s, e, se) => Good(q, e, se)
    BY <1>5, SameSound DEF Good
  <2>2. Founded(s) => Founded(q)
    BY <1>3 DEF Founded, HasFunction
  <2>. QED  BY <1>5, <2>1, <2>2 DEF Holds
<1>7. ed = IV \/ Exact(se) =>
        /\ Sound(q, ed, se) /\ Document(q, ed)[o] = c.old /\ Fine(ed, With(Document(q, ed), o, y), se)
        /\ q.views[ed][n + 1 + 1] = With(Document(q, ed), o, y)
  <2>. SUFFICES ASSUME Sound(q, ed, se)
                PROVE  /\ Document(q, ed)[o] = c.old /\ Fine(ed, With(Document(q, ed), o, y), se)
                       /\ q.views[ed][n + 1 + 1] = With(Document(q, ed), o, y)
    BY <1>6 DEF Holds, Good
  <2>1. Document(q, ed) = q.views[ed][n + 1] /\ c = q.stack[ed][n + 1]
    BY <1>3 DEF Sound, Stands
  <2>2. n + 1 <= Len(q.stack[ed]) /\ n + 1 + 1 = n + 2
    BY <1>1, <1>3
  <2>. HIDE DEF n, c
  <2>. QED  BY <1>1, <1>5, <2>1, <2>2, StepIs
<1>8. Ready(q, ed, o, c.old, y, se)
  BY <1>5, <1>6, <1>7 DEF Holds, Good, Ready
<1>9. Ran(q, r, ed, o, y, se)
  BY <1>2, <1>8, RedoIs DEF r
<1>. HIDE DEF o, y, c
<1>10. Base(r, se) /\ Runs(q, r)
  BY <1>9 DEF Ran
<1>11. r.alive => r.index[ed] = n /\ r.stack[ed] = s.stack[ed]
  BY <1>1, <1>3, <1>10 DEF Runs
<1>12. r.index[ed] \in Nat
  BY <1>10 DEF Base
<1>. DEFINE m == r.index[ed] + 1
<1>13. Moved(r, t, ed, m)
  <2>. DEFINE ix == [r.index EXCEPT ![ed] = m]
  <2>1. r = [title |-> r.title, name |-> r.name, stack |-> r.stack, index |-> r.index,
             redoing |-> r.redoing, alive |-> r.alive, full |-> r.full, views |-> r.views]
    BY <1>10 DEF Base
  <2>2. t = [r EXCEPT !.index = ix, !.redoing = None]
    BY <1>4
  <2>. HIDE DEF ix
  <2>3. t = [title |-> r.title, name |-> r.name, stack |-> r.stack, index |-> ix,
             redoing |-> None, alive |-> r.alive, full |-> r.full, views |-> r.views]
    BY <2>1, <2>2
  <2>. QED  BY <2>3 DEF Moved, ix
<1>14. m \in Nat /\ (r.alive => m <= Len(r.stack[ed]))
  BY <1>1, <1>11, <1>12
<1>15. ed = IV \/ Exact(se) =>
         /\ Sound(q, ed, se) /\ q.views[ed][m + 1] = With(Document(q, ed), o, y)
         /\ Fine(ed, With(Document(q, ed), o, y), se)
  <2>. SUFFICES ASSUME ed = IV \/ Exact(se)
                PROVE  /\ Sound(q, ed, se) /\ q.views[ed][m + 1] = With(Document(q, ed), o, y)
                       /\ Fine(ed, With(Document(q, ed), o, y), se)
    OBVIOUS
  <2>1. r.index[ed] = q.index[ed]
    BY <1>9 DEF Ran, SameIn
  <2>2. m = n + 1
    BY <1>3, <2>1
  <2>. QED  BY <1>7, <2>2
<1>. HIDE DEF m, n
<1>16. Holds(t, se)
  BY <1>9, <1>13, <1>14, <1>15, MovedHolds
<1>. QED  BY <1>16 DEF t
-------------------------------------------------------------------------------
(* The user.                                                                    *)

LEMMA Started ==
  ASSUME NEW se \in Sessions, NEW s,
         s = [title |-> se.title, name |-> se.name,
              stack |-> [ed \in Editors |-> << >>], index |-> [ed \in Editors |-> 0],
              redoing |-> None, alive |-> TRUE, full |-> FALSE,
              views |-> [ed \in Editors |-> <<Document(se, ed)>>]]
  PROVE  Holds(s, se)
<1>1. /\ s.title = se.title /\ s.name = se.name /\ s.alive = TRUE
      /\ s.stack = [ed \in Editors |-> << >>] /\ s.index = [ed \in Editors |-> 0]
      /\ s.views = [ed \in Editors |-> <<Document(se, ed)>>]
      /\ s = [title |-> s.title, name |-> s.name, stack |-> s.stack, index |-> s.index,
              redoing |-> s.redoing, alive |-> s.alive, full |-> s.full, views |-> s.views]
  OBVIOUS
<1>2. /\ se.title \in [Functions \cup Interfaces -> Names \cup {None}]
      /\ se.name \in [Range(Instances) -> Names \cup {None}] /\ IV \in Editors
  BY SessionsAre DEF Editors
<1>3. \A ed \in Editors : s.stack[ed] = << >> /\ s.index[ed] = 0 /\ s.views[ed] = <<Document(se, ed)>>
  BY <1>1
<1>4. Base(s, se)
  <2>1. \A ed \in Editors : s.stack[ed] \in Seq(CommandsOf(ed, se)) /\ s.index[ed] <= Len(s.stack[ed])
    BY <1>3
  <2>2. \A i \in Range(Instances) : s.name[i] # None => i \in Present(se)
    BY <1>1 DEF Present
  <2>3. /\ s.stack = [ed \in Editors |-> s.stack[ed]] /\ s.views = [ed \in Editors |-> s.views[ed]]
        /\ s.index \in [Editors -> Nat] /\ s.alive \in BOOLEAN
    BY <1>1
  <2>. QED  BY <1>1, <1>2, <2>1, <2>2, <2>3 DEF Base
<1>5. \A ed \in Editors : Document(s, ed) = Document(se, ed) /\ Document(s, ed) \in Documents(ed)
  BY <1>1, <1>4, DocumentsAre DEF Document
<1>6. ASSUME NEW ed \in Editors  PROVE Good(s, ed, se)
  <2>1. Fine(ed, Document(s, ed), se)
    <3>1. CASE ed = IV
      BY <1>1, <3>1, SyncAssumption DEF Fine, Document
    <3>2. CASE ed # IV
      <4>. SUFFICES ASSUME Updating(se), NEW i \in Objects(ed), NEW j \in Objects(ed), Chart[i] = Chart[j],
                           Document(s, ed)[i] # None, Document(s, ed)[i] = Document(s, ed)[j]
                    PROVE  i = j
        BY <3>2 DEF Fine
      <4>1. i \in Range(Instances) /\ j \in Range(Instances)
            /\ Document(s, ed)[i] = se.name[i] /\ Document(s, ed)[j] = se.name[j]
        BY <1>1, <3>2 DEF Objects, Document
      <4>. QED  BY <4>1 DEF Updating, Agree
    <3>. QED  BY <3>1, <3>2
  <2>. DEFINE x == Document(s, ed)
  <2>2. s.views[ed] = <<x>> /\ s.stack[ed] = << >> /\ s.index[ed] = 0 /\ x \in Documents(ed)
    BY <1>3, <1>5
  <2>. HIDE DEF x
  <2>3. /\ Len(<<x>>) = 1 /\ <<x>>[1] = x /\ <<x>> \in Seq(Documents(ed)) /\ Len(<< >>) = 0
    BY <2>2
  <2>4. Len(s.views[ed]) = 1 /\ s.views[ed][1] = x /\ s.views[ed] \in Seq(Documents(ed))
        /\ Len(s.stack[ed]) = 0
    BY <2>2, <2>3
  <2>5. \A k \in 1..Len(s.views[ed]) : Fine(ed, s.views[ed][k], se)
    BY <2>1, <2>4 DEF x
  <2>6. 1..Len(s.stack[ed]) = {} /\ s.index[ed] + 1 = 1 /\ Len(s.views[ed]) = Len(s.stack[ed]) + 1
    BY <2>2, <2>4
  <2>7. Stands(s, ed, se, x)
    BY <2>4, <2>5, <2>6 DEF Stands
  <2>. QED  BY <2>1, <2>7 DEF Good, Sound, x
<1>7. Updating(se) => Founded(s)
  BY <1>1 DEF Updating, Agree, Founded, HasFunction
<1>. QED  BY <1>2, <1>4, <1>6, <1>7 DEF Holds

\* What a command of the user needs.
LEMMA ReadyToPush ==
  ASSUME NEW se \in Sessions, NEW s, Base(s, se), Holds(s, se), NEW ed \in Editors, NEW o, NEW y,
         NEW x, Document(s, ed)[o] = x,
         ed = IV \/ Exact(se) => Fine(ed, With(Document(s, ed), o, y), se)
  PROVE  Ready(s, ed, o, x, y, se)
  BY DEF Ready, Holds, Good

LEMMA RenameFunctionHolds ==
  ASSUME NEW se \in Sessions, NEW s, Base(s, se), Holds(s, se), NEW a, Answers(a, se),
         NEW f \in Functions, NEW n \in Names, s.title[f] # None, \A g \in Functions : s.title[g] # n
  PROVE  /\ Holds(Push(s, IV, Rename(f, s.title[f], n), a), se)
         /\ ~Updating(se) => Holds(Push(s, IV, RenameUnheard(f, s.title[f], n), a), se)
<1>1. IV \in Editors /\ Document(s, IV) = s.title /\ s.title[f] \in Names /\ f \notin Range(Instances)
  BY SyncAssumption DEF Editors, Document, Base
<1>2. Fine(IV, With(Document(s, IV), f, n), se)
  BY <1>1, NewTitleIsFine DEF Holds, Good
<1>3. Ready(s, IV, f, s.title[f], n, se)
  BY <1>1, <1>2, ReadyToPush
<1>4. Holds(Push(s, IV, Rename(f, s.title[f], n), a), se)
  <2>. DEFINE c == Rename(f, s.title[f], n)
  <2>1. c = [kind |-> "title", o |-> f, old |-> s.title[f], new |-> n]
    BY <1>1 DEF Rename
  <2>2. c \in CommandsOf(IV, se) /\ c.o = f /\ c.old = s.title[f] /\ c.new = n
    BY <1>1, <2>1 DEF CommandsOf, CommandsAt
  <2>. HIDE DEF c
  <2>3. Holds(Push(s, IV, c, a), se)
    BY <1>1, <1>3, <2>2, PushHolds
  <2>. QED  BY <2>3 DEF c
<1>5. ASSUME ~Updating(se)  PROVE Holds(Push(s, IV, RenameUnheard(f, s.title[f], n), a), se)
  <2>. DEFINE c == RenameUnheard(f, s.title[f], n)
  <2>1. c = [kind |-> "unheard", o |-> f, old |-> s.title[f], new |-> n]
    BY DEF RenameUnheard
  <2>2. c \in CommandsOf(IV, se) /\ c.o = f /\ c.old = s.title[f] /\ c.new = n
    BY <1>1, <1>5, <2>1 DEF CommandsOf, CommandsAt
  <2>. HIDE DEF c
  <2>3. Holds(Push(s, IV, c, a), se)
    BY <1>1, <1>3, <2>2, PushHolds
  <2>. QED  BY <2>3 DEF c
<1>. QED  BY <1>4, <1>5

LEMMA RemoveFunctionHolds ==
  ASSUME NEW se \in Sessions, NEW s, Base(s, se), Holds(s, se), NEW a, Answers(a, se),
         NEW f \in Functions, s.title[f] # None, ~Updating(se)
  PROVE  Holds(Push(s, IV, Delete(f, s.title[f]), a), se)
<1>1. IV \in Editors /\ Document(s, IV) = s.title /\ s.title[f] \in Names
      /\ s.title \in [Functions \cup Interfaces -> Names \cup {None}]
  BY DEF Editors, Document, Base
<1>2. Fine(IV, s.title, se)
  BY <1>1 DEF Holds, Good
<1>3. Fine(IV, With(Document(s, IV), f, None), se)
  BY <1>1, <1>2 DEF Fine, With
<1>4. Ready(s, IV, f, s.title[f], None, se)
  BY <1>1, <1>3, ReadyToPush
<1>. DEFINE c == Delete(f, s.title[f])
<1>5. c = [kind |-> "remove", o |-> f, old |-> s.title[f], new |-> None]
  BY DEF Delete
<1>6. c \in CommandsOf(IV, se) /\ c.o = f /\ c.old = s.title[f] /\ c.new = None
  BY <1>1, <1>5 DEF CommandsOf, CommandsAt
<1>. HIDE DEF c
<1>7. Holds(Push(s, IV, c, a), se)
  BY <1>1, <1>4, <1>6, PushHolds
<1>. QED  BY <1>7 DEF c

\* The name is one that no instance of the chart has.
LEMMA NewNameIsFine ==
  ASSUME NEW se \in Sessions, NEW s, Base(s, se), Holds(s, se), NEW i \in Range(Instances),
         NEW n \in Names, ~InChart(s, i, n), Exact(se)
  PROVE  Fine(CoreOf[i], With(Document(s, CoreOf[i]), i, n), se)
<1>. DEFINE ed == CoreOf[i]
            v == With(Document(s, ed), i, n)
<1>1. ed \in Editors /\ ed # IV
  BY EditorOf
<1>2. Fine(ed, Document(s, ed), se)
  BY <1>1 DEF Holds, Good
<1>. SUFFICES ASSUME Updating(se), NEW j \in Objects(ed), NEW k \in Objects(ed), Chart[j] = Chart[k],
                     v[j] # None, v[j] = v[k], j # k
              PROVE  FALSE
  BY <1>1 DEF Fine
<1>3. \A m \in Objects(ed) : /\ m \in Range(Instances) /\ Document(s, ed)[m] = s.name[m]
                             /\ v[m] = IF m = i THEN n ELSE s.name[m]
  BY <1>1 DEF Objects, Document, With
<1>. HIDE DEF v
<1>4. CASE j # i /\ k # i
  BY <1>1, <1>2, <1>3, <1>4 DEF Fine
<1>5. CASE j = i \/ k = i
  BY <1>3, <1>5 DEF InChart
<1>. QED  BY <1>4, <1>5

LEMMA RenameInstanceHolds ==
  ASSUME NEW se \in Sessions, NEW s, Base(s, se), Holds(s, se), NEW a, Answers(a, se),
         NEW i \in Range(Instances), NEW n \in Names, s.name[i] # None, ~InChart(s, i, n)
  PROVE  Holds(Push(s, CoreOf[i], Rename(i, s.name[i], n), a), se)
<1>. DEFINE ed == CoreOf[i]
            c == Rename(i, s.name[i], n)
<1>1. ed \in Editors /\ ed # IV /\ i \in Present(se) /\ s.name[i] \in Names
  BY EditorOf DEF Base
<1>2. Document(s, ed)[i] = s.name[i]
  BY <1>1 DEF Document
<1>3. Ready(s, ed, i, s.name[i], n, se)
  BY <1>1, <1>2, NewNameIsFine, ReadyToPush
<1>4. c = [kind |-> "name", o |-> i, old |-> s.name[i], new |-> n]
  BY DEF Rename
<1>5. c \in CommandsOf(ed, se) /\ c.o = i /\ c.old = s.name[i] /\ c.new = n
  BY <1>1, <1>4 DEF CommandsOf, CommandsAt
<1>. HIDE DEF c, ed
<1>6. Holds(Push(s, ed, c, a), se)
  BY <1>1, <1>3, <1>5, PushHolds
<1>. QED  BY <1>6 DEF c, ed

LEMMA CreateInstanceHolds ==
  ASSUME NEW se \in Sessions, NEW s, Base(s, se), Holds(s, se), NEW a, Answers(a, se), ~Updating(se),
         NEW i \in Range(Instances), NEW n \in Names, i \in se.adds, s.name[i] = None, ~InChart(s, i, n),
         NEW r, r = Push(s, CoreOf[i], Create(i, n), a)
  PROVE  Holds(r, se) /\ Holds(OnMscEntityNameChanged(r, i, n, FALSE, a), se)
<1>. DEFINE ed == CoreOf[i]
            c == Create(i, n)
            t == OnMscEntityNameChanged(r, i, n, FALSE, a)
<1>1. ed \in Editors /\ ed # IV /\ i \in Present(se) /\ i \notin Functions /\ i \in Objects(ed)
  BY EditorOf, SyncAssumption DEF Present, Objects
<1>2. Document(s, ed)[i] = None
  BY <1>1 DEF Document
<1>3. Ready(s, ed, i, None, n, se)
  BY <1>1, <1>2, NewNameIsFine, ReadyToPush
<1>4. c = [kind |-> "instance", o |-> i, old |-> None, new |-> n]
  BY <1>1 DEF Create
<1>5. /\ c \in CommandsOf(ed, se) /\ c.o = i /\ c.old = None /\ c.new = n
      /\ c.kind = "instance"
  BY <1>1, <1>4 DEF CommandsOf, CommandsAt
<1>. HIDE DEF c, ed, t
<1>6. Holds(r, se) /\ Base(r, se)
  BY <1>1, <1>3, <1>5, PushHolds DEF c, ed
<1>7. r.name[i] = n
  <2>. DEFINE g == Given(s, i, n)
  <2>1. Redo(s, c, TRUE, a) = g
    BY <1>5 DEF Redo, Changed
  <2>2. r = Pushed(g, ed, c)
    BY <2>1 DEF Push, c, ed
  <2>3. Base(g, se) /\ g.name = With(s.name, i, n)
    BY <1>1, GivenIs
  <2>. HIDE DEF g
  <2>4. r.name = g.name
    BY <1>1, <1>5, <2>2, <2>3, PushedIs
  <2>. QED  BY <2>3, <2>4 DEF With, Base
<1>8. Sound(r, IV, se) /\ IV \in Editors
  BY <1>6 DEF Holds, Good, Editors
<1>9. Noticed(r, t, se, n, n)
  BY <1>6, <1>7, <1>8, OnMscIs DEF t
<1>10. Base(t, se) /\ Good(t, IV, se)
  BY <1>8, <1>9, SoundIsFine DEF Noticed, Good
<1>11. ASSUME Exact(se), NEW e \in Editors \ {IV}  PROVE Good(t, e, se)
  <2>1. SameIn(r, t, e) /\ Document(t, e) = Document(r, e)
    BY <1>9, <1>11 DEF Noticed
  <2>2. Sound(r, e, se)
    BY <1>6, <1>11 DEF Holds, Good
  <2>3. Sound(t, e, se)
    BY <2>1, <2>2, SameSound
  <2>. QED  BY <1>10, <2>3, SoundIsFine DEF Good
<1>12. Holds(t, se)
  BY <1>10, <1>11 DEF Holds
<1>. QED  BY <1>6, <1>12 DEF t

\* Every step of the user keeps the invariant.
LEMMA StepHolds ==
  ASSUME session \in Sessions, "renameInterface" \notin session.kinds, Holds(sys, session), Next
  PROVE  Holds(sys', session) /\ session' = session
<1>1. PICK a \in session.answers :
        \/ "renameFunction" \in session.kinds /\ \E f \in Functions, n \in Names : RenameFunction(f, n, a)
        \/ "renameInDialog" \in session.kinds /\ \E f \in Functions, n \in Names : RenameInDialog(f, n, a)
        \/ "renameInstance" \in session.kinds /\ \E i \in Range(Instances), n \in Names :
             RenameInstance(i, n, a)
        \/ "createInstance" \in session.kinds /\ \E i \in Range(Instances), n \in Names, b \in BOOLEAN :
             CreateInstance(i, n, b, a)
        \/ "removeFunction" \in session.kinds /\ \E f \in Functions : RemoveFunction(f, a)
        \/ \E ed \in Editors : UndoIn(ed, a) \/ RedoIn(ed, a)
  BY DEF Next
<1>2. Base(sys, session) /\ Answers(a, session)
  BY DEF Next, Holds, Updating, Answers
<1>3. /\ "renameInDialog" \in session.kinds => ~Updating(session)
      /\ "createInstance" \in session.kinds => ~Updating(session)
      /\ "removeFunction" \in session.kinds => ~Updating(session)
  BY DEF Updating
<1>4. ASSUME NEW f \in Functions, NEW n \in Names, RenameFunction(f, n, a)
      PROVE  Holds(sys', session) /\ session' = session
  BY <1>2, <1>4, RenameFunctionHolds DEF RenameFunction, Done
<1>5. ASSUME NEW f \in Functions, NEW n \in Names, RenameInDialog(f, n, a), ~Updating(session)
      PROVE  Holds(sys', session) /\ session' = session
  BY <1>2, <1>5, RenameFunctionHolds DEF RenameInDialog, Done
<1>6. ASSUME NEW i \in Range(Instances), NEW n \in Names, RenameInstance(i, n, a)
      PROVE  Holds(sys', session) /\ session' = session
  BY <1>2, <1>6, RenameInstanceHolds DEF RenameInstance, Done
<1>7. ASSUME NEW i \in Range(Instances), NEW n \in Names, NEW b \in BOOLEAN,
             CreateInstance(i, n, b, a), ~Updating(session)
      PROVE  Holds(sys', session) /\ session' = session
  <2>. DEFINE r == Push(sys, CoreOf[i], Create(i, n), a)
              t == OnMscEntityNameChanged(r, i, n, FALSE, a)
  <2>1. Holds(r, session) /\ Holds(t, session)
    BY <1>2, <1>7, CreateInstanceHolds DEF CreateInstance
  <2>2. (sys' = r \/ sys' = t) /\ session' = session
    BY <1>7 DEF CreateInstance, Done
  <2>. QED  BY <2>1, <2>2
<1>8. ASSUME NEW f \in Functions, RemoveFunction(f, a), ~Updating(session)
      PROVE  Holds(sys', session) /\ session' = session
  BY <1>2, <1>8, RemoveFunctionHolds DEF RemoveFunction, Done
<1>9. ASSUME NEW ed \in Editors, UndoIn(ed, a)  PROVE Holds(sys', session) /\ session' = session
  BY <1>2, <1>9, UndoHolds DEF UndoIn, Done
<1>10. ASSUME NEW ed \in Editors, RedoIn(ed, a)  PROVE Holds(sys', session) /\ session' = session
  BY <1>2, <1>10, RedoHolds DEF RedoIn, Done
<1>. QED  BY <1>1, <1>3, <1>4, <1>5, <1>6, <1>7, <1>8, <1>9, <1>10

LEMMA SessionStays ==
  ASSUME Next
  PROVE  session' = session
<1>1. \A s : Done(s) => session' = session
  BY DEF Done
<1>2. \E s : Done(s)
  <2>1. \A a, f, n : RenameFunction(f, n, a) => \E s : Done(s)
    BY Zenon DEF RenameFunction
  <2>2. \A a, f, n : RenameInDialog(f, n, a) => \E s : Done(s)
    BY Zenon DEF RenameInDialog
  <2>3. \A a, p, n : RenameInterface(p, n, a) => \E s : Done(s)
    BY Zenon DEF RenameInterface
  <2>4. \A a, i, n : RenameInstance(i, n, a) => \E s : Done(s)
    BY Zenon DEF RenameInstance
  <2>5. \A a, i, n, b : CreateInstance(i, n, b, a) => \E s : Done(s)
    BY Zenon DEF CreateInstance
  <2>6. \A a, f : RemoveFunction(f, a) => \E s : Done(s)
    BY Zenon DEF RemoveFunction
  <2>7. \A a, ed : UndoIn(ed, a) \/ RedoIn(ed, a) => \E s : Done(s)
    BY Zenon DEF UndoIn, RedoIn
  <2>. QED  BY <2>1, <2>2, <2>3, <2>4, <2>5, <2>6, <2>7, Zenon DEF Next
<1>. QED  BY <1>1, <1>2, Zenon

LEMMA NamesAgreeIfHolds ==
  ASSUME session \in Sessions, Inv
  PROVE  NamesAgree
<1>. SUFFICES ASSUME Updating(session)  PROVE Agree(sys)
  BY DEF NamesAgree
<1>1. Exact(session) /\ Holds(sys, session)
  BY DEF Exact, Updating, Inv, InvOf
<1>2. \A i \in Range(Instances) : sys.name[i] # None => HasFunction(sys, sys.name[i])
  BY <1>1 DEF Holds, Founded
<1>3. ASSUME NEW i \in Range(Instances), NEW j \in Range(Instances), Chart[i] = Chart[j],
             sys.name[i] = sys.name[j], sys.name[i] # None
      PROVE  i = j
  <2>. DEFINE ed == CoreOf[i]
  <2>1. ed \in Editors /\ ed # IV /\ CoreOf[j] = ed
    BY <1>3, EditorOf, SyncAssumption
  <2>2. Fine(ed, Document(sys, ed), session)
    BY <1>1, <2>1 DEF Holds, Good
  <2>3. /\ i \in Objects(ed) /\ j \in Objects(ed)
        /\ Document(sys, ed)[i] = sys.name[i] /\ Document(sys, ed)[j] = sys.name[j]
    BY <2>1 DEF Objects, Document
  <2>. QED  BY <1>3, <2>1, <2>2, <2>3 DEF Fine
<1>. QED  BY <1>2, <1>3 DEF Agree

LEMMA TitlesUniqueIfHolds ==
  ASSUME Inv
  PROVE  FunctionNamesUnique
  BY DEF Inv, InvOf, Holds, Good, Fine, Document, FunctionNamesUnique

LEMMA UndoRestoresIfHolds ==
  ASSUME Inv
  PROVE  UndoRestores
<1>. SUFFICES ASSUME Exact(session)  PROVE StacksHold
  BY DEF UndoRestores
<1>1. "renameInterface" \notin session.kinds
  BY DEF Exact, Updating, Alone
<1>. QED  BY <1>1 DEF Inv, InvOf, Holds, Good, Sound, Stands, StacksHold

\* The invariant that the three properties follow from: unless interfaces are renamed, the
\* interface view's documents follow from each other by its commands, and so do those of
\* every other editor if no renaming reaches the stack whose command is run.
THEOREM InvHolds == Spec => [](session \in Sessions /\ Inv)
<1>1. Init => session \in Sessions /\ Inv
  BY Started DEF Init, Inv, InvOf
<1>2. session \in Sessions /\ Inv /\ [Next]_vars => (session \in Sessions /\ Inv)'
  <2>. SUFFICES ASSUME session \in Sessions, Inv, [Next]_vars
                PROVE  session' \in Sessions /\ InvOf(sys', session')
    BY DEF Inv
  <2>1. CASE Next
    <3>1. session' = session
      BY <2>1, SessionStays
    <3>2. "renameInterface" \notin session.kinds => Holds(sys', session)
      BY <2>1, StepHolds DEF Inv, InvOf
    <3>. QED  BY <3>1, <3>2 DEF InvOf
  <2>2. CASE UNCHANGED vars
    BY <2>2 DEF vars, Inv
  <2>. QED  BY <2>1, <2>2
<1>. QED  BY <1>1, <1>2, PTL DEF Spec

\* MscSystemChecks: if the user has everything updated, every instance goes on having its
\* function, and no chart gets two instances of one name, through any renaming, undo and
\* redo in any editor (a session's start is the only hypothesis, in Updating).
THEOREM NamesAlwaysAgree == Spec => []NamesAgree
<1>1. session \in Sessions /\ Inv => NamesAgree
  BY NamesAgreeIfHolds
<1>. QED  BY <1>1, InvHolds, PTL

\* IVEditorCore and MscSystemChecks: no two functions get one name through what is done to
\* the instances or undone and redone.
THEOREM FunctionNamesAlwaysUnique == Spec => []FunctionNamesUnique
<1>1. session \in Sessions /\ Inv => FunctionNamesUnique
  BY TitlesUniqueIfHolds
<1>. QED  BY <1>1, InvHolds, PTL

\* cmd::CommandsStack and MscSystemChecks: each editor shows what its undo stack says,
\* although the commands of one editor push on the stacks of the others.
THEOREM UndoAlwaysRestores == Spec => []UndoRestores
<1>1. session \in Sessions /\ Inv => UndoRestores
  BY UndoRestoresIfHolds
<1>. QED  BY <1>1, InvHolds, PTL
===============================================================================
