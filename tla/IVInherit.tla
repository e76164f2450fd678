------------------------------- MODULE IVInherit -------------------------------
(* Required interfaces (RI) that inherit from the provided interfaces (PI)     *)
(* they are connected to: prototypes, the data an RI puts aside, the Qt        *)
(* connections that carry later changes, and the commands that edit all this.  *)
(* Names are left out (an RI has a name of its own), and so are clones.        *)
EXTENDS MscLists

CONSTANTS RIs, PIs,            \* interfaces, each in a function of its own
          ParamLists,          \* the parameter lists there can be
          RIKinds, PIKinds,    \* the operation kinds the editor offers
          Unset,
          Sessions             \* the interfaces of a model, the kinds of command given,
                               \* and, as bounds, the number of commands and of
                               \* connections between two interfaces

ASSUME InheritAssumption ==
  /\ IsFiniteSet(RIs \cup PIs)
  /\ RIs \cap PIs = {} /\ "Any" \in RIKinds \ PIKinds /\ "Cyclic" \notin RIKinds
  /\ Unset \notin [data : ParamLists \X (RIKinds \cup PIKinds \cup {"Sporadic"}), flag : BOOLEAN]
  /\ \A s \in Sessions : /\ DOMAIN s = {"ifaces", "kinds", "most", "copies"}
                         /\ s.ifaces \subseteq RIs \cup PIs /\ {s.most, s.copies} \subseteq Nat

VARIABLES view,     \* the model: see Start
          stack, index,
          past,     \* auxiliary: the models the user had, one per prefix of stack, in
                    \* sessions where undo is exact
          kept,     \* auxiliary: the data an RI had before its first prototype
          session   \* auxiliary

vars == <<view, stack, index, past, kept, session>>

Data(m, i) == <<m.params[i], m.kind[i]>>

\* A loaded model before its connections: attributes, parameters, m_prototypes,
\* m_originalFields, the interfaces whose attributeChanged and paramsChanged an RI is
\* connected to, the connections in the model, and those connected to an RI's
\* propChanged_InheritPI (and its PI's titleChanged), oldest first.
Loaded(I, f, q) ==
  LET R == RIs \cap I
  IN  [flag |-> f, params |-> q, kind |-> [i \in I |-> IF i \in R THEN "Any" ELSE "Sporadic"],
       protos |-> [r \in R |-> {}], original |-> [r \in R |-> Unset], hears |-> [r \in R |-> {}],
       links |-> {}, listens |-> [r \in R |-> << >>]]

Start(I) == {Loaded(I, f, q) : f \in [RIs \cap I -> BOOLEAN], q \in [I -> ParamLists]}

RIsOf(m) == DOMAIN m.flag
-------------------------------------------------------------------------------
(* IVInterface and IVInterfaceRequired.                                        *)

CloneRecollecting(m, r, p) ==
  [m EXCEPT !.original[r] = [data |-> Data(m, r), flag |-> m.flag[r]],
            !.kind[r] = m.kind[p], !.params[r] = m.params[p], !.hears[r] = @ \cup {p}]

\* r puts its own data aside, unless it has done so, and takes p's.
CloneInternals(m, r, p) ==
  [m EXCEPT !.original[r] = IF @ = Unset THEN [data |-> Data(m, r), flag |-> m.flag[r]] ELSE @,
            !.kind[r] = m.kind[p], !.params[r] = m.params[p], !.hears[r] = @ \cup {p}]

RestoreStillHearing(m, r, p) ==
  IF m.original[r] = Unset THEN m
  ELSE [m EXCEPT !.params[r] = m.original[r].data[1], !.kind[r] = m.original[r].data[2],
                 !.flag[r] = m.original[r].flag, !.original[r] = Unset]

\* The attributes put aside come back, the flag InheritPI among them.
RestoreInternals(m, r, p) ==
  LET n == [m EXCEPT !.hears[r] = @ \ {p}]
  IN  IF m.original[r] = Unset THEN n
      ELSE [n EXCEPT !.params[r] = m.original[r].data[1], !.kind[r] = m.original[r].data[2],
                     !.flag[r] = m.original[r].flag, !.original[r] = Unset]

SetPrototype(m, r, p) ==
  IF ~m.flag[r] THEN m ELSE CloneInternals([m EXCEPT !.protos[r] = @ \cup {p}], r, p)

UnsetPrototype(m, r, p) ==
  LET n == [m EXCEPT !.protos[r] = @ \ {p}]
  IN  IF n.protos[r] = {} \/ ~n.flag[r] THEN RestoreInternals(n, r, p) ELSE n
-------------------------------------------------------------------------------
(* IVConnection.  A connection is its two ends and a number.                   *)

From(c) == c[1]
To(c) == c[2]

ConcernedByFlag(m, c) == m.flag[From(c)]

\* handleInheritPIChange looks no further if there is nothing to inherit.
Concerned(m, c) == m.flag[From(c)] \/ m.protos[From(c)] # {}

Inherit(m, c) ==
  IF ~Concerned(m, c) THEN m
  ELSE [SetPrototype(m, From(c), To(c)) EXCEPT
          !.listens[From(c)] = IF c \in Range(@) THEN @ ELSE Append(@, c)]

NotInherit(m, c) ==
  IF ~Concerned(m, c) THEN m
  ELSE UnsetPrototype([m EXCEPT !.listens[From(c)] = RemoveAll(@, c)], From(c), To(c))

AddLink(m, c) == Inherit([m EXCEPT !.links = @ \cup {c}], c)

RemoveOnly(m, C) == [m EXCEPT !.links = @ \ Range(C)]

\* CmdEntitiesRemove on connections, and its undo in the opposite order.
RemoveLink(m, c) == [NotInherit(m, c) EXCEPT !.links = @ \ {c}]

RemoveLinks(m, C) ==
  LET after[k \in 0..Len(C)] == IF k = 0 THEN m ELSE RemoveLink(after[k - 1], C[k])
  IN  after[Len(C)]

RestoreLink(m, c) == AddLink(Inherit(m, c), c)

RestoreLinks(m, C) ==
  LET after[k \in 0..Len(C)] ==
        IF k = 0 THEN m ELSE RestoreLink(after[k - 1], C[Len(C) - k + 1])
  IN  after[Len(C)]
-------------------------------------------------------------------------------
(* Attributes and what their signals bring about.                              *)

\* All slots of a signal are called, in the order they were connected.
HandleInheritPI(m, c, on) == IF on THEN Inherit(m, c) ELSE NotInherit(m, c)

Notify(m, r, on) ==
  LET after[k \in 0..Len(m.listens[r])] ==
        IF k = 0 THEN m ELSE HandleInheritPI(after[k - 1], m.listens[r][k], on)
  IN  after[Len(m.listens[r])]

\* propChanged_InheritPI comes after the change of the value.
SetInheritPI(m, r, on) ==
  IF m.flag[r] = on THEN m ELSE Notify([m EXCEPT !.flag[r] = on], r, on)

\* reflectAttrs clears r's attributes and sets them again: InheritPI is set anew, so
\* its signal is sent, and then the kind is set to p's.
ReflectAttrs(m, r, p) ==
  IF m.kind[r] = m.kind[p] THEN m
  ELSE [IF m.flag[r] THEN Notify(m, r, TRUE) ELSE m EXCEPT !.kind[r] = m.kind[p]]

SetKind(m, i, k) ==
  LET hearers == SetToSeq({r \in RIsOf(m) : i \in m.hears[r] /\ m.kind[i] # k})
      after[n \in 0..Len(hearers)] ==
        IF n = 0 THEN [m EXCEPT !.kind[i] = k] ELSE ReflectAttrs(after[n - 1], hearers[n], i)
  IN  after[Len(hearers)]

SetParams(m, i, q) ==
  [m EXCEPT !.params = [j \in DOMAIN @ |->
     IF j = i \/ (j \in RIsOf(m) /\ i \in m.hears[j] /\ m.params[i] # q) THEN q ELSE @[j]]]

\* titleChanged of p: its connections set the prototype again.
Rename(m, p) ==
  LET told == SetToSeq({r \in RIsOf(m) : \E c \in Range(m.listens[r]) : To(c) = p})
      after[k \in 0..Len(told)] == IF k = 0 THEN m ELSE SetPrototype(after[k - 1], told[k], p)
  IN  after[Len(told)]
-------------------------------------------------------------------------------
(* Commands.                                                                   *)

LinksOf(m, i) == {c \in m.links : i \in {From(c), To(c)}}

PartedFrom(m, i) == SetToSeq({c \in m.links : From(c) = i /\ m.params[i] # m.params[To(c)]})

\* The connections whose ends no longer have the same parameters, looked up when a
\* change of parameters is done for the first time.
Parted(m, i) == SetToSeq({c \in LinksOf(m, i) : m.params[From(c)] # m.params[To(c)]})

Noting(m, c) ==
  IF c.kind = "params" THEN [c EXCEPT !.parted = Parted(SetParams(m, c.i, c.new), c.i)] ELSE c

Redo(m, c) ==
  CASE c.kind = "connect" -> AddLink(m, c.c)
    [] c.kind = "remove"  -> RemoveLinks(m, c.C)
    [] c.kind = "params"  -> RemoveLinks(SetParams(m, c.i, c.new), c.parted)
    [] c.kind = "kind"    -> SetKind(m, c.i, c.new)
    [] c.kind = "inherit" -> SetInheritPI(m, c.i, c.new)
    [] c.kind = "rename"  -> Rename(m, c.i)

Undo(m, c) ==
  CASE c.kind = "connect" -> RemoveLinks(m, <<c.c>>)
    [] c.kind = "remove"  -> RestoreLinks(m, c.C)
    [] c.kind = "params"  -> RestoreLinks(SetParams(m, c.i, c.old), c.parted)
    [] c.kind = "kind"    -> SetKind(m, c.i, c.old)
    [] c.kind = "inherit" -> SetInheritPI(m, c.i, c.old)
    [] c.kind = "rename"  -> Rename(m, c.i)

\* The model in which a command comes to the connections: parameters are set first.
Edited(m, c, back) ==
  IF c.kind = "params" THEN SetParams(m, c.i, IF back THEN c.old ELSE c.new) ELSE m

\* An RI without a prototype has its own data; one that gets its first prototype from a
\* command had it when the command came to the connections.
Keep(c, back) ==
  kept' = [r \in RIsOf(view) |->
             CASE view'.protos[r] = {}                          -> Data(view', r)
               [] view'.protos[r] # {} /\ view.protos[r] = {}  -> Data(Edited(view, c, back), r)
               [] view'.protos[r] # {} /\ view.protos[r] # {} -> kept[r]]

Single == session.kinds \cap {"several", "switch"} = {}

\* QUndoStack::push.
Push(c) ==
  /\ index < session.most
  /\ c.kind \in session.kinds
  /\ view' = Redo(view, Noting(view, c))
  /\ stack' = Append(SubSeq(stack, 1, index), Noting(view, c))
  /\ index' = index + 1
  /\ past' = IF Single THEN Append(SubSeq(past, 1, index + 1), view') ELSE past
  /\ Keep(c, FALSE)

UndoOne ==
  /\ index > 0
  /\ view' = Undo(view, stack[index])
  /\ index' = index - 1
  /\ Keep(stack[index], TRUE)
  /\ UNCHANGED <<stack, past>>

RedoOne ==
  /\ index < Len(stack)
  /\ view' = Redo(view, stack[index + 1])
  /\ index' = index + 1
  /\ Keep(stack[index + 1], FALSE)
  /\ UNCHANGED <<stack, past>>
-------------------------------------------------------------------------------
(* What a user can do.                                                         *)

Done == {stack[k] : k \in 1..index}

\* checkKindAndParams asks for nothing if the RI inherits.
CanConnect(m, r, p) ==
  /\ "Cyclic" \notin {m.kind[r], m.kind[p]}
  /\ m.flag[r] \/
       /\ m.params[r] = m.params[p]
       /\ m.kind[r] \in {"Any", m.kind[p]}

\* In a session with one prototype at a time the user does not connect an RI again.
Connect(r, p, k) ==
  /\ CanConnect(view, r, p)
  /\ LinksOf(view, r) = {} \/ "several" \in session.kinds
  /\ \A c \in Done : c.kind = "connect" => c.c # <<r, p, k>>
  /\ Push([kind |-> "connect", c |-> <<r, p, k>>])

RemoveConnections(C) ==
  /\ Range(C) \subseteq view.links
  /\ IsInjective(C) /\ C # << >>
  /\ Push([kind |-> "remove", C |-> C])

\* The editor offers kind and parameters of an RI only while it has no prototype.
Own(i) == i \in RIs => view.protos[i] = {}

ChangeParams(i, q) ==
  /\ Own(i) /\ q # view.params[i]
  /\ Push([kind |-> "params", i |-> i, new |-> q, old |-> view.params[i], parted |-> << >>])

ChangeKind(i, k) ==
  /\ Own(i) /\ k # view.kind[i]
  /\ Push([kind |-> "kind", i |-> i, new |-> k, old |-> view.kind[i]])

\* "switch" sessions change InheritPI of connected interfaces too.
ChangeInheritPI(r) ==
  /\ LinksOf(view, r) = {} \/ "switch" \in session.kinds
  /\ Push([kind |-> "inherit", i |-> r, new |-> ~view.flag[r], old |-> view.flag[r]])

RenamePI(p) == Push([kind |-> "rename", i |-> p])

Init ==
  /\ session \in Sessions
  /\ view \in Start(session.ifaces)
  /\ stack = << >> /\ index = 0
  /\ past = IF Single THEN <<view>> ELSE << >>
  /\ kept = [r \in RIsOf(view) |-> Data(view, r)]

Commands(I) ==
  \/ \E r \in RIs \cap I, p \in PIs \cap I, k \in 1..session.copies : Connect(r, p, k)
  \/ \E C \in BoundedSeq(view.links, 2) : RemoveConnections(C)
  \/ \E i \in I, q \in ParamLists : ChangeParams(i, q)
  \/ \E i \in I : \E k \in IF i \in RIs THEN RIKinds ELSE PIKinds : ChangeKind(i, k)
  \/ \E r \in RIs \cap I : ChangeInheritPI(r)
  \/ \E p \in PIs \cap I : RenamePI(p)

Next == UNCHANGED session /\ (Commands(session.ifaces) \/ UndoOne \/ RedoOne)

Spec == Init /\ [][Next]_vars
-------------------------------------------------------------------------------
(* Properties.                                                                 *)

\* While an RI has at most one connection and InheritPI is changed on unconnected RIs,
\* undo and redo bring back every interface's data, flag, prototypes and connections.
UndoRestores == Single => view = past[index + 1]

\* In the same sessions an RI with a prototype has the data of its prototype, whatever
\* happens to it (the signals of IVInterface reach it), and hears nobody else.
FollowsPrototype ==
  Single => \A r \in RIsOf(view) :
    /\ view.hears[r] = view.protos[r]
    /\ \A p \in view.protos[r] : Data(view, r) = Data(view, p)

\* In the same sessions no connection joins interfaces with different parameters.
ParamsAgree == Single => \A c \in view.links : view.params[From(c)] = view.params[To(c)]

\* Where no two connections join the same interfaces, an RI's prototypes are PIs a
\* connection of the model joins it to, also with several connections and after
\* InheritPI was switched.  (Of two connections to the same PI the second is not told
\* that the first took the prototype away: it goes on listening after it is removed.)
PrototypesAreConnected ==
  session.copies <= 1 =>
    \A r \in RIsOf(view) : \A p \in view.protos[r] : \E c \in view.links : From(c) = r /\ To(c) = p

\* An RI that loses its last prototype has again the parameters and the kind it had
\* before the first, with several connections as well.
OwnDataComesBack ==
  [][\A r \in RIsOf(view) : view.protos[r] # {} /\ view'.protos[r] = {} => Data(view', r) = kept[r]]_vars

\* Connections deal with a switch of InheritPI before the value changes, so that the
\* value chosen last is the value the RI has.
SwitchTakesEffect ==
  \A k \in 1..index : LET c == stack[k] IN
    c.kind = "inherit" /\ (\A j \in (k + 1)..index : stack[j].kind # "inherit") => view.flag[c.i] = c.new

\* MulticastDisabled: no RI is connected to two PIs.
NoMulticast == \A c, d \in view.links : From(c) = From(d) => To(c) = To(d)

================================================================================
