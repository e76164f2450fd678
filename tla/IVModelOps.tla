------------------------------ MODULE IVModelOps ------------------------------
(* The interface view's objects (ivm::IVModel over shared::VEModel) and the    *)
(* commands that create, group, instantiate and remove them.  A model is one   *)
(* record; an operator is a method, or a command's redo or undo, and gives the *)
(* model after it.  Names, attributes and coordinates are left out, except     *)
(* that Title tells which interfaces share a name.                             *)
EXTENDS Integers, FiniteSets, Sequences, SequencesExt, FiniteSetsExt, Functions

CONSTANTS Functions,    \* IVFunction and IVFunctionType
          Types,        \* the IVFunctionTypes
          Ifaces,       \* IVInterfaceProvided and IVInterfaceRequired
          Required,     \* the required ones
          Title,        \* an interface's name
          Conns,        \* IVConnection
          Groups,       \* IVConnectionGroup
          GroupEnds,    \* the two IVInterfaceGroups made for a group
          Comments,     \* IVComment
          Nobody,       \* no object
          TheModel,     \* the model, as a QObject parent
          Held          \* a removing command, as a QObject parent

IfaceGroups == UNION {Range(GroupEnds[g]) : g \in Groups}
Links == Conns \cup Groups
Objects == Functions \cup Ifaces \cup Links \cup IfaceGroups \cup Comments

ASSUME IVModelAssumption ==
  /\ Types \subseteq Functions /\ Required \subseteq Ifaces
  /\ DOMAIN Title = Ifaces /\ DOMAIN GroupEnds = Groups
  /\ {Nobody, TheModel, Held} \cap Objects = {}

EmptyModel ==
  [inModel  |-> {},
   parent   |-> [o \in Objects |-> Nobody],
   kids     |-> [f \in Functions |-> {}],
   ends     |-> [l \in Links |-> << >>],
   members  |-> [g \in Groups |-> {}],
   init     |-> [g \in Groups |-> {}],
   entities |-> [i \in IfaceGroups |-> {}],
   fnType   |-> [f \in Functions |-> Nobody],
   cloneOf  |-> [i \in Ifaces |-> Nobody],
   clones   |-> [i \in Ifaces |-> {}]]
-------------------------------------------------------------------------------
(* A function's children.                                                      *)

AddChild(m, f, o) ==
  IF o \in m.kids[f] THEN m ELSE [m EXCEPT !.parent[o] = f, !.kids[f] = @ \cup {o}]

RemoveChild(m, f, o) ==
  IF o \notin m.kids[f] THEN m ELSE [m EXCEPT !.parent[o] = Nobody, !.kids[f] = @ \ {o}]

AddChildIf(m, f, o) == IF f = Nobody THEN m ELSE AddChild(m, f, o)
RemoveChildIf(m, f, o) == IF f = Nobody THEN m ELSE RemoveChild(m, f, o)

InterfacesOf(m, f) == m.kids[f] \cap Ifaces

\* shared::isAncestorOf over QObject parents
IsAncestor(m, a, f) ==
  LET up[n \in Nat] == IF n = 0 THEN f
                       ELSE LET o == up[n - 1] IN IF o \in Functions THEN m.parent[o] ELSE o
  IN  \E n \in 0..Cardinality(Functions) : up[n] = a

\* IVConnectionPrivate::setData: the required interface is the source; between two of
\* one direction, the required one of the inner function or the provided one of the outer.
Oriented(m, a, b) ==
  LET outerA == IsAncestor(m, m.parent[a], m.parent[b])
      outerB == IsAncestor(m, m.parent[b], m.parent[a])
      reversed == \/ a \notin Required /\ b \in Required
                  \/ {a, b} \subseteq Required /\ outerA
                  \/ {a, b} \cap Required = {} /\ outerB /\ ~outerA
  IN  IF reversed THEN <<b, a>> ELSE <<a, b>>

\* The same of a group between two functions: its ends count as required interfaces.
OrientedGroup(m, g, from, to) ==
  IF IsAncestor(m, from, to) THEN Reverse(GroupEnds[g]) ELSE GroupEnds[g]
-------------------------------------------------------------------------------
(* Clones and instances.                                                       *)

SameKind(i, j) == Title[i] = Title[j] /\ (i \in Required <=> j \in Required)
ExistingClone(m, f, proto) == {i \in InterfacesOf(m, f) : SameKind(i, proto)}

\* IVInterface::setCloneOrigin: the old origin is not told.
SetCloneOrigin(m, i, origin) == [m EXCEPT !.cloneOf[i] = origin, !.clones[origin] = @ \cup {i}]

\* Each interface of f that has the name of one of the type's becomes its clone.
AdoptClones(m, f, type) ==
  FoldSet(LAMBDA t, n : FoldSet(LAMBDA i, k : SetCloneOrigin(k, i, t), n, ExistingClone(n, f, t)),
          m, InterfacesOf(m, type))

\* A type that does not remember its instances.
NoInstances(m, type) == {f \in {} : m.fnType[f] = type}

Instances(m, type) == {f \in Functions : m.fnType[f] = type}
-------------------------------------------------------------------------------
(* Groups of connections.                                                      *)

EndIn(m, c, f) == {i \in Range(m.ends[c]) : m.parent[i] = f}

\* IVConnectionGroup::addConnection: an interface is added before the other is known.
AddConnection(m, g, c) ==
  LET src == m.ends[g][1]
      tgt == m.ends[g][2]
      atS == EndIn(m, c, m.parent[src])
      atT == EndIn(m, c, m.parent[tgt])
      m1  == [m EXCEPT !.entities[src] = @ \cup atS]
  IN  IF c \in m.members[g] \/ atS = {} THEN m
      ELSE IF atT = {} THEN m1
      ELSE [m1 EXCEPT !.entities[tgt] = @ \cup atT, !.parent[c] = g, !.members[g] = @ \cup {c}]

\* Both ends leave the group's ends, though another member has one of them.
RemoveBothEnds(m, g, c) ==
  [m EXCEPT !.parent[c] = m.parent[g], !.members[g] = @ \ {c},
            !.entities[m.ends[g][1]] = @ \ Range(m.ends[c]),
            !.entities[m.ends[g][2]] = @ \ Range(m.ends[c])]

\* IVConnectionGroup::removeConnection: the source leaves the group's source, whichever
\* function that is in, and the target its target, when no other member has it.
RemoveConnection(m, g, c) ==
  LET rest    == m.members[g] \ {c}
      gone(k) == {m.ends[c][k]} \ UNION {Range(m.ends[d]) : d \in rest}
  IN  [m EXCEPT !.parent[c] = m.parent[g], !.members[g] = rest,
                !.entities[m.ends[g][1]] = @ \ gone(1),
                !.entities[m.ends[g][2]] = @ \ gone(2)]

AboutToBeRemoved(m, o) ==
  IF o \notin Groups \/ m.members[o] = {} THEN m
  ELSE [FoldSet(LAMBDA c, n : RemoveConnection(n, o, c), m, m.members[o])
          EXCEPT !.init[o] = m.members[o]]
-------------------------------------------------------------------------------
(* The model's objects.                                                        *)

RemoveObject(m, o) ==
  IF o \notin m.inModel THEN m
  ELSE LET n == [AboutToBeRemoved(m, o) EXCEPT !.inModel = @ \ {o}]
       IN  IF n.parent[o] \in Functions THEN RemoveChild(n, n.parent[o], o) ELSE n

\* What postInit refuses: an interface without a function, and an instance, or the
\* interface of one, whose type is not in the model.
Accepted(m, o) ==
  LET f == IF o \in Functions THEN o ELSE m.parent[o]
  IN  o \in Functions \cup Ifaces \cup IfaceGroups =>
        f \in Functions /\ (m.fnType[f] = Nobody \/ m.fnType[f] \in m.inModel)

PostInit(m, o) ==
  IF o \in Ifaces \cup IfaceGroups /\ m.fnType[m.parent[o]] # Nobody
  THEN AdoptClones(m, m.parent[o], m.fnType[m.parent[o]])
  ELSE IF o \in Groups
  THEN [FoldSet(LAMBDA c, n : AddConnection(n, o, c), m, m.init[o] \cap m.inModel)
          EXCEPT !.init[o] = {}]
  ELSE m

AddObject(m, o) ==
  LET n == [m EXCEPT !.inModel = @ \cup {o},
                     !.parent[o] = IF @ = Nobody THEN TheModel ELSE @]
  IN  IF o \in m.inModel THEN m
      ELSE IF Accepted(n, o) THEN PostInit(n, o) ELSE RemoveObject(n, o)
-------------------------------------------------------------------------------
(* What a removal takes along (CmdEntitiesRemove::collectRelatedItems).        *)

\* The groups an interface group ends are not taken along.
OnlyConnectionsOf(m, i) == {l \in Conns \cap m.inModel : i \in Range(m.ends[l])}
ConnectionsOf(m, i) == {l \in Links \cap m.inModel : i \in Range(m.ends[l])}
ChildFunctions(m, f) == {g \in Functions \ Types : m.parent[g] = f}

RECURSIVE Related(_, _)
Related(m, o) ==
  {o} \cup
  (IF o \in Groups THEN Range(m.ends[o])
   ELSE IF o \in Ifaces \cup IfaceGroups
   THEN UNION {Related(m, c) : c \in IF o \in Ifaces THEN m.clones[o] ELSE {}} \cup
        UNION {IF l \in Groups THEN Related(m, l) ELSE {l} : l \in ConnectionsOf(m, o)}
   ELSE IF o \in Functions
   THEN UNION {Related(m, i) : i \in m.kids[o] \cap (Ifaces \cup IfaceGroups)} \cup
        UNION {Related(m, f) : f \in ChildFunctions(m, o)}
   ELSE {})

\* The functions and comments among them in the order they are removed: what a
\* function holds, then the function.
RECURSIVE EntityOrder(_, _)
EntityOrder(m, o) ==
  IF o \in Functions
  THEN Append(FlattenSeq(SetToSeq({EntityOrder(m, f) : f \in ChildFunctions(m, o)})), o)
  ELSE IF o \in Comments THEN <<o>> ELSE << >>

FirstOnly(s) == FoldLeft(LAMBDA r, x : IF x \in Range(r) THEN r ELSE Append(r, x), << >>, s)

Removal(m, selection) ==
  LET all == UNION {Related(m, o) : o \in Range(selection)}
  IN  [kind     |-> "remove",
       links    |-> all \cap Links,
       ifaces   |-> all \cap (Ifaces \cup IfaceGroups),
       entities |-> FirstOnly(FlattenSeq([k \in DOMAIN selection |-> EntityOrder(m, selection[k])])),
       ungroup  |-> {<<g, c>> \in (all \cap Groups) \X Conns : c \in m.members[g]},
       gone     |-> all,
       parents  |-> [o \in Objects |-> Nobody]]

\* What redo stores for undo: the functions the objects are children of.
WithParents(m, cmd) ==
  LET n == FoldSet(LAMBDA p, k : RemoveConnection(k, p[1], p[2]), m, cmd.ungroup)
  IN  [cmd EXCEPT !.parents =
         [o \in Objects |-> IF o \in cmd.gone /\ n.parent[o] \in Functions THEN n.parent[o] ELSE Nobody]]

RedoRemove(m, cmd) ==
  LET n == FoldSet(LAMBDA p, k : RemoveConnection(k, p[1], p[2]), m, cmd.ungroup)
  IN  [FoldSet(LAMBDA o, k : AboutToBeRemoved(k, o), n, cmd.gone) EXCEPT
         !.inModel = @ \ cmd.gone,
         !.kids    = [f \in Functions |-> @[f] \ {o \in cmd.gone : n.parent[o] = f}],
         !.parent  = [o \in Objects |-> IF o \in cmd.gone THEN Held ELSE @[o]]]

\* The function gets its object back, but does not list it.
RestoreUnlisted(m, o, f) == AddObject([m EXCEPT !.parent[o] = f], o)

AdvancedRestore(m, o, f) ==
  AddObject(IF f # Nobody THEN AddChild(m, f, o) ELSE [m EXCEPT !.parent[o] = Nobody], o)

\* The connections stay out of the groups they were taken from.
UndoRemoveUngrouped(m, cmd) ==
  LET restore(o, n) == AdvancedRestore(n, o, cmd.parents[o])
  IN  FoldSet(restore, FoldSet(restore, FoldRight(restore, cmd.entities, m), cmd.ifaces), cmd.links)

UndoRemove(m, cmd) ==
  LET restore(o, n) == AdvancedRestore(n, o, cmd.parents[o])
      fns    == FoldRight(restore, cmd.entities, m)
      ifaces == FoldSet(restore, fns, cmd.ifaces)
      links  == FoldSet(restore, ifaces, cmd.links)
  IN  FoldSet(LAMBDA p, n : AddConnection(n, p[1], p[2]), links, cmd.ungroup)
-------------------------------------------------------------------------------
(* The commands' redo and undo.                                                *)

RedoIface(m, c) ==
  FoldSet(LAMBDA k, n : AddObject(AddChild(n, k[2], k[1]), k[1]),
          AddObject(AddChild(m, c.f, c.i), c.i), c.clones)
UndoIface(m, c) ==
  FoldSet(LAMBDA k, n : RemoveObject(RemoveChild(n, k[2], k[1]), k[1]),
          RemoveObject(RemoveChild(m, c.f, c.i), c.i), c.clones)

RedoGroup(m, c) ==
  LET src == GroupEnds[c.g][1]
      tgt == GroupEnds[c.g][2]
      n == AddChildIf(AddChild(AddChild(m, c.from, src), c.to, tgt), c.parent, c.g)
  IN  FoldSet(LAMBDA x, k : AddConnection(k, c.g, x),
              AddObject(AddObject(AddObject(n, src), tgt), c.g), c.conns)
UndoGroup(m, c) ==
  LET src == GroupEnds[c.g][1]
      tgt == GroupEnds[c.g][2]
      n == FoldSet(LAMBDA x, k : RemoveConnection(k, c.g, x), m, c.conns)
      r == RemoveObject(RemoveObject(RemoveObject(n, c.g), tgt), src)
  IN  RemoveChild(RemoveChild(RemoveChildIf(r, c.parent, c.g), c.to, tgt), c.from, src)

SetInstanceOf(m, f, type) == [m EXCEPT !.fnType[f] = type]

\* The clones of the type's interfaces that f has.
ClonesIn(m, f, type) ==
  InterfacesOf(m, f) \cap UNION {m.clones[t] : t \in InterfacesOf(m, type)}
LoseClones(m, f, type) == Removal(m, SetToSeq(ClonesIn(m, f, type)))

\* CmdEntityAttributeChange::handleFunctionInstanceOf; "lose" and "gain" are the
\* commands it makes on its first redo.
RedoInstanceOf(m, c) ==
  LET lost  == IF c.old = Nobody THEN m ELSE RedoRemove(m, c.lose)
      taken == IF c.new = Nobody THEN lost ELSE AdoptClones(lost, c.f, c.new)
  IN  SetInstanceOf(FoldSet(LAMBDA k, n : RedoIface(n, k), taken, c.gain), c.f, c.new)

\* When no interface was gained, the command to lose those of the new type is made
\* now, and its undo is called although it was never done.
UndoInstanceOf(m, c) ==
  LET ungained == IF c.new = Nobody THEN m
                  ELSE IF c.gain # {} THEN FoldSet(LAMBDA k, n : UndoIface(n, k), m, c.gain)
                  ELSE UndoRemove(m, LoseClones(m, c.f, c.new))
      back == IF c.old = Nobody THEN ungained ELSE UndoRemove(ungained, c.lose)
  IN  SetInstanceOf(back, c.f, c.old)

\* CmdEntitiesInstantiate undoes its parts in the order it did them.
RedoInstantiate(m, c) ==
  LET n == AddObject(AddChildIf(m, c.parent, c.f), c.f)
  IN  RedoInstanceOf(FoldSet(LAMBDA k, x : RedoIface(x, k), n, c.ifaces), c.attr)
UndoInstantiate(m, c) ==
  LET n == UndoInstanceOf(FoldSet(LAMBDA k, x : UndoIface(x, k), m, c.ifaces), c.attr)
  IN  RemoveChildIf(RemoveObject(n, c.f), c.parent, c.f)

Redo(m, c) ==
  CASE c.kind \in {"function", "comment"} -> AddObject(AddChildIf(m, c.parent, c.o), c.o)
    [] c.kind = "iface" -> RedoIface(m, c)
    [] c.kind = "connection" -> AddObject(AddChildIf(m, c.parent, c.o), c.o)
    [] c.kind = "group" -> RedoGroup(m, c)
    [] c.kind = "member" -> IF c.add THEN AddConnection(m, c.g, c.c) ELSE RemoveConnection(m, c.g, c.c)
    [] c.kind = "instanceOf" -> RedoInstanceOf(m, c)
    [] c.kind = "instantiate" -> RedoInstantiate(m, c)
    [] c.kind = "remove" -> RedoRemove(m, c)

Undo(m, c) ==
  CASE c.kind \in {"function", "comment", "connection"} ->
         RemoveChildIf(RemoveObject(m, c.o), c.parent, c.o)
    [] c.kind = "iface" -> UndoIface(m, c)
    [] c.kind = "group" -> UndoGroup(m, c)
    [] c.kind = "member" -> IF c.add THEN RemoveConnection(m, c.g, c.c) ELSE AddConnection(m, c.g, c.c)
    [] c.kind = "instanceOf" -> UndoInstanceOf(m, c)
    [] c.kind = "instantiate" -> UndoInstantiate(m, c)
    [] c.kind = "remove" -> UndoRemove(m, c)
===============================================================================
