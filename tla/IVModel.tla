-------------------------------- MODULE IVModel --------------------------------
(* The interface view's undo stack (ive::cmd::CommandsStack over QUndoStack)   *)
(* and the commands a user gives.  A command finds what it will create and     *)
(* what a removal takes along when it is made; the stack calls redo and undo   *)
(* later, on whatever model there is.                                          *)
EXTENDS IVModelOps

CONSTANTS Sessions,      \* the sessions: the commands that make the file a session
                         \* starts from, the kinds of command then given, and, as
                         \* a bound, the number of commands on the stack
          ChildOf,       \* bound: the functions a new function may be drawn in
          Drawn          \* bound: the interfaces that are drawn or cloned

ASSUME IVSessionAssumption ==
  /\ \A s \in Sessions : DOMAIN s = {"start", "kinds", "most"} /\ s.most \in Nat
  /\ ChildOf \in [Functions -> SUBSET (Functions \cup {Nobody})]
  /\ Drawn \subseteq Ifaces

VARIABLES model,
          stack,   \* QUndoStack's commands, oldest first
          index,   \* how many of them are done
          views,   \* auxiliary: the models the user had, one per prefix of stack
          session  \* auxiliary: which of the sessions this is

vars == <<model, stack, index, views, session>>

\* What the user sees of a model, and what is written to a file.
View(m) ==
  LET Fns == Functions \cap m.inModel
      Ifs == Ifaces \cap m.inModel
  IN  [objects  |-> m.inModel,
       parent   |-> [o \in m.inModel |-> m.parent[o]],
       kids     |-> [f \in Fns |-> m.kids[f]],
       ends     |-> [l \in Links \cap m.inModel |-> m.ends[l]],
       members  |-> [g \in Groups \cap m.inModel |-> m.members[g]],
       entities |-> [i \in IfaceGroups \cap m.inModel |-> m.entities[i]],
       fnType   |-> [f \in Fns |-> m.fnType[f]],
       cloneOf  |-> [i \in Ifs |-> m.cloneOf[i]],
       clones   |-> [i \in Ifs |-> m.clones[i] \cap m.inModel]]
-------------------------------------------------------------------------------
(* New objects.                                                                *)

\* The objects a command makes; they are destroyed with it.
RECURSIVE Created(_)
Created(c) ==
  CASE c.kind \in {"function", "comment", "connection"} -> {c.o}
    [] c.kind = "iface" -> {c.i} \cup {k[1] : k \in c.clones}
    [] c.kind = "group" -> {c.g} \cup Range(GroupEnds[c.g])
    [] c.kind = "instanceOf" -> UNION {Created(k) : k \in c.gain}
    [] c.kind = "instantiate" -> {c.f} \cup UNION {Created(k) : k \in c.ifaces}
    [] OTHER -> {}

Renewed(m, O) ==
  [m EXCEPT !.parent   = [o \in Objects |-> IF o \in O THEN Nobody ELSE @[o]],
            !.kids     = [f \in Functions |-> IF f \in O THEN {} ELSE @[f]],
            !.ends     = [l \in Links |-> IF l \in O THEN << >> ELSE @[l]],
            !.members  = [g \in Groups |-> IF g \in O THEN {} ELSE @[g]],
            !.init     = [g \in Groups |-> IF g \in O THEN {} ELSE @[g]],
            !.entities = [i \in IfaceGroups |-> IF i \in O THEN {} ELSE @[i]],
            !.fnType   = [f \in Functions |-> IF f \in O THEN Nobody ELSE @[f]],
            !.cloneOf  = [i \in Ifaces |-> IF {i, @[i]} \cap O = {} THEN @[i] ELSE Nobody],
            !.clones   = [i \in Ifaces |-> IF i \in O THEN {} ELSE @[i] \ O]]

\* The clones a command makes with their origins: they are clones from the start.
NewClones(c) ==
  CASE c.kind = "iface" -> {<<k[1], c.i>> : k \in c.clones}
    [] c.kind = "instanceOf" -> {<<k.i, k.origin>> : k \in c.gain}
    [] c.kind = "instantiate" -> {<<k.i, k.origin>> : k \in c.ifaces}
    [] OTHER -> {}

\* The model the command is made on: its new objects are there, outside the model.
Prepared(m, c) ==
  LET n == Renewed(m, Created(c))
      ended == CASE c.kind = "connection" -> [n EXCEPT !.ends[c.o] = c.ends]
                 [] c.kind = "group" -> [n EXCEPT !.ends[c.g] = OrientedGroup(m, c.g, c.from, c.to)]
                 [] OTHER -> n
  IN  FoldSet(LAMBDA p, k : SetCloneOrigin(k, p[1], p[2]), ended, NewClones(c))

\* A removal looks up the parents each time it is done.
Noting(m, c) ==
  CASE c.kind = "remove" -> WithParents(m, c)
    [] c.kind = "instanceOf" -> [c EXCEPT !.lose = WithParents(m, @)]
    [] OTHER -> c

Performed(m, c) == Redo(m, Noting(m, c))
-------------------------------------------------------------------------------
(* The stack.                                                                  *)

Init ==
  /\ session \in Sessions
  /\ model = FoldLeft(LAMBDA m, c : Performed(Prepared(m, c), c), EmptyModel, session.start)
  /\ stack = << >>
  /\ index = 0
  /\ views = <<View(model)>>

\* QUndoStack::push: the command is done and what was undone is dropped; what that
\* made is destroyed.
Push(c) ==
  LET dropped == UNION {Created(stack[k]) : k \in (index + 1)..Len(stack)}
      m == Prepared(Renewed(model, dropped), c)
  IN  /\ index < session.most
      /\ model' = Performed(m, c)
      /\ stack' = Append(SubSeq(stack, 1, index), Noting(m, c))
      /\ index' = index + 1
      /\ views' = Append(SubSeq(views, 1, index + 1), View(model'))

UndoOne ==
  /\ index > 0
  /\ model' = Undo(model, stack[index])
  /\ index' = index - 1
  /\ UNCHANGED <<stack, views>>

RedoOne ==
  /\ index < Len(stack)
  /\ LET c == Noting(model, stack[index + 1])
     IN  /\ model' = Redo(model, c)
         /\ stack' = [stack EXCEPT ![index + 1] = c]
  /\ index' = index + 1
  /\ UNCHANGED views
-------------------------------------------------------------------------------
(* The user's commands.                                                        *)

In(o) == o \in model.inModel
FunctionOr(o) == o = Nobody \/ In(o)

\* No command that is done made the object and the start lacks it, so a new one may
\* take its name.
New(o) == o \notin views[1].objects /\ \A k \in 1..index : o \notin Created(stack[k])

\* New objects are alike, so that one choice of them stands for all.
OneOf(S) == IF S = {} THEN {} ELSE {CHOOSE x \in S : TRUE}
NewLike(i) == OneOf({j \in Drawn : New(j) /\ SameKind(j, i)})

\* Distinct new clones of interface i, one for each of the functions F.
CloneChoices(i, F) ==
  {k \in SUBSET (Drawn \X F) :
     /\ \A f \in F : \E p \in k : p[2] = f
     /\ \A p, q \in k : (p[1] = q[1] <=> p[2] = q[2])
     /\ \A p \in k : SameKind(p[1], i) /\ p[1] # i /\ New(p[1])}

DrawFunction(f, p) ==
  /\ New(f) /\ p \in ChildOf[f] /\ FunctionOr(p) /\ p \notin Types
  /\ Push([kind |-> "function", o |-> f, parent |-> p])

DrawComment(c, p) ==
  /\ New(c) /\ FunctionOr(p)
  /\ Push([kind |-> "comment", o |-> c, parent |-> p])

\* CreatorTool::createInterfaceCommand refuses an instance; every instance of a type
\* gets a clone, one that was removed too.  Bound: no two interfaces of a function
\* have the same name and direction.
DrawInterface(i, f) ==
  /\ i \in NewLike(i) /\ In(f) /\ model.fnType[f] = Nobody
  /\ \A g \in {f} \cup Instances(model, f) : ExistingClone(model, g, i) = {}
  /\ \E k \in OneOf(CloneChoices(i, Instances(model, f))) :
       Push([kind |-> "iface", i |-> i, f |-> f, origin |-> Nobody, clones |-> k])

\* The parent is the function that both ends are drawn in.
CommonParent(a, b) ==
  LET p == model.parent[model.parent[a]]
      q == model.parent[model.parent[b]]
  IN  IF p = q THEN p ELSE IF p = model.parent[b] THEN p ELSE IF q = model.parent[a] THEN q ELSE TheModel

\* validateConnectionCreate and canConnect: between nested functions the directions
\* are the same, between others they differ; kinds and parameters are left out.
Connectable(a, b) ==
  LET f == model.parent[a]
      g == model.parent[b]
  IN  /\ f # g /\ {f, g} \subseteq Functions \ Types
      /\ IsAncestor(model, f, g) \/ IsAncestor(model, g, f) <=> (a \in Required <=> b \in Required)

DrawConnection(c, a, b) ==
  /\ c \in OneOf({d \in Conns : New(d)}) /\ In(a) /\ In(b) /\ Connectable(a, b)
  /\ LET p == CommonParent(a, b)
     IN  Push([kind |-> "connection", o |-> c, ends |-> Oriented(model, a, b),
               parent |-> IF p \in Functions THEN p ELSE Nobody])

\* Connections between the same two functions, in any direction, are put in a group.
FunctionsOf(c) == [k \in {1, 2} |-> model.parent[model.ends[c][k]]]
Joinable(c, s, t) ==
  In(c) /\ Range(FunctionsOf(c)) = {s, t} /\ {s, t} \subseteq Functions /\ model.parent[c] \notin Groups
MakeGroup(g, C) ==
  /\ New(g) /\ C # {} /\ C \subseteq model.inModel
  /\ \E c \in C :
       LET F == FunctionsOf(c)
       IN  /\ \A d \in C : Joinable(d, F[1], F[2])
           /\ Push([kind |-> "group", g |-> g, from |-> F[1], to |-> F[2], conns |-> C,
                    parent |-> IF model.parent[c] \in Functions THEN model.parent[c] ELSE Nobody])

\* IVConnectionGroupModel::setData; the last member stays.
ChangeGroup(g, c, add) ==
  /\ In(g)
  /\ LET s == model.parent[model.ends[g][1]]
         t == model.parent[model.ends[g][2]]
     IN  IF add THEN Joinable(c, s, t) ELSE c \in model.members[g] /\ model.members[g] # {c}
  /\ Push([kind |-> "member", g |-> g, c |-> c, add |-> add])

\* The clones a function gets when it becomes an instance; one it has is adopted.
NewClonesOf(I) ==
  OneOf({k \in [I -> {j \in Drawn : New(j)}] :
           \A i \in I : SameKind(k[i], i) /\ \A j \in I : k[i] = k[j] => i = j})
Gains(f, type) == {i \in InterfacesOf(model, type) : ExistingClone(model, f, i) = {}}
CloneCommands(k, f) ==
  {[kind |-> "iface", i |-> k[i], f |-> f, origin |-> i, clones |-> {}] : i \in DOMAIN k}
NothingRemoved == Removal(model, << >>)

InstanceOf(f, type) ==
  /\ In(f) /\ f \notin Types /\ model.fnType[f] # type
  /\ type = Nobody \/ In(type)
  /\ \E k \in NewClonesOf(IF type = Nobody THEN {} ELSE Gains(f, type)) :
       Push([kind |-> "instanceOf", f |-> f, old |-> model.fnType[f], new |-> type,
             lose |-> IF model.fnType[f] = Nobody THEN NothingRemoved
                      ELSE LoseClones(model, f, model.fnType[f]),
             gain |-> CloneCommands(k, f)])

\* The new instance has the type's interfaces before it becomes one.
Instantiate(type, f, p) ==
  /\ New(f) /\ f \notin Types /\ In(type) /\ p \in ChildOf[f] /\ FunctionOr(p)
  /\ \E k \in NewClonesOf(InterfacesOf(model, type)) :
       Push([kind |-> "instantiate", f |-> f, parent |-> p, ifaces |-> CloneCommands(k, f),
             attr |-> [kind |-> "instanceOf", f |-> f, old |-> Nobody, new |-> type,
                       lose |-> NothingRemoved, gain |-> {}]])

\* CreatorTool::removeSelectedItems: the clone of an interface is refused.
Selectable(o) == In(o) /\ (o \in Ifaces => model.cloneOf[o] = Nobody)
RemoveSelected(selection) ==
  /\ \A o \in Range(selection) : Selectable(o)
  /\ Push(Removal(model, selection))

\* The removals that undo can take back: no member of a group, nor the end of one, goes
\* without its group; no comment and no nested type is left behind; no type goes that
\* still has instances.
Whole(c) ==
  LET gone == c.gone
  IN  /\ \A g \in Groups \cap model.inModel : g \in gone \/
           \A d \in model.members[g] : ({d} \cup Range(model.ends[d])) \cap gone = {}
      /\ \A f \in gone \cap Functions : model.kids[f] \cap (Comments \cup Types) = {}
      /\ \A f \in Functions \cap model.inModel : model.fnType[f] \notin gone

\* Connections that lead from s, as their group does: where a member leads against its
\* group, an interface is left in the group's ends when the member leaves.  (A group
\* leads from a nested function to the one around it.)
OneWay(C, s) ==
  \A c \in C : FunctionsOf(c)[1] = s /\ ~IsAncestor(model, s, FunctionsOf(c)[2])

\* An instance_of whose undo takes back no interface that was adopted.
NothingAdopted(f, type) ==
  type # Nobody => \A i \in InterfacesOf(model, type) : ExistingClone(model, f, i) = {}

Selections == {<<o>> : o \in Objects} \cup
              {<<o, p>> : o \in Functions \cup Links, p \in Functions \cup Ifaces}

Commands ==
  \/ "function" \in session.kinds /\ \E f \in Functions : \E p \in ChildOf[f] : DrawFunction(f, p)
  \/ "comment" \in session.kinds /\ \E c \in Comments, p \in Functions \cup {Nobody} : DrawComment(c, p)
  \/ "iface" \in session.kinds /\ \E i \in Ifaces, f \in Functions :
       Instances(model, f) \subseteq model.inModel /\ DrawInterface(i, f)
  \/ "ifaceAny" \in session.kinds /\ \E i \in Ifaces, f \in Functions : DrawInterface(i, f)
  \/ "connection" \in session.kinds /\ \E c \in Conns, a, b \in Ifaces : DrawConnection(c, a, b)
  \/ "group" \in session.kinds /\ \E g \in Groups, C \in SUBSET Conns, f \in Functions :
       C \subseteq model.inModel /\ OneWay(C, f) /\ MakeGroup(g, C)
  \/ "member" \in session.kinds /\ \E g \in Groups, c \in Conns, add \in BOOLEAN :
       {c, g} \subseteq model.inModel /\ OneWay({c}, model.parent[model.ends[g][1]]) /\ ChangeGroup(g, c, add)
  \/ "groupAny" \in session.kinds /\ \E g \in Groups, C \in SUBSET Conns : MakeGroup(g, C)
  \/ "groupAny" \in session.kinds /\ \E g \in Groups, c \in Conns, add \in BOOLEAN : ChangeGroup(g, c, add)
  \/ "instanceOf" \in session.kinds /\ \E f \in Functions, t \in Types \cup {Nobody} :
       NothingAdopted(f, t) /\ InstanceOf(f, t)
  \/ "adopt" \in session.kinds /\ \E f \in Functions, t \in Types : InstanceOf(f, t)
  \/ "instantiate" \in session.kinds /\ \E t \in Types, f \in Functions : \E p \in ChildOf[f] :
       Instantiate(t, f, p)
  \/ "remove" \in session.kinds /\ \E s \in Selections :
       Whole(Removal(model, s)) /\ RemoveSelected(s)
  \/ "removeAny" \in session.kinds /\ \E s \in Selections : RemoveSelected(s)

Next == UNCHANGED session /\ (Commands \/ UndoOne \/ RedoOne)

Spec == Init /\ [][Next]_vars
-------------------------------------------------------------------------------
(* Properties.                                                                 *)

\* Sessions without a command whose undo loses something.
Lossy == {"groupAny", "ifaceAny", "adopt", "removeAny"}
Exact == session.kinds \cap Lossy = {}

\* Undo and redo bring back exactly the models the user had, whatever was done and
\* undone between: objects, owners, ends, groups, types and clones.
UndoRestores == Exact => View(model) = views[index + 1]

\* Sessions in which nothing that is put back is refused: no type is removed while it
\* has instances, and no interface is adopted (its undo takes it from its function).
HasInstances ==
  \/ session.kinds \cap {"instanceOf", "instantiate"} # {}
  \/ \E k \in DOMAIN session.start : session.start[k].kind \in {"instanceOf", "instantiate"}
Accepting == "adopt" \notin session.kinds /\ ("removeAny" \in session.kinds => ~HasInstances)

\* In sessions that refuse nothing, a function lists the objects of the model whose
\* parent it is, and no object is listed by two functions, whatever is lost.  In exact
\* ones an object of the model is in a function of the model, or in the model itself
\* and listed nowhere, or is a connection in a group of the model.
OwnedOnce ==
  /\ Accepting =>
       /\ \A o \in model.inModel : model.parent[o] \in Functions => o \in model.kids[model.parent[o]]
       /\ \A f, h \in Functions : f # h => model.kids[f] \cap model.kids[h] = {}
  /\ Exact => \A o \in model.inModel :
    \/ model.parent[o] \in Functions \cap model.inModel
    \/ model.parent[o] = TheModel /\ \A f \in Functions \cap model.inModel : o \notin model.kids[f]
    \/ model.parent[o] \in Groups \cap model.inModel /\ o \in model.members[model.parent[o]]

\* No connection and no group is left in the model without both of its ends, whatever
\* is removed and taken back, though groups keep members that are gone.
LinksEndInModel ==
  Accepting => \A l \in Links \cap model.inModel : Range(model.ends[l]) \subseteq model.inModel

\* What a group's two ends stand for is what its members join, and no connection is a
\* member of two groups.
GroupsAgree ==
  Exact => \A g \in Groups \cap model.inModel :
    /\ model.members[g] \subseteq model.inModel
    /\ UNION {Range(model.ends[c]) : c \in model.members[g]}
         = UNION {model.entities[i] : i \in Range(GroupEnds[g])}
    /\ \A h \in (Groups \cap model.inModel) \ {g} : model.members[g] \cap model.members[h] = {}

\* An instance has one clone of each interface of its type.
InstancesMirror ==
  Exact => \A f \in Functions \cap model.inModel : model.fnType[f] # Nobody =>
    \A i \in InterfacesOf(model, model.fnType[f]) \cap model.inModel :
      Cardinality({j \in InterfacesOf(model, f) : model.cloneOf[j] = i}) = 1

================================================================================
