------------------------------- MODULE NameSync -------------------------------
(* The functions of an interface view and the instances of message sequence    *)
(* charts that stand for them, kept alike by scs::MscSystemChecks.  Each editor *)
(* has an undo stack; a command that renames or removes something tells the     *)
(* other side from inside its redo or undo, and what is done there is pushed    *)
(* on the stack of its editor.                                                  *)
EXTENDS MscLists

CONSTANTS Functions,
          Interfaces,  \* of the functions, whose names are their own
          Cores,      \* the MSC editors, one for each file, in order
          Instances,  \* instances, in the order the charts list them
          Chart,      \* the chart of each instance
          CoreOf,     \* the editor that has the chart
          IV,         \* the editor of the interface view
          Names,
          Fold,       \* a name without regard to case
          None,       \* the name of what is in no model
          Sessions    \* records of TypeOfSession, each with a start

TypeOfSession ==
  [title   : [Functions \cup Interfaces -> Names \cup {None}],
   name    : [Range(Instances) -> Names \cup {None}],
   kinds   : SUBSET {"renameFunction", "renameInDialog", "renameInterface", "renameInstance",
                     "createInstance", "removeFunction"},
   answers : SUBSET [instances : BOOLEAN, missing : BOOLEAN, update : {"update", "add", "ignore"},
                     remove : BOOLEAN],
   adds    : SUBSET Range(Instances),  \* bound: the instances it may create
   most    : Nat]                      \* bound: commands on a stack

Editors == Range(Cores) \cup {IV}

ASSUME SyncAssumption ==
  /\ IV \notin Range(Cores) /\ None \notin Names
  /\ Functions \cap Interfaces = {} /\ (Functions \cup Interfaces) \cap Range(Instances) = {}
  /\ Len(Instances) \in Nat /\ DOMAIN Instances = 1..Len(Instances)
  /\ CoreOf \in [Range(Instances) -> Range(Cores)]
  /\ \A i, j \in Range(Instances) : Chart[i] = Chart[j] => CoreOf[i] = CoreOf[j]
  /\ Fold \in [Names -> Names]
  /\ Sessions \subseteq TypeOfSession
  /\ \A se \in Sessions, f, g \in Functions : se.title[f] # None /\ se.title[f] = se.title[g] => f = g

VARIABLES sys,     \* the models, the stacks and what is being run
          session

vars == <<sys, session>>

\* What the editor ed shows.
Document(s, ed) ==
  IF ed = IV THEN s.title ELSE [i \in {j \in Range(Instances) : CoreOf[j] = ed} |-> s.name[i]]

HasFunction(s, n) == \E f \in Functions : s.title[f] # None /\ Fold[s.title[f]] = Fold[n]
InstancesExist(s, n) == \E i \in Range(Instances) : s.name[i] = n
InChart(s, i, n) == \E j \in Range(Instances) : Chart[j] = Chart[i] /\ s.name[j] = n

\* Objects that no command made and that are in no model, for a new one.
Free(s, ed, o) == \A k \in 1..s.index[ed] : s.stack[ed][k].o # o
FreeFunctions(s) == {f \in Functions : s.title[f] = None /\ Free(s, IV, f)}

Rename(o, old, new) == [kind |-> IF o \in Range(Instances) THEN "name" ELSE "title",
                        o |-> o, old |-> old, new |-> new]
\* A renaming in the properties dialog is pushed on the QUndoStack and not through
\* CommandsStack, so that nobody hears of it.
RenameUnheard(f, old, new) == [kind |-> "unheard", o |-> f, old |-> old, new |-> new]
Create(o, n) == [kind |-> IF o \in Functions THEN "function" ELSE "instance",
                 o |-> o, old |-> None, new |-> n]
Delete(o, n) == [kind |-> IF o \in Functions THEN "remove" ELSE "delete",
                 o |-> o, old |-> n, new |-> None]

\* The object gets a name or, with None, leaves the model.
Given(s, o, n) ==
  IF o \in Range(Instances) THEN [s EXCEPT !.name[o] = n] ELSE [s EXCEPT !.title[o] = n]
-------------------------------------------------------------------------------
(* The stacks.                                                                  *)

\* Renamings of one instance are joined (mergeWith), those of functions are not.  A
\* slip: they are joined whatever they rename.
JoinsAny(last, c) == c.kind = "name" /\ last.kind = "name"
Joins(last, c) == c.kind = "name" /\ last.kind = "name" /\ last.o = c.o

\* What is left on the stack of what was done and not undone, with c.
Stacked(done, c) ==
  IF done # << >> /\ Joins(Last(done), c) THEN [done EXCEPT ![Len(done)].new = c.new]
  ELSE Append(done, c)

\* QUndoStack::push of c, whose redo came first and made r: it may itself have pushed on
\* this stack.  What was undone is destroyed, and with it a command whose redo is
\* running.
Pushed(r, ed, c) ==
  LET n     == r.index[ed]
      stack == Stacked(SubSeq(r.stack[ed], 1, n), c)
  IN  [r EXCEPT !.stack[ed] = stack,
                !.index[ed] = Len(stack),
                !.alive = @ /\ ~(ed = r.redoing /\ n < Len(r.stack[ed])),
                !.views[ed] = Append(SubSeq(@, 1, Len(stack)), Document(r, ed))]

\* A command that nobody follows: it tells of nothing, or m_nameUpdateRunning is set.
PushUnfollowed(s, ed, c) == Pushed(Given(s, c.o, c.new), ed, c)
-------------------------------------------------------------------------------
(* MscSystemChecks: what a signal does, with a the user's answers.              *)

\* The instances with one of the names These get a new one or, with None, are removed.
Asked(s, i, These, new) ==
  IF s.name[i] \notin These THEN s
  ELSE PushUnfollowed(s, CoreOf[i], IF new = None THEN Delete(i, s.name[i]) ELSE Rename(i, s.name[i], new))
AllAsked(s, These, new) ==
  LET after[n \in 0..Len(Instances)] ==
        IF n = 0 THEN s ELSE Asked(after[n - 1], Instances[n], These, new)
  IN  after[Len(Instances)]

\* MscSystemChecks::changeMscInstanceName; names are compared with regard to case.
ChangeInstanceName(s, old, new) == AllAsked(s, {old}, new)

\* IVEditorCore::addFunction and renameIVFunction
AddFunction(s, n) ==
  IF FreeFunctions(s) = {} THEN [s EXCEPT !.full = TRUE]
  ELSE PushUnfollowed(s, IV, Create(CHOOSE f \in FreeFunctions(s) : TRUE, n))
RenameIVFunction(s, old, new) ==
  LET f == CHOOSE g \in Functions : s.title[g] # None /\ Fold[s.title[g]] = Fold[old]
  IN  PushUnfollowed(s, IV, Rename(f, s.title[f], new))

\* m_nameUpdateRunning is set meanwhile.
UpdateBoth(s, old, new) == ChangeInstanceName(RenameIVFunction(s, old, new), old, new)

\* A slip: a function that has the new name is not looked for.
UpdateUnseen(s, i, old, first, a) ==
  IF HasFunction(s, old)
  THEN IF ~first \/ a.update = "update" THEN UpdateBoth(s, old, s.name[i]) ELSE s
  ELSE IF a.missing THEN AddFunction(s, s.name[i]) ELSE s

OnMscEntityNameChanged(s, i, old, first, a) ==
  LET new    == s.name[i]
      hasOld == HasFunction(s, old)
      hasNew == HasFunction(s, new)
  IN  CASE hasNew -> s
        [] ~hasNew /\ ~hasOld -> IF a.missing THEN AddFunction(s, new) ELSE s
        [] ~hasNew /\ hasOld ->
             IF ~first \/ a.update = "update" THEN UpdateBoth(s, old, new)
             ELSE IF a.update = "add" THEN AddFunction(s, new) ELSE s

\* When an undo or redo is followed, m_nameUpdateRunning is not set, and each new name is
\* heard of in turn.
Heard(s, i, old, new, a) ==
  IF s.name[i] # old THEN s
  ELSE Pushed(OnMscEntityNameChanged(Given(s, i, new), i, old, TRUE, a), CoreOf[i], Rename(i, old, new))
AllHeard(s, old, new, a) ==
  LET after[n \in 0..Len(Instances)] ==
        IF n = 0 THEN s ELSE Heard(after[n - 1], Instances[n], old, new, a)
  IN  after[Len(Instances)]

\* A slip: what is undone or redone is not followed.
FollowFirst(s, f, old, first, a) ==
  IF ~InstancesExist(s, old) \/ ~first \/ ~a.instances THEN s
  ELSE ChangeInstanceName(s, old, s.title[f])

OnEntityNameChanged(s, f, old, first, a) ==
  IF ~InstancesExist(s, old) \/ (first /\ ~a.instances) THEN s
  ELSE IF first THEN ChangeInstanceName(s, old, s.title[f]) ELSE AllHeard(s, old, s.title[f], a)

\* MSCEditorCore::removeMscInstances
RemoveMscInstances(s, title) == AllAsked(s, {n \in Names : Fold[n] = Fold[title]}, None)

\* A removal always counts as the first: its command never says otherwise.
OnEntitiesRemoved(s, title, a) == IF a.remove THEN RemoveMscInstances(s, title) ELSE s
-------------------------------------------------------------------------------
(* The commands.                                                                *)

\* CmdEntityAttributeChange and CmdEntityNameChange tell the other side, by whichever
\* way they are done; the former only if the name is another.
Changed(s, c, old, new, first, a) ==
  LET t == Given(s, c.o, new)
  IN  IF c.kind = "title" /\ new # old THEN OnEntityNameChanged(t, c.o, old, first, a)
      ELSE IF c.kind = "name" THEN OnMscEntityNameChanged(t, c.o, old, first, a)
      ELSE t

\* Removal tells when it is redone.
Redo(s, c, first, a) ==
  LET t == Changed(s, c, c.old, c.new, first, a)
  IN  IF c.kind = "remove" THEN OnEntitiesRemoved(t, c.old, a) ELSE t
Undo(s, c, a) == Changed(s, c, c.new, c.old, FALSE, a)

Push(s, ed, c, a) == Pushed(Redo(s, c, TRUE, a), ed, c)

\* QUndoStack::undo and redo; the index is set to the command before, but to the one
\* after whatever it is then.
UndoStep(s, ed, a) ==
  LET n == s.index[ed]
  IN  [Undo(s, s.stack[ed][n], a) EXCEPT !.index[ed] = n - 1]
RedoStep(s, ed, a) ==
  LET r == Redo([s EXCEPT !.redoing = ed], s.stack[ed][s.index[ed] + 1], FALSE, a)
  IN  [r EXCEPT !.index[ed] = @ + 1, !.redoing = None]
-------------------------------------------------------------------------------
(* The user.                                                                    *)

Init ==
  /\ session \in Sessions
  /\ sys = [title |-> session.title, name |-> session.name,
            stack |-> [ed \in Editors |-> << >>], index |-> [ed \in Editors |-> 0],
            redoing |-> None, alive |-> TRUE, full |-> FALSE,
            \* auxiliary: the documents the user had, one per prefix of each stack
            views |-> [ed \in Editors |-> <<Document(session, ed)>>]]

Done(s) ==
  /\ ~s.full /\ \A ed \in Editors : Len(s.stack[ed]) <= session.most
  /\ sys' = s
  /\ UNCHANGED session

\* IVFunctionTypeGraphicsItem::updateNameFromUi; names are unique with regard to case.
RenameFunction(f, n, a) ==
  /\ sys.title[f] # None /\ \A g \in Functions : sys.title[g] # n
  /\ Done(Push(sys, IV, Rename(f, sys.title[f], n), a))

\* PropertiesListModel::setData
RenameInDialog(f, n, a) ==
  /\ sys.title[f] # None /\ \A g \in Functions : sys.title[g] # n
  /\ Done(Push(sys, IV, RenameUnheard(f, sys.title[f], n), a))

\* IVVisualizationModel::onDataChanged, of an interface: it is heard of as that of a
\* function is, and instances that have its name are taken for its own.
RenameInterface(p, n, a) ==
  /\ sys.title[p] # None /\ sys.title[p] # n
  /\ Done(Push(sys, IV, Rename(p, sys.title[p], n), a))

\* InstanceItem::onNameEdited
RenameInstance(i, n, a) ==
  /\ sys.name[i] # None /\ ~InChart(sys, i, n)
  /\ Done(Push(sys, CoreOf[i], Rename(i, sys.name[i], n), a))

\* An instance is drawn, and its name accepted as it is or not
\* (InstanceItem::checkforInitialName).
CreateInstance(i, n, accepted, a) ==
  /\ i \in session.adds /\ sys.name[i] = None /\ Free(sys, CoreOf[i], i) /\ ~InChart(sys, i, n)
  /\ LET s == Push(sys, CoreOf[i], Create(i, n), a)
     IN  Done(IF accepted THEN OnMscEntityNameChanged(s, i, n, FALSE, a) ELSE s)

RemoveFunction(f, a) ==
  /\ sys.title[f] # None
  /\ Done(Push(sys, IV, Delete(f, sys.title[f]), a))

UndoIn(ed, a) == sys.index[ed] > 0 /\ Done(UndoStep(sys, ed, a))
RedoIn(ed, a) == sys.index[ed] < Len(sys.stack[ed]) /\ Done(RedoStep(sys, ed, a))

Next ==
  /\ sys.alive
  /\ \E a \in session.answers :
       \/ "renameFunction" \in session.kinds /\ \E f \in Functions, n \in Names : RenameFunction(f, n, a)
       \/ "renameInDialog" \in session.kinds /\ \E f \in Functions, n \in Names : RenameInDialog(f, n, a)
       \/ "renameInterface" \in session.kinds /\ \E p \in Interfaces, n \in Names :
            RenameInterface(p, n, a)
       \/ "renameInstance" \in session.kinds /\ \E i \in Range(Instances), n \in Names :
            RenameInstance(i, n, a)
       \/ "createInstance" \in session.kinds /\ \E i \in Range(Instances), n \in Names, b \in BOOLEAN :
            CreateInstance(i, n, b, a)
       \/ "removeFunction" \in session.kinds /\ \E f \in Functions : RemoveFunction(f, a)
       \/ \E ed \in Editors : UndoIn(ed, a) \/ RedoIn(ed, a)

Spec == Init /\ [][Next]_vars
-------------------------------------------------------------------------------
(* Properties.                                                                  *)

\* Every instance has its function, and no chart has two instances of one name.
Agree(s) ==
  /\ \A i \in Range(Instances) : s.name[i] # None => HasFunction(s, s.name[i])
  /\ \A i, j \in Range(Instances) :
       Chart[i] = Chart[j] /\ s.name[i] = s.name[j] /\ s.name[i] # None => i = j

\* The instances that there may be in the session se.
Present(se) == se.adds \cup {i \in Range(Instances) : se.name[i] # None}

\* The user who starts with names that agree, has everything updated and neither adds nor
\* removes; no two names differ by case alone, and no file has instances in two charts.
Updating(se) ==
  /\ se.answers = {[instances |-> TRUE, missing |-> TRUE, update |-> "update", remove |-> TRUE]}
  /\ se.kinds \subseteq {"renameFunction", "renameInstance"}
  /\ \A m, n \in Names : Fold[m] = Fold[n] => m = n
  /\ \A i, j \in Present(se) : CoreOf[i] = CoreOf[j] => Chart[i] = Chart[j]
  /\ Agree(se)

\* Every file has one instance at the most, and no interface is renamed.
Alone(se) ==
  /\ \A i, j \in Present(se) : CoreOf[i] = CoreOf[j] => i = j
  /\ "renameInterface" \notin se.kinds

\* A renaming does not reach the stack whose command is run.
Exact(se) == Updating(se) \/ Alone(se)

\* "Checks all instances if they are defined in the IV model as function"
\* (ivsystemchecks.cpp:64): if the user has everything updated, every instance goes on
\* having its function, and no chart gets two instances of one name, whatever is renamed,
\* undone and redone in any editor.
NamesAgree == Updating(session) => Agree(sys)

\* No function gets the name of another through what is done to the instances, unless
\* interfaces are renamed.
FunctionNamesUnique ==
  "renameInterface" \notin session.kinds =>
    \A f, g \in Functions : sys.title[f] # None /\ sys.title[f] = sys.title[g] => f = g

\* Every editor shows what its stack says, whatever the others' commands did.
StacksHold == \A ed \in Editors : Document(sys, ed) = sys.views[ed][sys.index[ed] + 1]

\* Undo and redo in one editor bring back the documents its user had, although they
\* change the other editors' documents and stacks, and those change it.
UndoRestores == Exact(session) => StacksHold

\* No command is destroyed while it runs.
NoneDestroyed == sys.alive
===============================================================================
