------------------------------ MODULE MscDocuments -----------------------------
(* The documents of an MSC file (a tree of msc::MscDocument, whose leaves hold  *)
(* charts), the commands that change the tree, and their undo stack.            *)
EXTENDS MscLists

CONSTANTS Docs,           \* MscDocument
          Charts,         \* MscChart
          Root,           \* the document of the model
          Nobody,         \* no document
          Sessions,       \* the sessions of a user
          ExactSessions,  \* those without the commands whose undo loses something
          Start,          \* the tree of the file that each begins with
          MaxCommands     \* bound: commands on the stack of each session

\* HierarchyOr and HierarchyParallel are as HierarchyAnd, HierarchyRepeat and
\* HierarchyException as HierarchyIs.
Types == {"AND", "IS", "LEAF"}

\* live and charted are the objects that were not destroyed; a list may name others.
Trees == [live    : SUBSET Docs,
          charted : SUBSET Charts,
          drawn   : SUBSET Charts,              \* the charts with something in them
          type    : [Docs -> Types],
          owner   : [Docs -> Docs \cup {Nobody}],  \* the QObject parent
          kids    : [Docs -> Seq(Docs)],
          charts  : [Docs -> Seq(Charts)]]

\* The documents that the documents P lead to, P included.
Below(m, P) ==
  LET closed == {S \in SUBSET Docs : P \subseteq S /\ \A d \in S : Range(m.kids[d]) \subseteq S}
  IN  {d \in Docs : \A S \in closed : d \in S}
Under(m, p) == Below(m, {p})
InTree(m) == Under(m, Root)

\* What a reader makes of a file: a tree of documents with charts of their own, and
\* nothing besides.
IsFile(m) ==
  /\ m.live = InTree(m) /\ m.charted = UNION {Range(m.charts[d]) : d \in InTree(m)}
  /\ m.drawn \subseteq m.charted /\ m.owner[Root] = Nobody
  /\ \A d \in InTree(m) : /\ NoRepeat(m.kids[d]) /\ NoRepeat(m.charts[d])
                          /\ \A k \in Range(m.kids[d]) : m.owner[k] = d
                          /\ \A e \in InTree(m) \ {d} : Range(m.charts[d]) \cap Range(m.charts[e]) = {}
  /\ \A d \in Docs \ InTree(m) : m.owner[d] = Nobody /\ m.kids[d] = << >> /\ m.charts[d] = << >>

\* No document holds both documents and charts.
Unmixed(m) == \A d \in Docs : m.kids[d] = << >> \/ m.charts[d] = << >>

ASSUME MscDocumentsAssumption ==
  /\ Root \in Docs /\ Nobody \notin Docs
  /\ Start \in [Sessions -> Trees] /\ \A s \in Sessions : IsFile(Start[s])
  /\ ExactSessions \subseteq Sessions /\ \A s \in ExactSessions : Unmixed(Start[s])
  /\ MaxCommands \in [Sessions -> Nat]
-------------------------------------------------------------------------------
(* MscDocument.                                                                 *)

ChildAllowed(m, p) == m.type[p] # "LEAF" /\ (m.type[p] = "IS" => m.kids[p] = << >>)

\* The QObject parent stays what it was.
AddDocumentUnowned(m, p, d, k) ==
  IF d \in Range(m.kids[p]) \/ ~ChildAllowed(m, p) THEN m
  ELSE [m EXCEPT !.kids[p] = InsertOrAppend(@, k, d)]
AddDocument(m, p, d, k) ==
  IF d \in Range(m.kids[p]) \/ ~ChildAllowed(m, p) THEN m
  ELSE [m EXCEPT !.owner[d] = p, !.kids[p] = InsertOrAppend(@, k, d)]

AddChart(m, p, c) == IF c \in Range(m.charts[p]) THEN m ELSE [m EXCEPT !.charts[p] = Append(@, c)]
\* The charts cs, none of them twice, are added in turn.
AddCharts(m, p, cs) == [m EXCEPT !.charts[p] = @ \o KeepOnly(cs, Range(cs) \ Range(@))]

\* new MscChart: one that nobody knows of.
NewChart(m, known) == CHOOSE c \in Charts : c \notin m.charted \cup known
AddNewChart(m, p, known) ==
  LET c == NewChart(m, known)
  IN  AddChart([m EXCEPT !.charted = @ \cup {c}, !.drawn = @ \ {c}], p, c)

\* What is destroyed with the documents D: what they list and what they own.
DestroyedWith(m, D) ==
  LET closed == {S \in SUBSET Docs : /\ D \subseteq S /\ \A d \in S : Range(m.kids[d]) \subseteq S
                                     /\ \A d \in Docs \ S : m.owner[d] \notin S}
  IN  {d \in Docs : \A S \in closed : d \in S}

Clear(m, p) ==
  LET docs == DestroyedWith(m, Range(m.kids[p]))
      gone == UNION {Range(m.charts[d]) : d \in docs \cup {p}}
  IN  [m EXCEPT !.live = @ \ docs, !.charted = @ \ gone, !.kids[p] = << >>, !.charts[p] = << >>]

\* The list still names them.
DestroyCharts(m, p) == [m EXCEPT !.charted = @ \ Range(m.charts[p])]
ClearCharts(m, p) == [m EXCEPT !.charted = @ \ Range(m.charts[p]), !.charts[p] = << >>]
ClearIfCharts(m, p) == IF m.charts[p] = << >> THEN m ELSE Clear(m, p)

\* The document keeps its QObject parent.
RemoveDocument(m, p, d) == [m EXCEPT !.kids[p] = RemoveAll(@, d)]
RemoveAndClear(m, p, d) ==
  IF d \in Range(m.kids[p]) THEN Clear(RemoveDocument(m, p, d), d) ELSE m

IsBare(m, p) == m.kids[p] = << >> /\ m.charts[p] = << >>
-------------------------------------------------------------------------------
(* The commands.  known are the charts that commands on the stack point to; a   *)
(* command that lost its document does nothing.                                 *)

\* A redo that finds the document destroyed adds it again: it stands for the new document
\* that is made then, which the other commands on the stack do not know; here they do.
RedoCreate(m, c, known) ==
  LET m1 == ClearIfCharts(m, c.parent)
      m2 == IF m1.charts[c.doc] = << >> /\ m1.type[c.doc] = "LEAF" THEN AddNewChart(m1, c.doc, known)
            ELSE m1
  IN  AddDocument(m2, c.parent, c.doc, -1)
UndoCreate(m, c) ==
  LET n == RemoveAndClear(m, c.parent, c.doc)
  IN  IF IsBare(n, c.parent) THEN AddCharts(n, c.parent, c.charts) ELSE n

\* addDocument refuses the document if it is there or if no more are allowed.
Moves(m, c) == c.doc \notin Range(m.kids[c.to]) /\ ChildAllowed(m, c.to)
RedoMove(m, c, known) ==
  LET n == ClearIfCharts(m, c.to)
      r == RemoveDocument(AddDocument(n, c.to, c.doc, -1), c.from, c.doc)
  IN  IF ~Moves(n, c) THEN n
      ELSE IF IsBare(r, c.from) /\ r.type[c.from] = "LEAF" THEN AddNewChart(r, c.from, known) ELSE r

\* The document comes back at the end.
UndoMoveToEnd(m, c) ==
  LET n == AddCharts(RemoveDocument(m, c.to, c.doc), c.to, c.charts)
  IN  AddDocument(ClearIfCharts(n, c.from), c.from, c.doc, -1)
UndoMove(m, c) ==
  LET n == AddCharts(RemoveDocument(m, c.to, c.doc), c.to, c.charts)
  IN  AddDocument(ClearIfCharts(n, c.from), c.from, c.doc, c.index)

RedoDelete(m, c, known) ==
  LET n == RemoveDocument(m, c.parent, c.doc)
  IN  IF IsBare(n, c.parent) THEN AddNewChart(n, c.parent, known) ELSE n
\* (Left out: the lists of the chart that is shown are put back too, which had been
\* copied; MscUndo has that.)
UndoDelete(m, c) == AddDocument(ClearIfCharts(m, c.parent), c.parent, c.doc, c.index)

MakesChart(m, c) == c.new = "LEAF" /\ IsBare(m, c.doc)
RedoType(m, c, known) ==
  LET n == [m EXCEPT !.type[c.doc] = c.new]
  IN  IF MakesChart(m, c) THEN AddNewChart(n, c.doc, known) ELSE n
UndoType(m, c) ==
  LET n == [m EXCEPT !.type[c.doc] = c.old] IN IF c.made THEN ClearCharts(n, c.doc) ELSE n

\* CmdPasteChart on a document that holds documents.
RedoPaste(m, c) ==
  IF m.kids[c.parent] = << >> THEN m ELSE AddDocument(m, c.parent, c.doc, -1)
UndoPaste(m, c) ==
  IF m.kids[c.parent] = << >> THEN m ELSE RemoveDocument(m, c.parent, c.doc)

\* The documents a command points to, and those it needs alive.
PointsTo(c) ==
  CASE c.kind \in {"create", "paste", "delete"} -> {c.doc, c.parent}
    [] c.kind = "move" -> {c.doc, c.from, c.to}
    [] c.kind = "type" -> {c.doc}
    [] OTHER -> {}
Needs(c) ==
  CASE c.kind \in {"create", "paste", "delete"} -> {c.parent}
    [] c.kind = "move" -> {c.doc, c.from, c.to}
    [] c.kind = "type" -> {c.doc}
    [] OTHER -> {}

Redo(m, c, known) ==
  IF ~(Needs(c) \subseteq m.live) THEN m
  ELSE CASE c.kind = "create" -> RedoCreate(m, c, known)
         [] c.kind = "move" -> RedoMove(m, c, known)
         [] c.kind = "delete" -> RedoDelete(m, c, known)
         [] c.kind = "type" -> RedoType(m, c, known)
         [] c.kind = "paste" -> RedoPaste(m, c)
         [] c.kind = "draw" -> [m EXCEPT !.drawn = @ \cup ({c.chart} \cap m.charted)]

Undo(m, c) ==
  IF ~(Needs(c) \subseteq m.live) THEN m
  ELSE CASE c.kind = "create" -> UndoCreate(m, c)
         [] c.kind = "move" -> UndoMove(m, c)
         [] c.kind = "delete" -> UndoDelete(m, c)
         [] c.kind = "type" -> UndoType(m, c)
         [] c.kind = "paste" -> UndoPaste(m, c)
         [] c.kind = "draw" -> [m EXCEPT !.drawn = @ \ {c.chart}]

\* A type change finds out at each redo whether it makes a chart.
Noting(m, c) == IF c.kind = "type" /\ MakesChart(m, c) THEN [c EXCEPT !.made = TRUE] ELSE c
-------------------------------------------------------------------------------
(* The editor: its undo stack, and what a user does in the hierarchy view.      *)

VARIABLES model,
          stack,    \* QUndoStack's commands, oldest first
          index,    \* how many of them are done
          astray,   \* auxiliary: some command has lost its way, as Misses says
          views,    \* auxiliary: what the user had, one per prefix of stack
          session   \* auxiliary: which of the sessions this is

vars == <<model, stack, index, astray, views, session>>
Exact == session \in ExactSessions

\* What is written to a file.
View(m) == [type   |-> [d \in InTree(m) |-> m.type[d]],
            kids   |-> [d \in InTree(m) |-> m.kids[d]],
            charts |-> [d \in InTree(m) |-> [k \in DOMAIN m.charts[d] |-> m.charts[d][k] \in m.drawn]]]

\* A destroyed object is listed: what happens next is not defined.
Dangling(m) ==
  \E d \in InTree(m) : ~(Range(m.kids[d]) \subseteq m.live /\ Range(m.charts[d]) \subseteq m.charted)

\* The command finds a document destroyed, or is to move one again where there is no
\* place for it any more.
Misses(m, c) ==
  \/ ~(PointsTo(c) \subseteq m.live)
  \/ c.kind = "move" /\ ~Moves(ClearIfCharts(m, c.to), c)

ChartsOf(c) == CASE c.kind \in {"create", "move"} -> Range(c.charts)
                 [] c.kind \in {"draw", "paste"} -> {c.chart}
                 [] OTHER -> {}
Known(s) == UNION {ChartsOf(s[k]) : k \in DOMAIN s}

\* The documents that the user, or a command of s, can get at.
Reached(m, s) == Below(m, {Root} \cup UNION {PointsTo(s[k]) : k \in DOMAIN s})
\* The others cannot be told from one another.
Forgetful(m, s) ==
  LET lost == Docs \ Reached(m, s)
      gone == UNION {Range(m.charts[d]) : d \in lost}
  IN  [m EXCEPT !.live = @ \ lost, !.charted = @ \ gone, !.drawn = @ \ gone,
                !.type = [d \in Docs |-> IF d \in lost THEN "AND" ELSE @[d]],
                !.owner = [d \in Docs |-> IF d \in lost THEN Nobody ELSE @[d]],
                !.kids = [d \in Docs |-> IF d \in lost THEN << >> ELSE @[d]],
                !.charts = [d \in Docs |-> IF d \in lost THEN << >> ELSE @[d]]]

\* Commands that were undone are destroyed by the next one.
Done == SubSeq(stack, 1, index)
Now == Forgetful(model, Done)
\* With a new document d of type t.
Spare == Docs \ Reached(model, Done)
Renewed(d, t) == [Now EXCEPT !.live = @ \cup {d}, !.type[d] = t]

\* A change of the type of the document whose type was changed last is merged into
\* that change: the redo has been called, what it made is forgotten.
Merges(c) == c.kind = "type" /\ index > 0 /\ stack[index].kind = "type" /\ stack[index].doc = c.doc

\* Bound: there is a chart to make.
Supplied(m, known) == Charts \ (m.charted \cup known) # {}

Push(before, c) ==
  LET known == Known(Done) \cup ChartsOf(c)
      m     == Redo(before, c, known)
      after == IF Merges(c) THEN [Done EXCEPT ![index].new = c.new] ELSE Append(Done, Noting(before, c))
  IN  /\ Len(after) <= MaxCommands[session] /\ Supplied(before, known)
      /\ model' = m
      /\ stack' = after
      /\ index' = Len(after)
      /\ astray' = (astray \/ Misses(before, c))
      /\ views' = IF Exact THEN Append(SubSeq(views, 1, Len(after)), View(m)) ELSE views

\* How many documents a document of type t can be given back.
Admits(t, k) == t = "AND" \/ (t = "IS" /\ k <= 1) \/ k = 0

\* MSCEditorCore::addDocument
Create ==
  \E p \in InTree(model), d \in Spare, t \in Types :
    /\ ChildAllowed(model, p)
    /\ Exact => model.charts[p] = << >>
    /\ Push(Renewed(d, t), [kind |-> "create", doc |-> d, parent |-> p, charts |-> model.charts[p]])

\* HierarchyViewModel::documentMoved
Move ==
  \E d \in InTree(model) \ {Root} : \E to \in InTree(model) \ Under(model, d) :
    LET from == model.owner[d] IN
    /\ to # from
    /\ ChildAllowed(model, to)
    /\ Exact => model.charts[to] = << >> /\ Admits(model.type[from], Len(model.kids[from]))
    /\ Push(Now, [kind |-> "move", doc |-> d, from |-> from, to |-> to, charts |-> model.charts[to],
                  index |-> IndexOf(model.kids[from], d)])

\* EntityDeleteTool::deleteSelectedItems, of one document.
Delete ==
  \E d \in InTree(model) \ {Root} :
    LET p == model.owner[d] IN
    /\ Exact => Admits(model.type[p], Len(model.kids[p]))
    /\ Push(Now, [kind |-> "delete", doc |-> d, parent |-> p, index |-> IndexOf(model.kids[p], d)])

\* DocumentItemModel::updateHierarchyType
ChangeType ==
  \E d \in InTree(model) : \E t \in Types \ {model.type[d]} :
    LET c == [kind |-> "type", doc |-> d, old |-> model.type[d], new |-> t, made |-> FALSE] IN
    /\ Exact /\ Merges(c) => ~MakesChart(model, c) /\ ~stack[index].made
    /\ Push(Now, c)

\* MainModel::pasteChart
Paste ==
  \E p \in InTree(model), d \in Spare :
    LET c == NewChart(Now, Known(Done)) IN
    /\ model.kids[p] # << >> /\ Supplied(Now, Known(Done))
    /\ Push([Renewed(d, "LEAF") EXCEPT !.charted = @ \cup {c}, !.drawn = @ \cup {c}, !.charts[d] = <<c>>],
            [kind |-> "paste", doc |-> d, parent |-> p, chart |-> c])

\* A command of the chart view, on the chart of a document.
Draw ==
  \E d \in InTree(model) : \E c \in Range(model.charts[d]) \ model.drawn :
    /\ Exact => c \in Start[session].charted
    /\ Push(Now, [kind |-> "draw", chart |-> c])

\* QUndoStack::undo, QUndoStack::redo
UndoOne ==
  /\ index > 0
  /\ model' = Undo(model, stack[index])
  /\ index' = index - 1
  /\ astray' = (astray \/ ~(PointsTo(stack[index]) \subseteq model.live))
  /\ UNCHANGED <<stack, views>>
RedoOne ==
  LET c == stack[index + 1] IN
  /\ index < Len(stack) /\ Supplied(model, Known(stack))
  /\ model' = Redo(model, c, Known(stack))
  /\ stack' = [stack EXCEPT ![index + 1] = Noting(model, c)]
  /\ index' = index + 1
  /\ astray' = (astray \/ Misses(model, c))
  /\ UNCHANGED views

Init ==
  /\ session \in Sessions
  /\ model = Start[session]
  /\ stack = << >>
  /\ index = 0
  /\ astray = FALSE
  /\ views = <<View(model)>>

Next ==
  /\ ~Dangling(model)
  /\ Create \/ Move \/ Delete \/ ChangeType \/ Paste \/ Draw \/ UndoOne \/ RedoOne
  /\ UNCHANGED session

Spec == Init /\ [][Next]_vars
-------------------------------------------------------------------------------
(* Properties.                                                                  *)

\* Undo and redo bring back the trees the user had: types, orders, and which charts
\* have something in them.
UndoRestores == Exact => View(model) = views[index + 1]

\* The documents are a tree, whatever else the commands lose: a document is listed once,
\* by its QObject parent, and never under itself.  (Not so once a command is astray.)
DocumentsAreATree ==
  ~astray =>
  /\ \A p \in InTree(model) : NoRepeat(model.kids[p]) /\ \A d \in Range(model.kids[p]) : model.owner[d] = p
  /\ \A p \in InTree(model) : \A d \in Range(model.kids[p]) : p \notin Under(model, d)

\* Nothing that was destroyed is listed.
NothingDangles == Exact => ~Dangling(model)
================================================================================
