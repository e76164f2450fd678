-------------------------- MODULE MscDocumentsProofs --------------------------
(* The documents stay a tree, and undo brings back the trees the user had,    *)
(* whatever the file and however many commands are given.                     *)
EXTENDS MscDocuments, MscListsProofs

\* What a list of documents names are documents.
LEMMA KidsAreDocs ==
  ASSUME NEW m \in Trees, NEW p \in Docs
  PROVE  m.kids[p] \in Seq(Docs) /\ Range(m.kids[p]) \subseteq Docs
<1>1. m.kids[p] \in Seq(Docs)
  BY DEF Trees
<1>. QED  BY <1>1, RangeOfSeq

\* The documents that some lead to are the least set that has them and what its members
\* list.
LEMMA BelowIs ==
  ASSUME NEW m \in Trees, NEW P \in SUBSET Docs
  PROVE  /\ P \subseteq Below(m, P) /\ Below(m, P) \subseteq Docs
         /\ \A d \in Below(m, P) : Range(m.kids[d]) \subseteq Below(m, P)
         /\ \A S \in SUBSET Docs :
              P \subseteq S /\ (\A d \in S : Range(m.kids[d]) \subseteq S) => Below(m, P) \subseteq S
<1>1. \A d \in Docs : Range(m.kids[d]) \subseteq Docs
  BY KidsAreDocs
<1>. QED  BY <1>1 DEF Below

\* But for the first ones, each is listed by another.
LEMMA BelowIsListed ==
  ASSUME NEW m \in Trees, NEW P \in SUBSET Docs, NEW d \in Below(m, P) \ P
  PROVE  \E q \in Below(m, P) : d \in Range(m.kids[q])
<1>. SUFFICES ASSUME \A q \in Below(m, P) : d \notin Range(m.kids[q])  PROVE FALSE
  OBVIOUS
<1>. DEFINE S == Below(m, P) \ {d}
<1>1. /\ P \subseteq Below(m, P) /\ Below(m, P) \subseteq Docs
      /\ \A q \in Below(m, P) : Range(m.kids[q]) \subseteq Below(m, P)
  BY BelowIs
<1>2. S \in SUBSET Docs /\ P \subseteq S /\ \A q \in S : Range(m.kids[q]) \subseteq S
  BY <1>1
<1>3. Below(m, P) \subseteq S
  <2>. HIDE DEF S
  <2>. QED  BY <1>2, BelowIs
<1>. QED  BY <1>3

LEMMA UnderIs ==
  ASSUME NEW m \in Trees, NEW p \in Docs
  PROVE  /\ p \in Under(m, p) /\ Under(m, p) \subseteq Docs
         /\ \A d \in Under(m, p) : Range(m.kids[d]) \subseteq Under(m, p)
         /\ \A d \in Under(m, p) \ {p} : \E q \in Under(m, p) : d \in Range(m.kids[q])
         /\ \A S \in SUBSET Docs :
              p \in S /\ (\A d \in S : Range(m.kids[d]) \subseteq S) => Under(m, p) \subseteq S
<1>1. {p} \in SUBSET Docs
  OBVIOUS
<1>2. \A d \in Below(m, {p}) \ {p} : \E q \in Below(m, {p}) : d \in Range(m.kids[q])
  BY <1>1, BelowIsListed
<1>3. /\ {p} \subseteq Below(m, {p}) /\ Below(m, {p}) \subseteq Docs
      /\ \A d \in Below(m, {p}) : Range(m.kids[d]) \subseteq Below(m, {p})
      /\ \A S \in SUBSET Docs :
           {p} \subseteq S /\ (\A d \in S : Range(m.kids[d]) \subseteq S) => Below(m, {p}) \subseteq S
  BY <1>1, BelowIs
<1>. QED  BY <1>2, <1>3 DEF Under

\* What is under a document is under what lists it.
LEMMA UnderListed ==
  ASSUME NEW m \in Trees, NEW p \in Docs, NEW d \in Under(m, p)
  PROVE  Under(m, d) \subseteq Under(m, p)
<1>1. /\ Under(m, p) \in SUBSET Docs /\ d \in Docs
      /\ \A x \in Under(m, p) : Range(m.kids[x]) \subseteq Under(m, p)
  BY UnderIs
<1>. QED  BY <1>1, UnderIs
-------------------------------------------------------------------------------
(* The operations on one document.                                              *)

\* n lists no more than m, in each list what it keeps of it.
Fewer(m, n) ==
  /\ n \in Trees
  /\ \A p \in Docs : /\ Range(n.kids[p]) \subseteq Range(m.kids[p])
                     /\ NoRepeat(m.kids[p]) => NoRepeat(n.kids[p])
                     /\ \A d \in Range(n.kids[p]) : n.owner[d] = m.owner[d]

LEMMA FewerSame ==
  ASSUME NEW m, NEW n \in Trees, n.kids = m.kids, n.owner = m.owner
  PROVE  Fewer(m, n)
BY DEF Fewer

LEMMA EmptyList == Range(<< >>) = {} /\ NoRepeat(<< >>)
BY DEF Range, NoRepeat

\* A list of documents is cut short.
LEMMA FewerOneList ==
  ASSUME NEW m \in Trees, NEW n \in Trees, n.owner = m.owner, NEW p \in Docs, NEW l,
         \A q \in Docs : n.kids[q] = IF q = p THEN l ELSE m.kids[q], Range(l) \subseteq Range(m.kids[p]),
         NoRepeat(m.kids[p]) => NoRepeat(l)
  PROVE  Fewer(m, n)
BY DEF Fewer

LEMMA ClearIs ==
  ASSUME NEW m \in Trees, NEW p \in Docs
  PROVE  LET n == Clear(m, p)
         IN  /\ n \in Trees /\ n.owner = m.owner /\ n.type = m.type /\ n.drawn = m.drawn
             /\ \A q \in Docs : n.kids[q] = IF q = p THEN << >> ELSE m.kids[q]
             /\ \A q \in Docs : n.charts[q] = IF q = p THEN << >> ELSE m.charts[q]
             /\ n.live \subseteq m.live /\ n.charted \subseteq m.charted
             /\ m.kids[p] = << >> => /\ n.live = m.live
                                     /\ n.charted = m.charted \ Range(m.charts[p])
<1>. DEFINE docs == DestroyedWith(m, Range(m.kids[p]))
            gone == UNION {Range(m.charts[d]) : d \in docs \cup {p}}
            n == [m EXCEPT !.live = m.live \ docs, !.charted = m.charted \ gone, !.kids[p] = << >>,
                           !.charts[p] = << >>]
<1>1. Clear(m, p) = n
  BY DEF Clear
<1>2. m.kids[p] = << >> => docs = {}
  BY EmptyList DEF DestroyedWith
<1>3. m.kids[p] = << >> => gone = Range(m.charts[p])
  BY <1>2
<1>. HIDE DEF docs, gone
<1>4. << >> \in Seq(Docs) /\ << >> \in Seq(Charts)
  OBVIOUS
<1>5. /\ n \in Trees /\ n.owner = m.owner /\ n.type = m.type /\ n.drawn = m.drawn
      /\ \A q \in Docs : n.kids[q] = IF q = p THEN << >> ELSE m.kids[q]
      /\ \A q \in Docs : n.charts[q] = IF q = p THEN << >> ELSE m.charts[q]
      /\ n.live = m.live \ docs /\ n.charted = m.charted \ gone
  BY <1>4 DEF Trees
<1>. HIDE DEF n
<1>. QED  BY <1>1, <1>2, <1>3, <1>5

LEMMA ClearIfChartsFewer ==
  ASSUME NEW m \in Trees, NEW p \in Docs
  PROVE  LET n == ClearIfCharts(m, p)
         IN  /\ Fewer(m, n) /\ n.owner = m.owner /\ n.type = m.type
             /\ n.charted \subseteq m.charted /\ n.live \subseteq m.live
             /\ \A q \in Docs : n.kids[q] = m.kids[q] \/ n.kids[q] = << >>
<1>. DEFINE n == ClearIfCharts(m, p)
<1>1. CASE m.charts[p] = << >>
  <2>1. n = m
    BY <1>1 DEF ClearIfCharts
  <2>. QED  BY <2>1, FewerSame
<1>2. CASE m.charts[p] # << >>
  <2>1. n = Clear(m, p)
    BY <1>2 DEF ClearIfCharts
  <2>2. /\ n \in Trees /\ n.owner = m.owner /\ n.type = m.type
        /\ \A q \in Docs : n.kids[q] = IF q = p THEN << >> ELSE m.kids[q]
        /\ n.live \subseteq m.live /\ n.charted \subseteq m.charted
    <3>. DEFINE r == Clear(m, p)
    <3>1. /\ r \in Trees /\ r.owner = m.owner /\ r.type = m.type
          /\ \A q \in Docs : r.kids[q] = IF q = p THEN << >> ELSE m.kids[q]
          /\ r.live \subseteq m.live /\ r.charted \subseteq m.charted
      BY ClearIs
    <3>. HIDE DEF r
    <3>. QED  BY <2>1, <3>1 DEF r
  <2>3. Fewer(m, n)
    BY <2>2, EmptyList, FewerOneList
  <2>4. \A q \in Docs : n.kids[q] = m.kids[q] \/ n.kids[q] = << >>
    BY <2>2
  <2>. QED  BY <2>2, <2>3, <2>4
<1>. QED  BY <1>1, <1>2

LEMMA RemoveDocumentIs ==
  ASSUME NEW m \in Trees, NEW p \in Docs, NEW d
  PROVE  LET n == RemoveDocument(m, p, d)
         IN  /\ Fewer(m, n) /\ n.owner = m.owner /\ n.type = m.type /\ n.live = m.live
             /\ n.charts = m.charts /\ n.charted = m.charted /\ n.drawn = m.drawn
             /\ n.kids[p] = RemoveAll(m.kids[p], d)
             /\ Range(n.kids[p]) = Range(m.kids[p]) \ {d}
             /\ \A q \in Docs \ {p} : n.kids[q] = m.kids[q]
<1>. DEFINE l == RemoveAll(m.kids[p], d)
            n == [m EXCEPT !.kids[p] = l]
<1>1. m.kids[p] \in Seq(Docs)
  BY KidsAreDocs
<1>2. /\ l \in Seq(Docs) /\ Range(l) = Range(m.kids[p]) \cap (Range(m.kids[p]) \ {d})
      /\ NoRepeat(m.kids[p]) => NoRepeat(l)
  BY <1>1, KeepOnlyProperties DEF RemoveAll
<1>. HIDE DEF l
<1>3. /\ n \in Trees /\ n.owner = m.owner /\ n.type = m.type /\ n.live = m.live
      /\ n.charts = m.charts /\ n.charted = m.charted /\ n.drawn = m.drawn
      /\ n.kids = [m.kids EXCEPT ![p] = l]
  BY <1>2 DEF Trees
<1>4. RemoveDocument(m, p, d) = n
  BY DEF RemoveDocument, l
<1>. HIDE DEF n
<1>5. \A q \in Docs : n.kids[q] = IF q = p THEN l ELSE m.kids[q]
  BY <1>3 DEF Trees
<1>6. Fewer(m, n)
  <2>1. Range(l) \subseteq Range(m.kids[p])
    BY <1>2
  <2>. QED  BY <1>2, <1>3, <1>5, <2>1 DEF Fewer
<1>. QED  BY <1>2, <1>3, <1>4, <1>5, <1>6 DEF l

LEMMA AddDocumentIs ==
  ASSUME NEW m \in Trees, NEW p \in Docs, NEW d \in Docs, NEW k \in Int,
         d \notin Range(m.kids[p]), ChildAllowed(m, p), NEW n, n = AddDocument(m, p, d, k)
  PROVE  /\ n \in Trees /\ n.type = m.type
         /\ \A q \in Docs : n.owner[q] = IF q = d THEN p ELSE m.owner[q]
         /\ n.live = m.live /\ n.charts = m.charts /\ n.charted = m.charted /\ n.drawn = m.drawn
         /\ n.kids[p] = InsertOrAppend(m.kids[p], k, d)
         /\ \A x \in Docs : x \in Range(n.kids[p]) <=> x \in Range(m.kids[p]) \/ x = d
         /\ NoRepeat(m.kids[p]) => NoRepeat(n.kids[p])
         /\ \A q \in Docs \ {p} : n.kids[q] = m.kids[q]
<1>. DEFINE l == InsertOrAppend(m.kids[p], k, d)
            r == [m EXCEPT !.owner[d] = p, !.kids[p] = l]
<1>1. m.kids[p] \in Seq(Docs)
  BY KidsAreDocs
<1>2. /\ l \in Seq(Docs) /\ Range(l) = Range(m.kids[p]) \cup {d}
      /\ NoRepeat(m.kids[p]) => NoRepeat(l)
  <2>. DEFINE s == m.kids[p]
  <2>1. d \notin Range(s)
    OBVIOUS
  <2>2. s \in Seq(Docs)
    BY <1>1
  <2>3. d \in Docs
    OBVIOUS
  <2>. HIDE DEF s
  <2>4. InsertOrAppend(s, k, d) \in Seq(Docs)
    BY <2>2, <2>3, InsertOrAppendProperties
  <2>5. Range(InsertOrAppend(s, k, d)) = Range(s) \cup {d}
    BY <2>2, <2>3, InsertOrAppendProperties
  <2>6. NoRepeat(s) => NoRepeat(InsertOrAppend(s, k, d))
    BY <2>1, <2>2, <2>3, InsertOrAppendProperties, Zenon
  <2>. QED  BY <2>4, <2>5, <2>6 DEF s
<1>. HIDE DEF l
<1>3. /\ r \in Trees /\ r.owner = [m.owner EXCEPT ![d] = p] /\ r.type = m.type
      /\ r.live = m.live /\ r.charts = m.charts /\ r.charted = m.charted /\ r.drawn = m.drawn
      /\ r.kids = [m.kids EXCEPT ![p] = l]
  BY <1>2 DEF Trees
<1>4. r = n
  BY DEF AddDocument, l
<1>. HIDE DEF r
<1>5. /\ \A q \in Docs : r.kids[q] = IF q = p THEN l ELSE m.kids[q]
      /\ \A q \in Docs : r.owner[q] = IF q = d THEN p ELSE m.owner[q]
  BY <1>3 DEF Trees
<1>. QED  BY <1>2, <1>3, <1>4, <1>5 DEF l

LEMMA AddDocumentRefused ==
  ASSUME NEW m, NEW p, NEW d, NEW k, d \in Range(m.kids[p]) \/ ~ChildAllowed(m, p)
  PROVE  AddDocument(m, p, d, k) = m
BY DEF AddDocument

LEMMA AddNewChartIs ==
  ASSUME NEW m \in Trees, NEW p \in Docs, NEW known, Supplied(m, known)
  PROVE  LET n == AddNewChart(m, p, known)
             c == NewChart(m, known)
         IN  /\ c \in Charts \ (m.charted \cup known)
             /\ n \in Trees /\ n.kids = m.kids /\ n.owner = m.owner /\ n.type = m.type
             /\ n.live = m.live /\ n.charted = m.charted \cup {c} /\ n.drawn = m.drawn \ {c}
             /\ m.charts[p] = << >> => n.charts[p] = <<c>>
             /\ \A q \in Docs \ {p} : n.charts[q] = m.charts[q]
<1>. DEFINE c == NewChart(m, known)
            n1 == [m EXCEPT !.charted = m.charted \cup {c}, !.drawn = m.drawn \ {c}]
            l == IF c \in Range(m.charts[p]) THEN m.charts[p] ELSE Append(m.charts[p], c)
            n == [n1 EXCEPT !.charts[p] = l]
<1>1. c \in Charts \ (m.charted \cup known)
  BY DEF Supplied, NewChart
<1>2. m.charts[p] \in Seq(Charts)
  BY DEF Trees
<1>3. l \in Seq(Charts)
  BY <1>1, <1>2
<1>. HIDE DEF c
<1>4. /\ n1 \in Trees /\ n1.kids = m.kids /\ n1.owner = m.owner /\ n1.type = m.type
      /\ n1.live = m.live /\ n1.charted = m.charted \cup {c} /\ n1.drawn = m.drawn \ {c}
      /\ n1.charts = m.charts
  BY <1>1 DEF Trees
<1>. HIDE DEF n1, l
<1>5. /\ n \in Trees /\ n.kids = n1.kids /\ n.owner = n1.owner /\ n.type = n1.type
      /\ n.live = n1.live /\ n.charted = n1.charted /\ n.drawn = n1.drawn
      /\ \A q \in Docs : n.charts[q] = IF q = p THEN l ELSE n1.charts[q]
  BY <1>3, <1>4 DEF Trees
<1>6. AddNewChart(m, p, known) = AddChart(n1, p, c)
  BY DEF AddNewChart, c, n1
<1>7. CASE c \in Range(m.charts[p])
  <2>1. l = m.charts[p]
    BY <1>7 DEF l
  <2>2. AddChart(n1, p, c) = n1
    BY <1>4, <1>7 DEF AddChart
  <2>3. m.charts[p] # << >>
    BY <1>7, EmptyList
  <2>. QED  BY <1>1, <1>4, <1>6, <2>1, <2>2, <2>3 DEF c, l
<1>8. CASE c \notin Range(m.charts[p])
  <2>1. l = Append(m.charts[p], c)
    BY <1>8 DEF l
  <2>2. AddChart(n1, p, c) = n
    BY <1>4, <1>8, <2>1 DEF AddChart
  <2>3. m.charts[p] = << >> => l = <<c>>
    BY <2>1
  <2>. QED  BY <1>1, <1>4, <1>5, <1>6, <2>2, <2>3 DEF c
<1>. QED  BY <1>7, <1>8

LEMMA AddChartsIs ==
  ASSUME NEW m \in Trees, NEW p \in Docs, NEW cs \in Seq(Charts)
  PROVE  LET n == AddCharts(m, p, cs)
         IN  /\ n \in Trees /\ n.kids = m.kids /\ n.owner = m.owner /\ n.type = m.type
             /\ n.live = m.live /\ n.charted = m.charted /\ n.drawn = m.drawn
             /\ n.charts[p] = m.charts[p] \o KeepOnly(cs, Range(cs) \ Range(m.charts[p]))
             /\ \A q \in Docs \ {p} : n.charts[q] = m.charts[q]
<1>. DEFINE l == m.charts[p] \o KeepOnly(cs, Range(cs) \ Range(m.charts[p]))
            n == [m EXCEPT !.charts[p] = l]
<1>1. m.charts[p] \in Seq(Charts)
  BY DEF Trees
<1>2. KeepOnly(cs, Range(cs) \ Range(m.charts[p])) \in Seq(Charts)
  BY KeepOnlyProperties
<1>3. l \in Seq(Charts)
  BY <1>1, <1>2
<1>4. AddCharts(m, p, cs) = n
  BY DEF AddCharts
<1>. HIDE DEF l
<1>5. /\ n \in Trees /\ n.kids = m.kids /\ n.owner = m.owner /\ n.type = m.type
      /\ n.live = m.live /\ n.charted = m.charted /\ n.drawn = m.drawn
      /\ \A q \in Docs : n.charts[q] = IF q = p THEN l ELSE m.charts[q]
  BY <1>3 DEF Trees
<1>. HIDE DEF n
<1>. QED  BY <1>4, <1>5 DEF l

LEMMA ClearChartsIs ==
  ASSUME NEW m \in Trees, NEW p \in Docs
  PROVE  LET n == ClearCharts(m, p)
         IN  /\ n \in Trees /\ n.kids = m.kids /\ n.owner = m.owner /\ n.type = m.type
             /\ n.live = m.live /\ n.charted = m.charted \ Range(m.charts[p]) /\ n.drawn = m.drawn
             /\ \A q \in Docs : n.charts[q] = IF q = p THEN << >> ELSE m.charts[q]
<1>. DEFINE n == [m EXCEPT !.charted = m.charted \ Range(m.charts[p]), !.charts[p] = << >>]
<1>1. << >> \in Seq(Charts)
  OBVIOUS
<1>2. /\ n \in Trees /\ n.kids = m.kids /\ n.owner = m.owner /\ n.type = m.type
      /\ n.live = m.live /\ n.charted = m.charted \ Range(m.charts[p]) /\ n.drawn = m.drawn
      /\ \A q \in Docs : n.charts[q] = IF q = p THEN << >> ELSE m.charts[q]
  BY <1>1 DEF Trees
<1>3. ClearCharts(m, p) = n
  BY DEF ClearCharts
<1>. HIDE DEF n
<1>. QED  BY <1>2, <1>3

LEMMA TypeIs ==
  ASSUME NEW m \in Trees, NEW d \in Docs, NEW t \in Types
  PROVE  LET n == [m EXCEPT !.type[d] = t]
         IN  /\ n \in Trees /\ n.kids = m.kids /\ n.owner = m.owner /\ n.charts = m.charts
             /\ n.live = m.live /\ n.charted = m.charted /\ n.drawn = m.drawn
             /\ \A q \in Docs : n.type[q] = IF q = d THEN t ELSE m.type[q]
BY DEF Trees

\* The clearing that makes room for documents.
LEMMA RoomSupplied ==
  ASSUME NEW m, NEW n, NEW known, Supplied(m, known), n.charted \subseteq m.charted
  PROVE  Supplied(n, known)
BY DEF Supplied
-------------------------------------------------------------------------------
(* The commands.                                                                *)

Commands ==
       [kind : {"create"}, doc : Docs, parent : Docs, charts : Seq(Charts)]
  \cup {x \in [kind : {"move"}, doc : Docs, from : Docs, to : Docs, charts : Seq(Charts), index : Int] :
          x.from # x.to}
  \cup [kind : {"delete"}, doc : Docs, parent : Docs, index : Int]
  \cup [kind : {"type"}, doc : Docs, old : Types, new : Types, made : BOOLEAN]
  \cup [kind : {"paste"}, doc : Docs, parent : Docs, chart : Charts]
  \cup [kind : {"draw"}, chart : Charts]

LEMMA CommandKinds ==
  ASSUME NEW c \in Commands
  PROVE  \/ /\ c.kind = "create" /\ c.doc \in Docs /\ c.parent \in Docs /\ c.charts \in Seq(Charts)
            /\ PointsTo(c) = {c.doc, c.parent} /\ Needs(c) = {c.parent}
         \/ /\ c.kind = "move" /\ c.doc \in Docs /\ c.from \in Docs /\ c.to \in Docs /\ c.from # c.to
            /\ c.charts \in Seq(Charts) /\ c.index \in Int
            /\ PointsTo(c) = {c.doc, c.from, c.to} /\ Needs(c) = {c.doc, c.from, c.to}
         \/ /\ c.kind = "delete" /\ c.doc \in Docs /\ c.parent \in Docs /\ c.index \in Int
            /\ PointsTo(c) = {c.doc, c.parent} /\ Needs(c) = {c.parent}
         \/ /\ c.kind = "type" /\ c.doc \in Docs /\ c.old \in Types /\ c.new \in Types
            /\ c.made \in BOOLEAN /\ PointsTo(c) = {c.doc} /\ Needs(c) = {c.doc}
         \/ /\ c.kind = "paste" /\ c.doc \in Docs /\ c.parent \in Docs /\ c.chart \in Charts
            /\ PointsTo(c) = {c.doc, c.parent} /\ Needs(c) = {c.parent}
         \/ /\ c.kind = "draw" /\ c.chart \in Charts
            /\ PointsTo(c) = {} /\ Needs(c) = {}
<1>1. \/ c \in [kind : {"create"}, doc : Docs, parent : Docs, charts : Seq(Charts)]
      \/ /\ c \in [kind : {"move"}, doc : Docs, from : Docs, to : Docs, charts : Seq(Charts), index : Int]
         /\ c.from # c.to
      \/ c \in [kind : {"delete"}, doc : Docs, parent : Docs, index : Int]
      \/ c \in [kind : {"type"}, doc : Docs, old : Types, new : Types, made : BOOLEAN]
      \/ c \in [kind : {"paste"}, doc : Docs, parent : Docs, chart : Charts]
      \/ c \in [kind : {"draw"}, chart : Charts]
  BY DEF Commands
<1>2. CASE c \in [kind : {"create"}, doc : Docs, parent : Docs, charts : Seq(Charts)]
  BY <1>2 DEF PointsTo, Needs
<1>3. CASE /\ c \in [kind : {"move"}, doc : Docs, from : Docs, to : Docs, charts : Seq(Charts), index : Int]
           /\ c.from # c.to
  BY <1>3 DEF PointsTo, Needs
<1>4. CASE c \in [kind : {"delete"}, doc : Docs, parent : Docs, index : Int]
  BY <1>4 DEF PointsTo, Needs
<1>5. CASE c \in [kind : {"type"}, doc : Docs, old : Types, new : Types, made : BOOLEAN]
  BY <1>5 DEF PointsTo, Needs
<1>6. CASE c \in [kind : {"paste"}, doc : Docs, parent : Docs, chart : Charts]
  BY <1>6 DEF PointsTo, Needs
<1>7. CASE c \in [kind : {"draw"}, chart : Charts]
  BY <1>7 DEF PointsTo, Needs
<1>. QED  BY <1>1, <1>2, <1>3, <1>4, <1>5, <1>6, <1>7
-------------------------------------------------------------------------------
(* The tree that the commands are about.  Lists may have lost documents, so the *)
(* proof keeps a parent for each document beside the lists: P is the parents at *)
(* one place of the stack, and what is listed is listed where P says.           *)

Parents == [Docs -> Docs \cup {Nobody}]

\* No documents lead round to themselves.
Forest(P) == \A S \in SUBSET Docs : S # {} => \E d \in S : P[d] \notin S

Placed(m, P) ==
  \A p \in Docs : NoRepeat(m.kids[p]) /\ \A d \in Range(m.kids[p]) : P[d] = p /\ m.owner[d] = p

\* The command c leads from the parents P to Q.
Leads(P, c, Q) ==
  \/ c.kind \in {"create", "paste"} /\ P[c.doc] = Nobody /\ Q = [P EXCEPT ![c.doc] = c.parent]
  \/ c.kind = "delete" /\ P[c.doc] = c.parent /\ Q = [P EXCEPT ![c.doc] = Nobody]
  \/ c.kind = "move" /\ P[c.doc] = c.from /\ Q = [P EXCEPT ![c.doc] = c.to]
  \/ c.kind \in {"type", "draw"} /\ Q = P

LEMMA NobodyIsNoDoc == Nobody \notin Docs /\ Root \in Docs
BY MscDocumentsAssumption

LEMMA PlacedFewer ==
  ASSUME NEW m, NEW n, NEW P, Placed(m, P), Fewer(m, n)
  PROVE  Placed(n, P)
BY DEF Placed, Fewer

LEMMA PlacedSame ==
  ASSUME NEW m, NEW n, NEW P, Placed(m, P), n.kids = m.kids, n.owner = m.owner
  PROVE  Placed(n, P)
BY DEF Placed

\* Where a document that is not listed is said to be does not matter.
LEMMA PlacedUnlisted ==
  ASSUME NEW m \in Trees, NEW P, NEW Q, NEW d, Placed(m, P), \A x \in Docs \ {d} : Q[x] = P[x],
         \A p \in Docs : d \notin Range(m.kids[p])
  PROVE  Placed(m, Q)
<1>1. \A p \in Docs : \A x \in Range(m.kids[p]) : x \in Docs /\ x # d
  BY KidsAreDocs
<1>. QED  BY <1>1 DEF Placed

\* A document is listed by its parent only.
LEMMA ListedByParent ==
  ASSUME NEW m, NEW P, NEW d, NEW p \in Docs, Placed(m, P), d \in Range(m.kids[p])
  PROVE  P[d] = p
BY DEF Placed

\* A document that is where P says, and nowhere else, is listed once more or not at all.
LEMMA PlacedAdded ==
  ASSUME NEW m \in Trees, NEW P, NEW p \in Docs, NEW d \in Docs, NEW k \in Int, Placed(m, P), P[d] = p,
         NEW n, n = AddDocument(m, p, d, k)
  PROVE  Placed(n, P) /\ n \in Trees
<1>1. CASE d \in Range(m.kids[p]) \/ ~ChildAllowed(m, p)
  BY <1>1, AddDocumentRefused
<1>2. CASE d \notin Range(m.kids[p]) /\ ChildAllowed(m, p)
  <2>1. /\ n \in Trees /\ \A x \in Docs : n.owner[x] = IF x = d THEN p ELSE m.owner[x]
        /\ \A x \in Docs : x \in Range(n.kids[p]) <=> x \in Range(m.kids[p]) \/ x = d
        /\ NoRepeat(m.kids[p]) => NoRepeat(n.kids[p])
        /\ \A q \in Docs \ {p} : n.kids[q] = m.kids[q]
    BY <1>2, AddDocumentIs
  <2>2. \A q \in Docs : \A x \in Range(m.kids[q]) : x \in Docs /\ P[x] = q /\ m.owner[x] = q
    BY KidsAreDocs DEF Placed
  <2>3. \A q \in Docs \ {p} : d \notin Range(m.kids[q])
    BY <2>2
  <2>4. ASSUME NEW q \in Docs
        PROVE  NoRepeat(n.kids[q]) /\ \A x \in Range(n.kids[q]) : P[x] = q /\ n.owner[x] = q
    <3>1. CASE q = p
      <4>1. NoRepeat(n.kids[q])
        BY <2>1, <3>1 DEF Placed
      <4>2. \A x \in Range(n.kids[q]) : x = d \/ x \in Range(m.kids[p])
        BY <2>1, <3>1, KidsAreDocs
      <4>. QED  BY <2>1, <2>2, <3>1, <4>1, <4>2
    <3>2. CASE q # p
      <4>1. n.kids[q] = m.kids[q] /\ NoRepeat(m.kids[q])
        BY <2>1, <3>2 DEF Placed
      <4>. QED  BY <2>1, <2>2, <2>3, <3>2, <4>1
    <3>. QED  BY <3>1, <3>2
  <2>. QED  BY <2>1, <2>4 DEF Placed
<1>. QED  BY <1>1, <1>2

LEMMA PlacedRoom ==
  ASSUME NEW m \in Trees, NEW P, NEW p \in Docs, Placed(m, P)
  PROVE  LET n == ClearIfCharts(m, p)
         IN  /\ Placed(n, P) /\ n \in Trees /\ n.charted \subseteq m.charted
             /\ \A d : (\A q \in Docs : d \notin Range(m.kids[q])) => \A q \in Docs : d \notin Range(n.kids[q])
<1>. DEFINE n == ClearIfCharts(m, p)
<1>1. Fewer(m, n) /\ n.charted \subseteq m.charted
  BY ClearIfChartsFewer
<1>. HIDE DEF n
<1>2. \A q \in Docs : Range(n.kids[q]) \subseteq Range(m.kids[q])
  BY <1>1 DEF Fewer
<1>3. n \in Trees
  BY <1>1 DEF Fewer
<1>4. Placed(n, P)
  BY <1>1, PlacedFewer
<1>. QED  BY <1>1, <1>2, <1>3, <1>4 DEF n

LEMMA PlacedChart ==
  ASSUME NEW m \in Trees, NEW P, NEW p \in Docs, NEW known, Placed(m, P), Supplied(m, known)
  PROVE  LET n == AddNewChart(m, p, known)
         IN  Placed(n, P) /\ n \in Trees /\ n.kids = m.kids
<1>. DEFINE n == AddNewChart(m, p, known)
<1>1. n \in Trees /\ n.kids = m.kids /\ n.owner = m.owner
  BY AddNewChartIs
<1>. HIDE DEF n
<1>2. Placed(n, P)
  BY <1>1, PlacedSame
<1>. QED  BY <1>1, <1>2 DEF n

\* A document taken out of the one list that it can be in is in none.
LEMMA PlacedRemoved ==
  ASSUME NEW m \in Trees, NEW P, NEW p \in Docs, NEW d, Placed(m, P), P[d] = p
  PROVE  LET n == RemoveDocument(m, p, d)
         IN  /\ Placed(n, P) /\ n \in Trees /\ n.charted = m.charted
             /\ \A q \in Docs : d \notin Range(n.kids[q])
<1>. DEFINE n == RemoveDocument(m, p, d)
<1>1. /\ Fewer(m, n) /\ n.charted = m.charted /\ Range(n.kids[p]) = Range(m.kids[p]) \ {d}
  BY RemoveDocumentIs
<1>. HIDE DEF n
<1>2. \A q \in Docs : Range(n.kids[q]) \subseteq Range(m.kids[q])
  BY <1>1 DEF Fewer
<1>3. \A q \in Docs : d \in Range(m.kids[q]) => q = p
  BY DEF Placed
<1>4. n \in Trees /\ Placed(n, P)
  BY <1>1, PlacedFewer DEF Fewer
<1>. QED  BY <1>1, <1>2, <1>3, <1>4 DEF n

LEMMA UnlistedElsewhere ==
  ASSUME NEW m, NEW P, NEW d, Placed(m, P), P[d] \notin Docs
  PROVE  \A q \in Docs : d \notin Range(m.kids[q])
BY DEF Placed

\* The undo of a command takes a tree with the parents after it to one with those before.
LEMMA UndoPlaced ==
  ASSUME NEW m \in Trees, NEW c \in Commands, NEW P \in Parents, NEW Q \in Parents,
         Leads(P, c, Q), Placed(m, Q), PointsTo(c) \subseteq m.live
  PROVE  Undo(m, c) \in Trees /\ Placed(Undo(m, c), P)
<1>0. Nobody \notin Docs
  BY NobodyIsNoDoc
<1>1. CASE c.kind = "create"
  <2>1. /\ c.doc \in Docs /\ c.parent \in Docs /\ c.charts \in Seq(Charts) /\ Needs(c) \subseteq m.live
    BY <1>1, CommandKinds
  <2>2. Q = [P EXCEPT ![c.doc] = c.parent]
    BY <1>1 DEF Leads
  <2>3. Q[c.doc] = c.parent /\ \A x \in Docs \ {c.doc} : P[x] = Q[x]
    BY <2>1, <2>2 DEF Parents
  <2>. DEFINE n == RemoveAndClear(m, c.parent, c.doc)
              r == RemoveDocument(m, c.parent, c.doc)
              s == Clear(r, c.doc)
  <2>4. n \in Trees /\ Placed(n, P)
    <3>1. CASE c.doc \in Range(m.kids[c.parent])
      <4>1. n = s
        BY <3>1 DEF RemoveAndClear
      <4>2. Placed(r, Q) /\ r \in Trees /\ \A q \in Docs : c.doc \notin Range(r.kids[q])
        BY <2>1, <2>3, PlacedRemoved
      <4>. HIDE DEF r
      <4>3. s \in Trees /\ s.owner = r.owner /\ \A q \in Docs : s.kids[q] = IF q = c.doc THEN << >> ELSE r.kids[q]
        BY <2>1, <4>2, ClearIs, SMTT(30)
      <4>. HIDE DEF s, n
      <4>4. Fewer(r, s)
        BY <2>1, <4>2, <4>3, EmptyList, FewerOneList
      <4>5. Placed(s, Q) /\ \A q \in Docs : c.doc \notin Range(s.kids[q])
        BY <4>2, <4>4, PlacedFewer DEF Fewer
      <4>6. Placed(s, P)
        <5>1. s \in Trees
          BY <4>3
        <5>2. \A x \in Docs \ {c.doc} : P[x] = Q[x]
          BY <2>3
        <5>. QED  BY <4>5, <5>1, <5>2, PlacedUnlisted
      <4>. QED  BY <4>1, <4>3, <4>6
    <3>2. CASE c.doc \notin Range(m.kids[c.parent])
      <4>1. n = m
        BY <3>2 DEF RemoveAndClear
      <4>2. \A q \in Docs : c.doc \notin Range(m.kids[q])
        BY <2>3, <3>2, ListedByParent
      <4>3. Placed(m, P)
        BY <2>3, <4>2, PlacedUnlisted
      <4>. QED  BY <4>1, <4>3
    <3>. QED  BY <3>1, <3>2
  <2>. HIDE DEF n
  <2>. DEFINE a == AddCharts(n, c.parent, c.charts)
  <2>5. a \in Trees /\ a.kids = n.kids /\ a.owner = n.owner
    BY <2>1, <2>4, AddChartsIs
  <2>. HIDE DEF a
  <2>6. Placed(a, P)
    BY <2>4, <2>5, PlacedSame
  <2>7. Undo(m, c) = UndoCreate(m, c)
    BY <1>1, <2>1 DEF Undo
  <2>8. UndoCreate(m, c) \in {a, n}
    BY DEF UndoCreate, n, a
  <2>. QED  BY <2>4, <2>5, <2>6, <2>7, <2>8
<1>2. CASE c.kind = "move"
  <2>1. /\ c.doc \in Docs /\ c.from \in Docs /\ c.to \in Docs /\ c.charts \in Seq(Charts)
        /\ c.index \in Int /\ Needs(c) \subseteq m.live
    BY <1>2, CommandKinds
  <2>2. P[c.doc] = c.from /\ Q = [P EXCEPT ![c.doc] = c.to]
    BY <1>2 DEF Leads
  <2>3. Q[c.doc] = c.to /\ \A x \in Docs \ {c.doc} : P[x] = Q[x]
    BY <2>1, <2>2 DEF Parents
  <2>. DEFINE r == RemoveDocument(m, c.to, c.doc)
              n == AddCharts(r, c.to, c.charts)
              s == ClearIfCharts(n, c.from)
              a == AddDocument(s, c.from, c.doc, c.index)
  <2>4. Placed(r, Q) /\ r \in Trees /\ \A q \in Docs : c.doc \notin Range(r.kids[q])
    BY <2>1, <2>3, PlacedRemoved
  <2>. HIDE DEF r
  <2>5. Placed(r, P)
    BY <2>3, <2>4, PlacedUnlisted
  <2>6. n \in Trees /\ n.kids = r.kids /\ n.owner = r.owner
    BY <2>1, <2>4, AddChartsIs
  <2>. HIDE DEF n
  <2>7. Placed(n, P)
    BY <2>5, <2>6, PlacedSame
  <2>8. Placed(s, P) /\ s \in Trees
    BY <2>1, <2>6, <2>7, PlacedRoom
  <2>. HIDE DEF s
  <2>9. Placed(a, P) /\ a \in Trees
    BY <2>1, <2>2, <2>8, PlacedAdded
  <2>. HIDE DEF a
  <2>10. Undo(m, c) = UndoMove(m, c)
    BY <1>2, <2>1 DEF Undo
  <2>11. UndoMove(m, c) = a
    BY DEF UndoMove, a, s, n, r
  <2>. QED  BY <2>9, <2>10, <2>11
<1>3. CASE c.kind = "delete"
  <2>1. c.doc \in Docs /\ c.parent \in Docs /\ c.index \in Int /\ Needs(c) \subseteq m.live
    BY <1>3, CommandKinds
  <2>2. P[c.doc] = c.parent /\ Q = [P EXCEPT ![c.doc] = Nobody]
    BY <1>3 DEF Leads
  <2>3. Q[c.doc] = Nobody /\ \A x \in Docs \ {c.doc} : P[x] = Q[x]
    BY <2>1, <2>2 DEF Parents
  <2>4. \A q \in Docs : c.doc \notin Range(m.kids[q])
    BY <1>0, <2>3, UnlistedElsewhere
  <2>5. Placed(m, P)
    BY <2>3, <2>4, PlacedUnlisted
  <2>. DEFINE s == ClearIfCharts(m, c.parent)
              a == AddDocument(s, c.parent, c.doc, c.index)
  <2>6. Placed(s, P) /\ s \in Trees
    BY <2>1, <2>5, PlacedRoom
  <2>. HIDE DEF s
  <2>7. Placed(a, P) /\ a \in Trees
    BY <2>1, <2>2, <2>6, PlacedAdded
  <2>. HIDE DEF a
  <2>8. Undo(m, c) = UndoDelete(m, c)
    BY <1>3, <2>1 DEF Undo
  <2>9. UndoDelete(m, c) = a
    BY DEF UndoDelete, a, s
  <2>. QED  BY <2>7, <2>8, <2>9
<1>4. CASE c.kind = "type"
  <2>1. c.doc \in Docs /\ c.old \in Types /\ Needs(c) \subseteq m.live
    BY <1>4, CommandKinds
  <2>2. Q = P
    BY <1>4 DEF Leads
  <2>. DEFINE n == [m EXCEPT !.type[c.doc] = c.old]
              a == ClearCharts(n, c.doc)
  <2>3. n \in Trees /\ n.kids = m.kids /\ n.owner = m.owner
    BY <2>1, TypeIs
  <2>. HIDE DEF n
  <2>4. a \in Trees /\ a.kids = n.kids /\ a.owner = n.owner
    BY <2>1, <2>3, ClearChartsIs
  <2>. HIDE DEF a
  <2>5. Placed(n, P) /\ Placed(a, P)
    BY <2>2, <2>3, <2>4, PlacedSame
  <2>6. Undo(m, c) = UndoType(m, c)
    BY <1>4, <2>1 DEF Undo
  <2>7. UndoType(m, c) \in {a, n}
    BY DEF UndoType, n, a
  <2>. QED  BY <2>3, <2>4, <2>5, <2>6, <2>7
<1>5. CASE c.kind = "paste"
  <2>1. c.doc \in Docs /\ c.parent \in Docs /\ Needs(c) \subseteq m.live
    BY <1>5, CommandKinds
  <2>2. Q = [P EXCEPT ![c.doc] = c.parent]
    BY <1>5 DEF Leads
  <2>3. Q[c.doc] = c.parent /\ \A x \in Docs \ {c.doc} : P[x] = Q[x]
    BY <2>1, <2>2 DEF Parents
  <2>4. Undo(m, c) = UndoPaste(m, c)
    BY <1>5, <2>1 DEF Undo
  <2>5. CASE m.kids[c.parent] = << >>
    <3>1. c.doc \notin Range(m.kids[c.parent])
      BY <2>5, EmptyList
    <3>2. \A q \in Docs : c.doc \notin Range(m.kids[q])
      BY <2>3, <3>1, ListedByParent
    <3>3. Placed(m, P)
      BY <2>3, <3>2, PlacedUnlisted
    <3>. QED  BY <2>4, <2>5, <3>3 DEF UndoPaste
  <2>6. CASE m.kids[c.parent] # << >>
    <3>. DEFINE r == RemoveDocument(m, c.parent, c.doc)
    <3>1. Placed(r, Q) /\ r \in Trees /\ \A q \in Docs : c.doc \notin Range(r.kids[q])
      BY <2>1, <2>3, PlacedRemoved
    <3>. HIDE DEF r
    <3>2. Placed(r, P)
      BY <2>3, <3>1, PlacedUnlisted
    <3>3. Undo(m, c) = r
      BY <2>4, <2>6 DEF UndoPaste, r
    <3>. QED  BY <3>1, <3>2, <3>3
  <2>. QED  BY <2>5, <2>6
<1>6. CASE c.kind = "draw"
  <2>1. Q = P /\ Needs(c) \subseteq m.live
    BY <1>6, CommandKinds DEF Leads
  <2>. DEFINE n == [m EXCEPT !.drawn = m.drawn \ {c.chart}]
  <2>2. n \in Trees /\ n.kids = m.kids /\ n.owner = m.owner
    BY DEF Trees
  <2>3. Undo(m, c) = n
    BY <1>6, <2>1 DEF Undo
  <2>. HIDE DEF n
  <2>4. Placed(n, P)
    BY <2>1, <2>2, PlacedSame
  <2>. QED  BY <2>2, <2>3, <2>4
<1>. QED  BY <1>1, <1>2, <1>3, <1>4, <1>5, <1>6, CommandKinds

\* A document moved from the one list that it can be in.
LEMMA PlacedMoved ==
  ASSUME NEW n \in Trees, NEW P, NEW Q, NEW d \in Docs, NEW from \in Docs, NEW to \in Docs, from # to,
         Placed(n, P), P[d] = from, Q[d] = to, \A x \in Docs \ {d} : Q[x] = P[x],
         d \notin Range(n.kids[to]), ChildAllowed(n, to),
         NEW r, r = RemoveDocument(AddDocument(n, to, d, -1), from, d)
  PROVE  Placed(r, Q) /\ r \in Trees /\ r.charted = n.charted
<1>. DEFINE k == -1
            a == AddDocument(n, to, d, k)
<1>0. k \in Int /\ r = RemoveDocument(a, from, d) /\ a = AddDocument(n, to, d, k)
  OBVIOUS
<1>. HIDE DEF k, a
<1>1. /\ a \in Trees /\ \A x \in Docs : a.owner[x] = IF x = d THEN to ELSE n.owner[x]
      /\ a.charted = n.charted /\ \A x \in Docs : x \in Range(a.kids[to]) <=> x \in Range(n.kids[to]) \/ x = d
      /\ NoRepeat(n.kids[to]) => NoRepeat(a.kids[to])
      /\ \A q \in Docs \ {to} : a.kids[q] = n.kids[q]
  <2>1. a \in Trees /\ a.charted = n.charted
    BY <1>0, AddDocumentIs
  <2>2. \A x \in Docs : a.owner[x] = IF x = d THEN to ELSE n.owner[x]
    BY <1>0, AddDocumentIs
  <2>3. \A x \in Docs : x \in Range(a.kids[to]) <=> x \in Range(n.kids[to]) \/ x = d
    BY <1>0, AddDocumentIs
  <2>4. NoRepeat(n.kids[to]) => NoRepeat(a.kids[to])
    BY <1>0, AddDocumentIs
  <2>5. \A q \in Docs \ {to} : a.kids[q] = n.kids[q]
    BY <1>0, AddDocumentIs
  <2>. QED  BY <2>1, <2>2, <2>3, <2>4, <2>5
<1>2. /\ Fewer(a, r) /\ r.charted = a.charted /\ Range(r.kids[from]) = Range(a.kids[from]) \ {d}
      /\ r.owner = a.owner
  BY <1>0, <1>1, RemoveDocumentIs
<1>3. r \in Trees /\ \A q \in Docs : /\ Range(r.kids[q]) \subseteq Range(a.kids[q])
                                     /\ NoRepeat(a.kids[q]) => NoRepeat(r.kids[q])
  BY <1>2 DEF Fewer
<1>4. \A q \in Docs : NoRepeat(a.kids[q])
  BY <1>1 DEF Placed
<1>5. ASSUME NEW q \in Docs, NEW x \in Range(r.kids[q])
      PROVE  Q[x] = q /\ r.owner[x] = q
  <2>0. x \in Docs /\ x \in Range(a.kids[q])
    BY <1>3, KidsAreDocs
  <2>1. CASE x = d
    <3>1. q # from
      BY <1>2, <2>1
    <3>2. CASE q = to
      BY <1>1, <1>2, <2>0, <2>1, <3>2
    <3>3. CASE q # to
      <4>1. x \in Range(n.kids[q])
        BY <1>1, <2>0, <3>3
      <4>2. P[x] = q
        BY <4>1 DEF Placed
      <4>. QED  BY <2>1, <3>1, <4>2
    <3>. QED  BY <3>2, <3>3
  <2>2. CASE x # d
    <3>1. x \in Range(n.kids[q])
      BY <1>1, <2>0, <2>2
    <3>2. P[x] = q /\ n.owner[x] = q
      BY <3>1 DEF Placed
    <3>. QED  BY <1>1, <1>2, <2>0, <2>2, <3>2
  <2>. QED  BY <2>1, <2>2
<1>6. Placed(r, Q)
  BY <1>3, <1>4, <1>5 DEF Placed
<1>. QED  BY <1>1, <1>2, <1>3, <1>6

\* The redo takes it on to the parents after the command, unless a move is refused.
LEMMA RedoPlaced ==
  ASSUME NEW m \in Trees, NEW c \in Commands, NEW P \in Parents, NEW Q \in Parents, NEW known,
         Leads(P, c, Q), Placed(m, P), ~Misses(m, c), Supplied(m, known)
  PROVE  Redo(m, c, known) \in Trees /\ Placed(Redo(m, c, known), Q)
<1>0. Nobody \notin Docs /\ PointsTo(c) \subseteq m.live
  BY NobodyIsNoDoc DEF Misses
<1>1. CASE c.kind = "create"
  <2>1. /\ c.doc \in Docs /\ c.parent \in Docs /\ Needs(c) \subseteq m.live
    BY <1>0, <1>1, CommandKinds
  <2>2. P[c.doc] = Nobody /\ Q = [P EXCEPT ![c.doc] = c.parent]
    BY <1>1 DEF Leads
  <2>3. Q[c.doc] = c.parent /\ \A x \in Docs \ {c.doc} : Q[x] = P[x]
    BY <2>1, <2>2 DEF Parents
  <2>4. \A q \in Docs : c.doc \notin Range(m.kids[q])
    BY <1>0, <2>2, UnlistedElsewhere
  <2>. DEFINE m1 == ClearIfCharts(m, c.parent)
              n  == AddNewChart(m1, c.doc, known)
              m2 == IF m1.charts[c.doc] = << >> /\ m1.type[c.doc] = "LEAF" THEN n ELSE m1
              r  == AddDocument(m2, c.parent, c.doc, -1)
  <2>5. /\ Placed(m1, P) /\ m1 \in Trees /\ m1.charted \subseteq m.charted
        /\ \A q \in Docs : c.doc \notin Range(m1.kids[q])
    BY <2>1, <2>4, PlacedRoom
  <2>. HIDE DEF m1
  <2>6. Supplied(m1, known)
    BY <2>5, RoomSupplied
  <2>7. Placed(n, P) /\ n \in Trees /\ n.kids = m1.kids
    BY <2>1, <2>5, <2>6, PlacedChart
  <2>. HIDE DEF n
  <2>8. Placed(m2, P) /\ m2 \in Trees /\ \A q \in Docs : c.doc \notin Range(m2.kids[q])
    BY <2>5, <2>7
  <2>. HIDE DEF m2
  <2>9. Placed(m2, Q)
    <3>1. \A x \in Docs \ {c.doc} : Q[x] = P[x]
      BY <2>3
    <3>. QED  BY <2>8, <3>1, PlacedUnlisted
  <2>10. -1 \in Int
    OBVIOUS
  <2>11. Placed(r, Q) /\ r \in Trees
    BY <2>1, <2>3, <2>8, <2>9, <2>10, PlacedAdded
  <2>. HIDE DEF r
  <2>12. Redo(m, c, known) = RedoCreate(m, c, known)
    BY <1>1, <2>1 DEF Redo
  <2>13. RedoCreate(m, c, known) = r
    BY DEF RedoCreate, r, m2, n, m1
  <2>. QED  BY <2>11, <2>12, <2>13
<1>2. CASE c.kind = "move"
  <2>1. /\ c.doc \in Docs /\ c.from \in Docs /\ c.to \in Docs /\ c.from # c.to
        /\ Needs(c) \subseteq m.live
    BY <1>0, <1>2, CommandKinds
  <2>2. P[c.doc] = c.from /\ Q = [P EXCEPT ![c.doc] = c.to]
    BY <1>2 DEF Leads
  <2>3. Q[c.doc] = c.to /\ \A x \in Docs \ {c.doc} : Q[x] = P[x]
    BY <2>1, <2>2 DEF Parents
  <2>. DEFINE n == ClearIfCharts(m, c.to)
              a == AddDocument(n, c.to, c.doc, -1)
              r == RemoveDocument(a, c.from, c.doc)
              s == AddNewChart(r, c.from, known)
  <2>4. Moves(n, c)
    BY <1>2 DEF Misses
  <2>5. Placed(n, P) /\ n \in Trees /\ n.charted \subseteq m.charted
    BY <2>1, PlacedRoom
  <2>. HIDE DEF n
  <2>. HIDE DEF a
  <2>6. c.doc \notin Range(n.kids[c.to]) /\ ChildAllowed(n, c.to)
    BY <2>4 DEF Moves
  <2>7. Placed(r, Q) /\ r \in Trees /\ r.charted = n.charted
    <3>1. \A x \in Docs \ {c.doc} : Q[x] = P[x]
      BY <2>3
    <3>2. r = RemoveDocument(AddDocument(n, c.to, c.doc, -1), c.from, c.doc)
      BY DEF a
    <3>3. c.doc \in Docs /\ c.from \in Docs /\ c.to \in Docs /\ c.from # c.to
      BY <2>1
    <3>4. P[c.doc] = c.from /\ Q[c.doc] = c.to
      BY <2>2, <2>3
    <3>. HIDE DEF r
    <3>. QED  BY <2>5, <2>6, <3>1, <3>2, <3>3, <3>4, PlacedMoved
  <2>. HIDE DEF r
  <2>8. Supplied(r, known)
    <3>1. r.charted \subseteq m.charted
      BY <2>5, <2>7
    <3>. QED  BY <3>1, RoomSupplied
  <2>9. Placed(s, Q) /\ s \in Trees
    BY <2>1, <2>7, <2>8, PlacedChart
  <2>. HIDE DEF s
  <2>10. Redo(m, c, known) = RedoMove(m, c, known)
    BY <1>2, <2>1 DEF Redo
  <2>11. RedoMove(m, c, known) \in {r, s}
    BY <2>4 DEF RedoMove, s, r, a, n
  <2>. QED  BY <2>7, <2>9, <2>10, <2>11
<1>3. CASE c.kind = "delete"
  <2>1. c.doc \in Docs /\ c.parent \in Docs /\ Needs(c) \subseteq m.live
    BY <1>0, <1>3, CommandKinds
  <2>2. P[c.doc] = c.parent /\ Q = [P EXCEPT ![c.doc] = Nobody]
    BY <1>3 DEF Leads
  <2>3. \A x \in Docs \ {c.doc} : Q[x] = P[x]
    BY <2>1, <2>2 DEF Parents
  <2>. DEFINE r == RemoveDocument(m, c.parent, c.doc)
              s == AddNewChart(r, c.parent, known)
  <2>4. /\ Placed(r, P) /\ r \in Trees /\ r.charted = m.charted
        /\ \A q \in Docs : c.doc \notin Range(r.kids[q])
    BY <2>1, <2>2, PlacedRemoved
  <2>. HIDE DEF r
  <2>5. Placed(r, Q)
    BY <2>3, <2>4, PlacedUnlisted
  <2>6. Supplied(r, known)
    BY <2>4, RoomSupplied
  <2>7. Placed(s, Q) /\ s \in Trees
    BY <2>1, <2>4, <2>5, <2>6, PlacedChart
  <2>. HIDE DEF s
  <2>8. Redo(m, c, known) = RedoDelete(m, c, known)
    BY <1>3, <2>1 DEF Redo
  <2>9. RedoDelete(m, c, known) \in {r, s}
    BY DEF RedoDelete, s, r
  <2>. QED  BY <2>4, <2>5, <2>7, <2>8, <2>9
<1>4. CASE c.kind = "type"
  <2>1. c.doc \in Docs /\ c.new \in Types /\ Needs(c) \subseteq m.live
    BY <1>0, <1>4, CommandKinds
  <2>2. Q = P
    BY <1>4 DEF Leads
  <2>. DEFINE n == [m EXCEPT !.type[c.doc] = c.new]
              s == AddNewChart(n, c.doc, known)
  <2>3. n \in Trees /\ n.kids = m.kids /\ n.owner = m.owner /\ n.charted = m.charted
    BY <2>1, TypeIs
  <2>. HIDE DEF n
  <2>4. Placed(n, Q)
    BY <2>2, <2>3, PlacedSame
  <2>5. Supplied(n, known)
    BY <2>3, RoomSupplied
  <2>6. Placed(s, Q) /\ s \in Trees
    BY <2>1, <2>3, <2>4, <2>5, PlacedChart
  <2>. HIDE DEF s
  <2>7. Redo(m, c, known) = RedoType(m, c, known)
    BY <1>4, <2>1 DEF Redo
  <2>8. RedoType(m, c, known) \in {n, s}
    BY DEF RedoType, n, s
  <2>. QED  BY <2>3, <2>4, <2>6, <2>7, <2>8
<1>5. CASE c.kind = "paste"
  <2>1. c.doc \in Docs /\ c.parent \in Docs /\ Needs(c) \subseteq m.live
    BY <1>0, <1>5, CommandKinds
  <2>2. P[c.doc] = Nobody /\ Q = [P EXCEPT ![c.doc] = c.parent]
    BY <1>5 DEF Leads
  <2>3. Q[c.doc] = c.parent /\ \A x \in Docs \ {c.doc} : Q[x] = P[x]
    BY <2>1, <2>2 DEF Parents
  <2>4. \A q \in Docs : c.doc \notin Range(m.kids[q])
    BY <1>0, <2>2, UnlistedElsewhere
  <2>5. Placed(m, Q)
    <3>1. \A x \in Docs \ {c.doc} : Q[x] = P[x]
      BY <2>3
    <3>. QED  BY <2>4, <3>1, PlacedUnlisted
  <2>. DEFINE r == AddDocument(m, c.parent, c.doc, -1)
  <2>6. -1 \in Int
    OBVIOUS
  <2>7. Placed(r, Q) /\ r \in Trees
    BY <2>1, <2>3, <2>5, <2>6, PlacedAdded
  <2>. HIDE DEF r
  <2>8. Redo(m, c, known) = RedoPaste(m, c)
    BY <1>5, <2>1 DEF Redo
  <2>9. RedoPaste(m, c) \in {m, r}
    BY DEF RedoPaste, r
  <2>. QED  BY <2>5, <2>7, <2>8, <2>9
<1>6. CASE c.kind = "draw"
  <2>1. Q = P /\ Needs(c) \subseteq m.live
    BY <1>0, <1>6, CommandKinds DEF Leads
  <2>. DEFINE n == [m EXCEPT !.drawn = m.drawn \cup ({c.chart} \cap m.charted)]
  <2>2. n \in Trees /\ n.kids = m.kids /\ n.owner = m.owner
    BY DEF Trees
  <2>3. Redo(m, c, known) = n
    BY <1>6, <2>1 DEF Redo
  <2>. HIDE DEF n
  <2>4. Placed(n, Q)
    BY <2>1, <2>2, PlacedSame
  <2>. QED  BY <2>2, <2>3, <2>4
<1>. QED  BY <1>1, <1>2, <1>3, <1>4, <1>5, <1>6, CommandKinds
-------------------------------------------------------------------------------
(* The parents stay a forest.                                                   *)

\* A document is put below another, which a way up leads from that does not meet it.
LEMMA ForestAdded ==
  ASSUME NEW P \in Parents, NEW Q, Forest(P), P[Root] = Nobody, NEW G \in SUBSET Docs,
         \A x \in G \ {Root} : P[x] \in G, NEW d \in Docs \ G, d # Root, NEW p \in G,
         Q = [P EXCEPT ![d] = p]
  PROVE  Forest(Q)
<1>1. Q[d] = p /\ \A x \in Docs \ {d} : Q[x] = P[x]
  BY DEF Parents
<1>2. ASSUME NEW S \in SUBSET Docs, S # {}
      PROVE  \E x \in S : Q[x] \notin S
  <2>1. CASE d \notin S
    <3>1. PICK x \in S : P[x] \notin S
      BY <1>2 DEF Forest
    <3>. QED  BY <1>1, <2>1, <3>1
  <2>2. CASE d \in S /\ S \cap G = {}
    <3>1. p \notin S
      BY <2>2
    <3>. QED  BY <1>1, <2>2, <3>1
  <2>3. CASE S \cap G # {}
    <3>. DEFINE T == S \cap G
    <3>1. T \in SUBSET Docs /\ T # {}
      BY <2>3
    <3>2. PICK x \in T : P[x] \notin T
      <4>. HIDE DEF T
      <4>. QED  BY <3>1 DEF Forest
    <3>3. x \in S /\ x \in G /\ x # d /\ Q[x] = P[x]
      BY <1>1, <3>2
    <3>4. CASE x = Root
      BY <3>3, <3>4, NobodyIsNoDoc
    <3>5. CASE x # Root
      <4>1. P[x] \in G
        BY <3>3, <3>5
      <4>2. P[x] \notin S
        BY <3>2, <4>1
      <4>. QED  BY <3>3, <4>2
    <3>. QED  BY <3>4, <3>5
  <2>. QED  BY <2>1, <2>2, <2>3
<1>. QED  BY <1>2 DEF Forest

\* A document is taken out.
LEMMA ForestCut ==
  ASSUME NEW P \in Parents, NEW Q, Forest(P), NEW d, Q = [P EXCEPT ![d] = Nobody]
  PROVE  Q \in Parents /\ Forest(Q)
<1>1. Q \in Parents
  BY DEF Parents
<1>2. ASSUME NEW S \in SUBSET Docs, S # {}
      PROVE  \E x \in S : Q[x] \notin S
  <2>1. PICK x \in S : P[x] \notin S
    BY <1>2 DEF Forest
  <2>2. Q[x] = P[x] \/ Q[x] = Nobody
    BY DEF Parents
  <2>. QED  BY <2>1, <2>2, NobodyIsNoDoc
<1>. QED  BY <1>1, <1>2 DEF Forest

\* The way up from a document of the tree.
LEMMA WayUp ==
  ASSUME NEW m \in Trees, NEW P, Placed(m, P), NEW x \in InTree(m) \ {Root}
  PROVE  P[x] \in InTree(m) /\ P[x] = m.owner[x] /\ x \in Range(m.kids[P[x]])
<1>1. InTree(m) = Under(m, Root) /\ Root \in Docs
  BY NobodyIsNoDoc DEF InTree
<1>2. PICK q \in InTree(m) : x \in Range(m.kids[q])
  BY <1>1, UnderIs
<1>3. q \in Docs
  BY <1>1, UnderIs
<1>4. P[x] = q /\ m.owner[x] = q
  BY <1>2, <1>3 DEF Placed
<1>. QED  BY <1>2, <1>4

\* A tree of documents of which the lists agree with a forest.
LEMMA PlacedIsTree ==
  ASSUME NEW m \in Trees, NEW P, Placed(m, P), Forest(P), NEW p \in Docs, NEW d \in Range(m.kids[p])
  PROVE  p \notin Under(m, d)
<1>. SUFFICES ASSUME p \in Under(m, d)  PROVE FALSE
  OBVIOUS
<1>. DEFINE S == {x \in Under(m, d) : p \in Under(m, x)}
<1>1. d \in Docs /\ P[d] = p
  BY KidsAreDocs DEF Placed
<1>2. S \in SUBSET Docs /\ d \in S
  BY <1>1, UnderIs
<1>3. PICK x \in S : P[x] \notin S
  <2>. HIDE DEF S
  <2>. QED  BY <1>2 DEF Forest
<1>4. x \in Under(m, d) /\ p \in Under(m, x) /\ x \in Docs
  BY <1>2, <1>3
<1>5. CASE x = d
  <2>1. p \in S
    BY UnderIs
  <2>. QED  BY <1>1, <1>3, <1>5, <2>1
<1>6. CASE x # d
  <2>1. PICK q \in Under(m, d) : x \in Range(m.kids[q])
    BY <1>1, <1>4, <1>6, UnderIs
  <2>2. q \in Docs
    BY <1>1, UnderIs
  <2>3. P[x] = q
    BY <2>1, <2>2 DEF Placed
  <2>4. x \in Under(m, q)
    BY <2>1, <2>2, UnderIs
  <2>5. Under(m, x) \subseteq Under(m, q)
    BY <2>2, <2>4, UnderListed
  <2>6. q \in S
    BY <1>4, <2>1, <2>5
  <2>. QED  BY <1>3, <2>3, <2>6
<1>. QED  BY <1>5, <1>6

\* The tree of a file.
LEMMA FileIsTree ==
  ASSUME NEW m \in Trees, IsFile(m)
  PROVE  m.owner \in Parents /\ Forest(m.owner) /\ m.owner[Root] = Nobody /\ Placed(m, m.owner)
<1>0. InTree(m) = Under(m, Root) /\ Root \in Docs /\ Nobody \notin Docs
  BY NobodyIsNoDoc DEF InTree
<1>1. m.owner \in Parents /\ m.owner[Root] = Nobody
  BY DEF IsFile, Trees, Parents
<1>2. \A p \in InTree(m) : NoRepeat(m.kids[p]) /\ \A k \in Range(m.kids[p]) : m.owner[k] = p
  BY DEF IsFile
<1>3. \A p \in Docs \ InTree(m) : m.kids[p] = << >> /\ m.owner[p] = Nobody
  BY DEF IsFile
<1>4. Placed(m, m.owner)
  BY <1>2, <1>3, EmptyList DEF Placed
<1>5. ASSUME NEW S \in SUBSET Docs, S # {}, \A x \in S : m.owner[x] \in S
      PROVE  FALSE
  <2>1. S \subseteq InTree(m)
    BY <1>0, <1>3, <1>5
  <2>. DEFINE T == InTree(m) \ S
  <2>2. Root \in InTree(m) /\ Root \notin S
    BY <1>0, <1>1, <1>5, UnderIs
  <2>3. InTree(m) \subseteq Docs /\ \A x \in InTree(m) : Range(m.kids[x]) \subseteq InTree(m)
    BY <1>0, UnderIs
  <2>4. T \in SUBSET Docs /\ Root \in T
    BY <2>2, <2>3
  <2>5. ASSUME NEW x \in T, NEW k \in Range(m.kids[x])
        PROVE  k \in T
    <3>1. k \in InTree(m) /\ m.owner[k] = x
      BY <1>2, <2>3
    <3>. QED  BY <1>5, <3>1
  <2>6. InTree(m) \subseteq T
    <3>. HIDE DEF T
    <3>1. \A x \in T : Range(m.kids[x]) \subseteq T
      BY <2>5
    <3>. QED  BY <1>0, <2>4, <3>1, UnderIs
  <2>. QED  BY <1>5, <2>1, <2>6
<1>. QED  BY <1>1, <1>4, <1>5 DEF Forest
-------------------------------------------------------------------------------
(* What a new command begins with.                                              *)

LEMMA CommandPoints ==
  ASSUME NEW c \in Commands
  PROVE  PointsTo(c) \subseteq Docs /\ Needs(c) \subseteq PointsTo(c)
<1>1. CASE c.kind \in {"create", "paste", "delete"}
  BY <1>1, CommandKinds
<1>2. CASE c.kind = "move"
  BY <1>2, CommandKinds
<1>3. CASE c.kind \in {"type", "draw"}
  BY <1>3, CommandKinds
<1>. QED  BY <1>1, <1>2, <1>3, CommandKinds

LEMMA ReachedIs ==
  ASSUME NEW m \in Trees, NEW s, \A k \in DOMAIN s : s[k] \in Commands
  PROVE  /\ Reached(m, s) \subseteq Docs /\ InTree(m) \subseteq Reached(m, s)
         /\ \A d \in Reached(m, s) : Range(m.kids[d]) \subseteq Reached(m, s)
         /\ \A k \in DOMAIN s : PointsTo(s[k]) \subseteq Reached(m, s)
<1>. DEFINE P == {Root} \cup UNION {PointsTo(s[k]) : k \in DOMAIN s}
<1>1. \A k \in DOMAIN s : PointsTo(s[k]) \subseteq Docs
  BY CommandPoints
<1>2. P \in SUBSET Docs /\ Root \in P /\ \A k \in DOMAIN s : PointsTo(s[k]) \subseteq P
  BY <1>1, NobodyIsNoDoc
<1>3. Reached(m, s) = Below(m, P) /\ InTree(m) = Under(m, Root)
  BY DEF Reached, InTree
<1>. HIDE DEF P
<1>4. /\ P \subseteq Below(m, P) /\ Below(m, P) \subseteq Docs
      /\ \A d \in Below(m, P) : Range(m.kids[d]) \subseteq Below(m, P)
  BY <1>2, BelowIs
<1>5. Below(m, P) \in SUBSET Docs /\ Root \in Below(m, P) /\ Root \in Docs
  BY <1>2, <1>4
<1>6. Under(m, Root) \subseteq Below(m, P)
  BY <1>4, <1>5, UnderIs
<1>. QED  BY <1>2, <1>3, <1>4, <1>6

LEMMA ForgetfulIs ==
  ASSUME NEW m \in Trees, NEW s
  PROVE  LET r    == Forgetful(m, s)
             lost == Docs \ Reached(m, s)
             gone == UNION {Range(m.charts[d]) : d \in lost}
         IN  /\ r \in Trees /\ r.live = m.live \ lost
             /\ r.charted = m.charted \ gone /\ r.drawn = m.drawn \ gone
             /\ \A d \in Docs : /\ r.type[d] = IF d \in lost THEN "AND" ELSE m.type[d]
                                /\ r.owner[d] = IF d \in lost THEN Nobody ELSE m.owner[d]
                                /\ r.kids[d] = IF d \in lost THEN << >> ELSE m.kids[d]
                                /\ r.charts[d] = IF d \in lost THEN << >> ELSE m.charts[d]
<1>. DEFINE lost == Docs \ Reached(m, s)
            gone == UNION {Range(m.charts[d]) : d \in lost}
<1>. HIDE DEF lost, gone
<1>. DEFINE ty == [d \in Docs |-> IF d \in lost THEN "AND" ELSE m.type[d]]
            ow == [d \in Docs |-> IF d \in lost THEN Nobody ELSE m.owner[d]]
            ki == [d \in Docs |-> IF d \in lost THEN << >> ELSE m.kids[d]]
            ch == [d \in Docs |-> IF d \in lost THEN << >> ELSE m.charts[d]]
            r  == [m EXCEPT !.live = m.live \ lost, !.charted = m.charted \ gone,
                            !.drawn = m.drawn \ gone, !.type = ty, !.owner = ow, !.kids = ki,
                            !.charts = ch]
<1>1. Forgetful(m, s) = r
  BY DEF Forgetful, lost, gone
<1>2. /\ ty \in [Docs -> Types] /\ ow \in [Docs -> Docs \cup {Nobody}]
      /\ ki \in [Docs -> Seq(Docs)] /\ ch \in [Docs -> Seq(Charts)]
  <2>1. << >> \in Seq(Docs) /\ << >> \in Seq(Charts) /\ "AND" \in Types
    BY DEF Types
  <2>. QED  BY <2>1 DEF Trees
<1>3. \A d \in Docs : /\ ty[d] = IF d \in lost THEN "AND" ELSE m.type[d]
                      /\ ow[d] = IF d \in lost THEN Nobody ELSE m.owner[d]
                      /\ ki[d] = IF d \in lost THEN << >> ELSE m.kids[d]
                      /\ ch[d] = IF d \in lost THEN << >> ELSE m.charts[d]
  OBVIOUS
<1>. HIDE DEF ty, ow, ki, ch
<1>4. /\ r \in Trees /\ r.live = m.live \ lost /\ r.charted = m.charted \ gone
      /\ r.drawn = m.drawn \ gone /\ r.type = ty /\ r.owner = ow /\ r.kids = ki /\ r.charts = ch
  BY <1>2 DEF Trees
<1>. HIDE DEF r
<1>. QED  BY <1>1, <1>3, <1>4 DEF lost, gone

\* What the commands can get at keeps its lists, and the rest lists nothing.
LEMMA ForgetfulFewer ==
  ASSUME NEW m \in Trees, NEW s, \A k \in DOMAIN s : s[k] \in Commands
  PROVE  /\ Forgetful(m, s) \in Trees /\ Fewer(m, Forgetful(m, s))
         /\ \A d \in Docs \ Reached(m, s) : \A p \in Docs : d \notin Range(Forgetful(m, s).kids[p])
<1>. DEFINE r == Forgetful(m, s)
<1>1. /\ r \in Trees
      /\ \A d \in Docs : /\ r.owner[d] = IF d \in Docs \ Reached(m, s) THEN Nobody ELSE m.owner[d]
                         /\ r.kids[d] = IF d \in Docs \ Reached(m, s) THEN << >> ELSE m.kids[d]
  BY ForgetfulIs
<1>. HIDE DEF r
<1>2. \A d \in Reached(m, s) : Range(m.kids[d]) \subseteq Reached(m, s)
  BY ReachedIs
<1>3. ASSUME NEW p \in Docs
      PROVE  /\ Range(r.kids[p]) \subseteq Range(m.kids[p])
             /\ NoRepeat(m.kids[p]) => NoRepeat(r.kids[p])
             /\ \A d \in Range(r.kids[p]) : d \in Reached(m, s) /\ r.owner[d] = m.owner[d]
  <2>1. CASE p \in Reached(m, s)
    <3>1. r.kids[p] = m.kids[p]
      BY <1>1, <2>1
    <3>2. Range(m.kids[p]) \subseteq Docs
      BY KidsAreDocs
    <3>. QED  BY <1>1, <1>2, <2>1, <3>1, <3>2
  <2>2. CASE p \notin Reached(m, s)
    BY <1>1, <2>2, EmptyList
  <2>. QED  BY <2>1, <2>2
<1>4. Fewer(m, r)
  BY <1>1, <1>3 DEF Fewer
<1>. QED  BY <1>1, <1>3, <1>4 DEF r
-------------------------------------------------------------------------------
(* The invariant: the parents at each place of the stack.                       *)

Along(ps) ==
  /\ ps \in [Nat -> Parents]
  /\ \A k \in 1..(Len(stack) + 1) : Forest(ps[k]) /\ ps[k][Root] = Nobody
  /\ \A k \in 1..Len(stack) : Leads(ps[k], stack[k], ps[k + 1])
  /\ Placed(model, ps[index + 1])

TreeInv ==
  ~astray =>
  /\ model \in Trees
  /\ stack \in Seq(Commands) /\ index \in 0..Len(stack)
  /\ \E ps : Along(ps)

LEMMA DoneIs ==
  ASSUME stack \in Seq(Commands), index \in 0..Len(stack)
  PROVE  /\ Done \in Seq(Commands) /\ Len(Done) = index /\ DOMAIN Done = 1..index
         /\ \A k \in 1..index : Done[k] = stack[k] /\ Done[k] \in Commands
<1>1. Len(stack) \in Nat /\ \A k \in 1..Len(stack) : stack[k] \in Commands
  BY LenProperties, ElementOfSeq
<1>2. CASE index = 0
  <2>1. Done = << >>
    BY <1>1, <1>2, SubSeqProperties DEF Done
  <2>. QED  BY <1>2, <2>1
<1>3. CASE index # 0
  <2>1. /\ 1 \in Int /\ index \in Int /\ \A k \in 1..index : stack[k] \in Commands
    BY <1>1
  <2>2. /\ Done \in Seq(Commands) /\ Len(Done) = IF 1 <= index THEN index - 1 + 1 ELSE 0
        /\ \A k \in 1..(index - 1 + 1) : Done[k] = stack[1 + k - 1]
    BY <1>1, <1>3, <2>1, SubSeqProperties DEF Done
  <2>3. Len(Done) = index /\ \A k \in 1..index : Done[k] = stack[k]
    BY <1>1, <1>3, <2>2
  <2>. QED  BY <1>1, <2>2, <2>3, LenProperties
<1>. QED  BY <1>2, <1>3

LEMMA NotingIs ==
  ASSUME NEW m, NEW c \in Commands
  PROVE  /\ Noting(m, c) \in Commands /\ Noting(m, c).kind = c.kind
         /\ PointsTo(Noting(m, c)) = PointsTo(c)
         /\ \A P, Q : Leads(P, Noting(m, c), Q) <=> Leads(P, c, Q)
<1>1. CASE c.kind = "type" /\ MakesChart(m, c)
  <2>. DEFINE r == [c EXCEPT !.made = TRUE]
  <2>1. c \in [kind : {"type"}, doc : Docs, old : Types, new : Types, made : BOOLEAN]
    BY <1>1 DEF Commands
  <2>2. r \in [kind : {"type"}, doc : Docs, old : Types, new : Types, made : BOOLEAN] /\ r.doc = c.doc
    BY <2>1
  <2>3. r \in Commands /\ r.kind = "type"
    BY <2>2 DEF Commands
  <2>4. Noting(m, c) = r
    BY <1>1 DEF Noting
  <2>. HIDE DEF r
  <2>. QED  BY <1>1, <2>2, <2>3, <2>4 DEF Leads, PointsTo
<1>2. CASE ~(c.kind = "type" /\ MakesChart(m, c))
  BY <1>2 DEF Noting
<1>. QED  BY <1>1, <1>2

LEMMA InitTree == Init => TreeInv
<1>. SUFFICES ASSUME Init  PROVE TreeInv
  OBVIOUS
<1>1. model \in Trees /\ IsFile(model) /\ stack = << >> /\ index = 0
  BY MscDocumentsAssumption DEF Init
<1>2. /\ model.owner \in Parents /\ Forest(model.owner) /\ model.owner[Root] = Nobody
      /\ Placed(model, model.owner)
  BY <1>1, FileIsTree
<1>. DEFINE ps == [k \in Nat |-> model.owner]
<1>3. ps \in [Nat -> Parents] /\ \A k \in Nat : ps[k] = model.owner
  BY <1>2
<1>. HIDE DEF ps
<1>4. Len(stack) = 0 /\ stack \in Seq(Commands) /\ index \in 0..Len(stack)
  BY <1>1
<1>5. Along(ps)
  BY <1>1, <1>2, <1>3, <1>4 DEF Along
<1>. QED  BY <1>1, <1>4, <1>5 DEF TreeInv

\* A command pushed: qs are the parents that the commands that are done lead through.
LEMMA PushTree ==
  ASSUME TreeInv, NEW before \in Trees, NEW c \in Commands, Push(before, c), ~astray',
         NEW qs \in [Nat -> Parents], NEW Q \in Parents,
         \A k \in 1..(index + 1) : Forest(qs[k]) /\ qs[k][Root] = Nobody,
         \A k \in 1..index : Leads(qs[k], stack[k], qs[k + 1]),
         Placed(before, qs[index + 1]), Leads(qs[index + 1], c, Q), Forest(Q), Q[Root] = Nobody
  PROVE  TreeInv'
<1>. DEFINE known == Known(Done) \cup ChartsOf(c)
            cmd   == Noting(before, c)
<1>1. /\ ~astray /\ ~Misses(before, c) /\ Supplied(before, known)
      /\ model' = Redo(before, c, known)
      /\ stack' = (IF Merges(c) THEN [Done EXCEPT ![index].new = c.new] ELSE Append(Done, cmd))
      /\ index' = Len(stack')
  BY DEF Push
<1>. HIDE DEF known
<1>2. stack \in Seq(Commands) /\ index \in 0..Len(stack) /\ Len(stack) \in Nat
  BY <1>1, LenProperties DEF TreeInv
<1>3. model' \in Trees /\ Placed(model', Q)
  <2>1. qs[index + 1] \in Parents
    BY <1>2
  <2>. QED  BY <1>1, <2>1, RedoPlaced
<1>4. /\ Done \in Seq(Commands) /\ Len(Done) = index /\ DOMAIN Done = 1..index
      /\ \A k \in 1..index : Done[k] = stack[k] /\ Done[k] \in Commands
  BY <1>2, DoneIs
<1>5. CASE Merges(c)
  <2>. DEFINE l == [stack[index] EXCEPT !.new = c.new]
              st == [k \in 1..index |-> IF k = index THEN l ELSE stack[k]]
  <2>1. c.kind = "type" /\ index > 0 /\ stack[index].kind = "type"
    BY <1>5 DEF Merges
  <2>2. index \in 1..index /\ stack[index] \in Commands /\ c.new \in Types
    BY <1>2, <1>4, <2>1, CommandKinds
  <2>3. l \in Commands /\ l.kind = "type"
    <3>1. stack[index] \in [kind : {"type"}, doc : Docs, old : Types, new : Types, made : BOOLEAN]
      BY <2>1, <2>2 DEF Commands
    <3>2. l \in [kind : {"type"}, doc : Docs, old : Types, new : Types, made : BOOLEAN]
      BY <2>2, <3>1
    <3>. QED  BY <3>2 DEF Commands
  <2>4. st \in Seq(Commands) /\ Len(st) = index /\ \A k \in 1..index : st[k] = IF k = index THEN l ELSE stack[k]
    <3>1. \A k \in 1..index : stack[k] \in Commands
      BY <1>4
    <3>2. st \in [1..index -> Commands]
      BY <2>3, <3>1
    <3>3. index \in Nat
      BY <1>2
    <3>. QED  BY <3>2, <3>3
  <2>5. stack' = st
    <3>1. stack' = [Done EXCEPT ![index].new = c.new]
      BY <1>1, <1>5
    <3>2. Done = [k \in 1..index |-> Done[k]]
      BY <1>4
    <3>. QED  BY <1>4, <2>2, <3>1, <3>2
  <2>. HIDE DEF st
  <2>6. Q = qs[index + 1]
    BY <2>1 DEF Leads
  <2>7. index' = index /\ Len(stack') = index
    BY <1>1, <2>4, <2>5
  <2>8. ASSUME NEW k \in 1..index
        PROVE  Leads(qs[k], stack'[k], qs[k + 1])
    <3>1. CASE k = index
      <4>1. stack'[k].kind = "type" /\ Leads(qs[k], stack[k], qs[k + 1]) /\ stack[k].kind = "type"
        BY <2>1, <2>3, <2>4, <2>5, <3>1
      <4>. QED  BY <4>1 DEF Leads
    <3>2. CASE k # index
      BY <2>4, <2>5, <3>2
    <3>. QED  BY <3>1, <3>2
  <2>9. Along(qs)'
    BY <1>3, <2>6, <2>7, <2>8 DEF Along
  <2>10. stack' \in Seq(Commands) /\ index' \in 0..Len(stack')
    BY <1>2, <2>4, <2>5, <2>7
  <2>. QED  BY <1>3, <2>9, <2>10 DEF TreeInv
<1>6. CASE ~Merges(c)
  <2>0. PICK rs : rs = [k \in Nat |-> IF k <= index + 1 THEN qs[k] ELSE Q]
    OBVIOUS
  <2>1. /\ cmd \in Commands /\ \A A, B : Leads(A, cmd, B) <=> Leads(A, c, B)
    BY NotingIs
  <2>. HIDE DEF cmd
  <2>2. stack' = Append(Done, cmd)
    BY <1>1, <1>6
  <2>3. /\ stack' \in Seq(Commands) /\ Len(stack') = index + 1 /\ stack'[index + 1] = cmd
        /\ \A k \in 1..index : stack'[k] = stack[k]
    BY <1>4, <2>1, <2>2, AppendProperties
  <2>4. index' = index + 1
    BY <1>1, <2>3
  <2>5. rs \in [Nat -> Parents] /\ \A k \in Nat : rs[k] = IF k <= index + 1 THEN qs[k] ELSE Q
    BY <2>0
  <2>6. /\ \A k \in 1..(index + 1) : rs[k] = qs[k]
        /\ rs[index + 2] = Q /\ index + 1 + 1 = index + 2
    BY <1>2, <2>5
  <2>7. ASSUME NEW k \in 1..(index + 1)
        PROVE  Leads(rs[k], stack'[k], rs[k + 1])
    <3>1. CASE k = index + 1
      BY <1>2, <2>1, <2>3, <2>6, <3>1
    <3>2. CASE k # index + 1
      <4>1. k \in 1..index /\ k + 1 \in 1..(index + 1)
        BY <1>2, <3>2
      <4>. QED  BY <2>3, <2>6, <4>1
    <3>. QED  BY <3>1, <3>2
  <2>8. ASSUME NEW k \in 1..(index + 2)
        PROVE  Forest(rs[k]) /\ rs[k][Root] = Nobody
    <3>1. CASE k = index + 2
      BY <2>6, <3>1
    <3>2. CASE k # index + 2
      <4>1. k \in 1..(index + 1)
        BY <1>2, <3>2
      <4>. QED  BY <2>6, <4>1
    <3>. QED  BY <3>1, <3>2
  <2>9. Along(rs)'
    <3>1. Len(stack') + 1 = index + 2 /\ index' + 1 = index + 2 /\ 1..Len(stack') = 1..(index + 1)
      BY <1>2, <2>3, <2>4
    <3>2. Placed(model', rs[index' + 1])
      BY <1>3, <2>6, <3>1
    <3>3. \A k \in 1..(Len(stack') + 1) : Forest(rs[k]) /\ rs[k][Root] = Nobody
      BY <2>8, <3>1
    <3>4. \A k \in 1..Len(stack') : Leads(rs[k], stack'[k], rs[k + 1])
      BY <2>7, <3>1
    <3>. QED  BY <2>5, <3>2, <3>3, <3>4 DEF Along
  <2>10. index' \in 0..Len(stack')
    BY <1>2, <2>3, <2>4
  <2>. QED  BY <1>3, <2>3, <2>9, <2>10 DEF TreeInv
<1>. QED  BY <1>5, <1>6

\* What a command that takes no new document begins with.
LEMMA NowPlaced ==
  ASSUME TreeInv, ~astray, NEW ps, Along(ps)
  PROVE  /\ Now \in Trees /\ Placed(Now, ps[index + 1])
         /\ InTree(model) \subseteq Docs \ Spare /\ Spare \subseteq Docs /\ Root \notin Spare
         /\ \A d \in Spare : /\ \A p \in Docs : d \notin Range(Now.kids[p])
                             /\ \A k \in 1..index : d \notin PointsTo(stack[k])
<1>1. model \in Trees /\ stack \in Seq(Commands) /\ index \in 0..Len(stack)
  BY DEF TreeInv
<1>2. DOMAIN Done = 1..index /\ \A k \in 1..index : Done[k] = stack[k] /\ Done[k] \in Commands
  BY <1>1, DoneIs
<1>3. /\ Now \in Trees /\ Fewer(model, Now)
      /\ \A d \in Docs \ Reached(model, Done) : \A p \in Docs : d \notin Range(Now.kids[p])
  BY <1>1, <1>2, ForgetfulFewer DEF Now
<1>4. /\ Reached(model, Done) \subseteq Docs /\ InTree(model) \subseteq Reached(model, Done)
      /\ \A k \in DOMAIN Done : PointsTo(Done[k]) \subseteq Reached(model, Done)
  BY <1>1, <1>2, ReachedIs
<1>5. Placed(Now, ps[index + 1])
  BY <1>3, PlacedFewer DEF Along
<1>6. Root \in InTree(model)
  BY <1>1, NobodyIsNoDoc, UnderIs DEF InTree
<1>. QED  BY <1>2, <1>3, <1>4, <1>5, <1>6 DEF Spare

\* A command that takes a new document.
LEMMA NewDocTree ==
  ASSUME TreeInv, NEW before, NEW d \in Spare, NEW p \in InTree(model), NEW c \in Commands,
         before \in Trees, before.kids = Now.kids, before.owner = Now.owner,
         c.kind \in {"create", "paste"}, c.doc = d, c.parent = p, Push(before, c), ~astray'
  PROVE  TreeInv'
<1>1. ~astray
  BY DEF Push
<1>2. PICK ps : Along(ps)
  BY <1>1 DEF TreeInv
<1>3. model \in Trees /\ index \in Nat /\ index <= Len(stack) /\ Len(stack) \in Nat
  BY <1>1, LenProperties DEF TreeInv
<1>4. /\ Now \in Trees /\ Placed(Now, ps[index + 1])
      /\ InTree(model) \subseteq Docs \ Spare /\ Spare \subseteq Docs /\ Root \notin Spare
      /\ \A x \in Spare : /\ \A q \in Docs : x \notin Range(Now.kids[q])
                          /\ \A k \in 1..index : x \notin PointsTo(stack[k])
  BY <1>1, <1>2, NowPlaced
<1>5. /\ ps \in [Nat -> Parents] /\ \A k \in 1..(Len(stack) + 1) : Forest(ps[k]) /\ ps[k][Root] = Nobody
      /\ \A k \in 1..Len(stack) : Leads(ps[k], stack[k], ps[k + 1]) /\ stack[k] \in Commands
      /\ Placed(model, ps[index + 1])
  BY <1>1, <1>2, ElementOfSeq DEF Along, TreeInv
<1>6. d \in Docs /\ p \in Docs /\ d # Root /\ d # p
  BY <1>4
<1>. DEFINE qs == [k \in Nat |-> [ps[k] EXCEPT ![d] = Nobody]]
            Q  == [qs[index + 1] EXCEPT ![d] = p]
<1>7. /\ qs \in [Nat -> Parents]
      /\ \A k \in Nat : qs[k] = [ps[k] EXCEPT ![d] = Nobody]
  BY <1>5 DEF Parents
<1>8. \A k \in Nat : /\ qs[k] \in Parents /\ qs[k][d] = Nobody
                     /\ \A x \in Docs \ {d} : qs[k][x] = ps[k][x]
  BY <1>5, <1>6, <1>7 DEF Parents
<1>. HIDE DEF qs
<1>9. Q \in Parents
  <2>1. qs[index + 1] \in Parents
    BY <1>3, <1>8
  <2>. QED  BY <1>6, <2>1 DEF Parents
<1>10. ASSUME NEW k \in 1..(index + 1)
       PROVE  Forest(qs[k]) /\ qs[k][Root] = Nobody
  <2>1. k \in Nat /\ k \in 1..(Len(stack) + 1) /\ ps[k] \in Parents
    BY <1>3, <1>5
  <2>2. Forest(ps[k]) /\ ps[k][Root] = Nobody /\ qs[k] = [ps[k] EXCEPT ![d] = Nobody]
    BY <1>5, <1>7, <2>1
  <2>3. Forest(qs[k])
    BY <2>1, <2>2, ForestCut
  <2>. QED  BY <1>6, <1>8, <2>1, <2>2, <2>3, NobodyIsNoDoc
<1>11. ASSUME NEW k \in 1..index
       PROVE  Leads(qs[k], stack[k], qs[k + 1])
  <2>1. k \in Nat /\ k + 1 \in Nat /\ k \in 1..Len(stack)
    BY <1>3
  <2>2. /\ Leads(ps[k], stack[k], ps[k + 1]) /\ stack[k] \in Commands /\ d \notin PointsTo(stack[k])
    BY <1>4, <1>5, <2>1
  <2>3. /\ ps[k] \in Parents /\ ps[k + 1] \in Parents
        /\ qs[k] = [ps[k] EXCEPT ![d] = Nobody] /\ qs[k + 1] = [ps[k + 1] EXCEPT ![d] = Nobody]
    BY <1>5, <1>7, <2>1
  <2>4. CASE stack[k].kind \in {"type", "draw"}
    BY <2>2, <2>3, <2>4 DEF Leads
  <2>5. CASE stack[k].kind \in {"create", "paste", "delete", "move"}
    <3>1. stack[k].doc \in Docs /\ stack[k].doc # d
      BY <2>2, <2>5, CommandKinds
    <3>2. qs[k][stack[k].doc] = ps[k][stack[k].doc]
      BY <2>1, <1>8, <3>1
    <3>3. ASSUME NEW v, ps[k + 1] = [ps[k] EXCEPT ![stack[k].doc] = v]
          PROVE  qs[k + 1] = [qs[k] EXCEPT ![stack[k].doc] = v]
      BY <1>6, <2>3, <3>1, <3>3 DEF Parents
    <3>. QED  BY <2>2, <2>5, <3>2, <3>3 DEF Leads
  <2>. QED  BY <2>2, <2>4, <2>5, CommandKinds
<1>12. Placed(before, qs[index + 1])
  <2>1. Placed(Now, qs[index + 1])
    <3>1. \A x \in Docs \ {d} : qs[index + 1][x] = ps[index + 1][x]
      BY <1>3, <1>8
    <3>2. \A q \in Docs : d \notin Range(Now.kids[q])
      BY <1>4
    <3>3. \A q \in Docs : \A x \in Range(Now.kids[q]) : x \in Docs \ {d}
      BY <1>4, <3>2, KidsAreDocs
    <3>. QED  BY <1>4, <3>1, <3>3 DEF Placed
  <2>. QED  BY <2>1, PlacedSame
<1>13. Leads(qs[index + 1], c, Q)
  BY <1>3, <1>8 DEF Leads
<1>14. Forest(Q)
  <2>1. /\ qs[index + 1] \in Parents /\ Forest(qs[index + 1]) /\ qs[index + 1][Root] = Nobody
    BY <1>3, <1>8, <1>10
  <2>2. InTree(model) \in SUBSET Docs /\ d \in Docs \ InTree(model)
    BY <1>4, <1>6
  <2>3. \A x \in InTree(model) \ {Root} : qs[index + 1][x] \in InTree(model)
    <3>1. \A x \in InTree(model) \ {Root} : ps[index + 1][x] \in InTree(model)
      BY <1>3, <1>5, WayUp
    <3>2. index + 1 \in Nat
      BY <1>3
    <3>. QED  BY <1>8, <2>2, <3>1, <3>2
  <2>. QED  BY <1>6, <2>1, <2>2, <2>3, ForestAdded
<1>15. Q[Root] = Nobody
  BY <1>3, <1>6, <1>8, <1>10, NobodyIsNoDoc DEF Parents
<1>. HIDE DEF Q
<1>. QED  BY <1>7, <1>9, <1>10, <1>11, <1>12, <1>13, <1>14, <1>15, PushTree

LEMMA RenewedIs ==
  ASSUME NEW d \in Docs, NEW t \in Types, Now \in Trees
  PROVE  LET n == Renewed(d, t)
         IN  /\ n \in Trees /\ n.kids = Now.kids /\ n.owner = Now.owner /\ n.charts = Now.charts
             /\ n.charted = Now.charted /\ n.drawn = Now.drawn /\ n.live = Now.live \cup {d}
             /\ \A x \in Docs : n.type[x] = IF x = d THEN t ELSE Now.type[x]
<1>. DEFINE n == [Now EXCEPT !.live = Now.live \cup {d}, !.type[d] = t]
<1>1. /\ n \in Trees /\ n.kids = Now.kids /\ n.owner = Now.owner /\ n.charts = Now.charts
      /\ n.charted = Now.charted /\ n.drawn = Now.drawn /\ n.live = Now.live \cup {d}
      /\ \A x \in Docs : n.type[x] = IF x = d THEN t ELSE Now.type[x]
  BY DEF Trees
<1>2. Renewed(d, t) = n
  BY DEF Renewed
<1>. HIDE DEF n
<1>. QED  BY <1>1, <1>2

LEMMA CreateTree == TreeInv /\ Create /\ ~astray' => TreeInv'
<1>. SUFFICES ASSUME TreeInv, Create, ~astray'  PROVE TreeInv'
  OBVIOUS
<1>1. PICK p \in InTree(model), d \in Spare, t \in Types :
        Push(Renewed(d, t), [kind |-> "create", doc |-> d, parent |-> p, charts |-> model.charts[p]])
  BY DEF Create
<1>. DEFINE c == [kind |-> "create", doc |-> d, parent |-> p, charts |-> model.charts[p]]
<1>2. ~astray /\ model \in Trees
  BY <1>1 DEF Push, TreeInv
<1>3. PICK ps : Along(ps)
  BY <1>2 DEF TreeInv
<1>4. Now \in Trees /\ InTree(model) \subseteq Docs /\ Spare \subseteq Docs
  BY <1>2, <1>3, NowPlaced
<1>5. c \in Commands
  <2>1. model.charts[p] \in Seq(Charts) /\ p \in Docs /\ d \in Docs
    BY <1>2, <1>4 DEF Trees
  <2>2. c \in [kind : {"create"}, doc : Docs, parent : Docs, charts : Seq(Charts)]
    BY <2>1
  <2>. QED  BY <2>2 DEF Commands
<1>6. c.kind = "create" /\ c.doc = d /\ c.parent = p /\ Push(Renewed(d, t), c)
  BY <1>1
<1>. HIDE DEF c
<1>7. d \in Docs /\ t \in Types
  BY <1>4
<1>8. Renewed(d, t) \in Trees /\ Renewed(d, t).kids = Now.kids /\ Renewed(d, t).owner = Now.owner
  BY <1>4, <1>7, RenewedIs
<1>. QED  BY <1>5, <1>6, <1>8, NewDocTree

LEMMA PasteTree == TreeInv /\ Paste /\ ~astray' => TreeInv'
<1>. SUFFICES ASSUME TreeInv, Paste, ~astray'  PROVE TreeInv'
  OBVIOUS
<1>1. PICK p \in InTree(model), d \in Spare :
        LET k == NewChart(Now, Known(Done)) IN
        /\ Supplied(Now, Known(Done))
        /\ Push([Renewed(d, "LEAF") EXCEPT !.charted = Renewed(d, "LEAF").charted \cup {k},
                   !.drawn = Renewed(d, "LEAF").drawn \cup {k}, !.charts[d] = <<k>>],
                [kind |-> "paste", doc |-> d, parent |-> p, chart |-> k])
  BY DEF Paste
<1>. DEFINE k == NewChart(Now, Known(Done))
            b == Renewed(d, "LEAF")
            n == [b EXCEPT !.charted = b.charted \cup {k}, !.drawn = b.drawn \cup {k}, !.charts[d] = <<k>>]
            c == [kind |-> "paste", doc |-> d, parent |-> p, chart |-> k]
<1>2. Supplied(Now, Known(Done)) /\ Push(n, c)
  BY <1>1
<1>3. ~astray /\ model \in Trees
  BY <1>2 DEF Push, TreeInv
<1>4. PICK ps : Along(ps)
  BY <1>3 DEF TreeInv
<1>5. Now \in Trees /\ InTree(model) \subseteq Docs /\ Spare \subseteq Docs
  BY <1>3, <1>4, NowPlaced
<1>6. k \in Charts
  BY <1>2 DEF Supplied, NewChart
<1>. HIDE DEF k
<1>7. d \in Docs /\ p \in Docs /\ "LEAF" \in Types
  BY <1>5 DEF Types
<1>8. c \in Commands /\ c.kind = "paste" /\ c.doc = d /\ c.parent = p
  <2>1. c \in [kind : {"paste"}, doc : Docs, parent : Docs, chart : Charts]
    BY <1>6, <1>7
  <2>. QED  BY <2>1 DEF Commands
<1>. HIDE DEF c
<1>9. b \in Trees /\ b.kids = Now.kids /\ b.owner = Now.owner
  BY <1>5, <1>7, RenewedIs
<1>. HIDE DEF b
<1>10. n \in Trees /\ n.kids = Now.kids /\ n.owner = Now.owner
  <2>1. <<k>> \in Seq(Charts)
    BY <1>6
  <2>. QED  BY <1>6, <1>9, <2>1 DEF Trees
<1>. HIDE DEF n
<1>. QED  BY <1>2, <1>8, <1>10, NewDocTree

\* A command that takes no new document.
LEMMA OldDocTree ==
  ASSUME TreeInv, NEW c \in Commands, Push(Now, c), ~astray', NEW ps, Along(ps), NEW Q \in Parents,
         Leads(ps[index + 1], c, Q), Forest(Q), Q[Root] = Nobody
  PROVE  TreeInv'
<1>1. ~astray
  BY DEF Push
<1>2. index \in Nat /\ index <= Len(stack) /\ Len(stack) \in Nat
  BY <1>1, LenProperties DEF TreeInv
<1>3. Now \in Trees /\ Placed(Now, ps[index + 1])
  BY <1>1, NowPlaced
<1>4. /\ ps \in [Nat -> Parents]
      /\ \A k \in 1..(index + 1) : Forest(ps[k]) /\ ps[k][Root] = Nobody
      /\ \A k \in 1..index : Leads(ps[k], stack[k], ps[k + 1])
  BY <1>2 DEF Along
<1>. QED  BY <1>3, <1>4, PushTree

LEMMA AlongHere ==
  ASSUME TreeInv, ~astray, NEW ps, Along(ps)
  PROVE  /\ model \in Trees /\ index \in Nat /\ index <= Len(stack) /\ Len(stack) \in Nat
         /\ ps[index + 1] \in Parents /\ Forest(ps[index + 1]) /\ ps[index + 1][Root] = Nobody
         /\ Placed(model, ps[index + 1])
         /\ InTree(model) \subseteq Docs
         /\ \A d \in InTree(model) \ {Root} :
              /\ model.owner[d] \in InTree(model) /\ model.owner[d] = ps[index + 1][d]
              /\ IndexOf(model.kids[model.owner[d]], d) \in Int
<1>1. model \in Trees /\ index \in Nat /\ index <= Len(stack) /\ Len(stack) \in Nat
  BY LenProperties DEF TreeInv
<1>2. index + 1 \in 1..(Len(stack) + 1) /\ index + 1 \in Nat
  BY <1>1
<1>3. /\ ps[index + 1] \in Parents /\ Forest(ps[index + 1]) /\ ps[index + 1][Root] = Nobody
      /\ Placed(model, ps[index + 1])
  BY <1>2 DEF Along
<1>4. InTree(model) \subseteq Docs
  BY <1>1, NobodyIsNoDoc, UnderIs DEF InTree
<1>5. ASSUME NEW d \in InTree(model) \ {Root}
      PROVE  /\ model.owner[d] \in InTree(model) /\ model.owner[d] = ps[index + 1][d]
             /\ IndexOf(model.kids[model.owner[d]], d) \in Int
  <2>1. /\ model.owner[d] \in InTree(model) /\ model.owner[d] = ps[index + 1][d]
        /\ d \in Range(model.kids[model.owner[d]])
    BY <1>1, <1>3, WayUp
  <2>. DEFINE l == model.kids[model.owner[d]]
  <2>2. l \in Seq(Docs) /\ NoRepeat(l)
    BY <1>1, <1>3, <1>4, <2>1, KidsAreDocs DEF Placed
  <2>3. d \in Range(l)
    BY <2>1
  <2>. HIDE DEF l
  <2>4. IndexOf(l, d) \in 0..(Len(l) - 1)
    BY <2>2, <2>3, IndexOfProperties
  <2>5. IndexOf(l, d) \in Int
    BY <2>2, <2>4, LenProperties
  <2>. QED  BY <2>1, <2>5 DEF l
<1>. QED  BY <1>1, <1>3, <1>4, <1>5

LEMMA MoveTree == TreeInv /\ Move /\ ~astray' => TreeInv'
<1>. SUFFICES ASSUME TreeInv, Move, ~astray'  PROVE TreeInv'
  OBVIOUS
<1>1. PICK d \in InTree(model) \ {Root} : \E to \in InTree(model) \ Under(model, d) :
        /\ to # model.owner[d]
        /\ Push(Now, [kind |-> "move", doc |-> d, from |-> model.owner[d], to |-> to, charts |-> model.charts[to],
                      index |-> IndexOf(model.kids[model.owner[d]], d)])
  BY DEF Move
<1>2. PICK to \in InTree(model) \ Under(model, d) :
        /\ to # model.owner[d]
        /\ Push(Now, [kind |-> "move", doc |-> d, from |-> model.owner[d], to |-> to, charts |-> model.charts[to],
                      index |-> IndexOf(model.kids[model.owner[d]], d)])
  BY <1>1
<1>3. ~astray
  BY <1>2 DEF Push
<1>4. PICK ps : Along(ps)
  BY <1>3 DEF TreeInv
<1>. DEFINE P == ps[index + 1]
            Q == [P EXCEPT ![d] = to]
            from == model.owner[d]
            c == [kind |-> "move", doc |-> d, from |-> from, to |-> to, charts |-> model.charts[to],
                  index |-> IndexOf(model.kids[from], d)]
<1>5. /\ model \in Trees /\ P \in Parents /\ Forest(P) /\ P[Root] = Nobody /\ Placed(model, P)
      /\ InTree(model) \subseteq Docs /\ from \in InTree(model) /\ from = P[d]
      /\ IndexOf(model.kids[from], d) \in Int
  BY <1>3, <1>4, AlongHere
<1>6. c \in Commands /\ c.kind = "move" /\ c.doc = d /\ c.from = from /\ c.to = to
  <2>1. model.charts[to] \in Seq(Charts) /\ d \in Docs /\ from \in Docs /\ to \in Docs
    BY <1>5 DEF Trees
  <2>2. c \in [kind : {"move"}, doc : Docs, from : Docs, to : Docs, charts : Seq(Charts), index : Int]
    BY <1>5, <2>1
  <2>. QED  BY <1>2, <2>2 DEF Commands
<1>7. Push(Now, c)
  BY <1>2
<1>. HIDE DEF c, P
<1>8. Q \in Parents /\ Leads(P, c, Q)
  BY <1>5, <1>6 DEF Parents, Leads
<1>9. Forest(Q)
  <2>. DEFINE G == InTree(model) \ Under(model, d)
  <2>1. G \in SUBSET Docs /\ d \in Docs \ G /\ d # Root /\ to \in G
    BY <1>5, UnderIs
  <2>2. ASSUME NEW x \in G \ {Root}
        PROVE  P[x] \in G
    <3>1. P[x] \in InTree(model) /\ x \in Range(model.kids[P[x]])
      BY <1>5, WayUp
    <3>2. P[x] \notin Under(model, d)
      BY <1>5, <2>1, <3>1, UnderIs
    <3>. QED  BY <3>1, <3>2
  <2>. HIDE DEF G
  <2>3. \A x \in G \ {Root} : P[x] \in G
    BY <2>2
  <2>. QED  BY <1>5, <2>1, <2>3, ForestAdded
<1>10. Q[Root] = Nobody
  BY <1>5, NobodyIsNoDoc DEF Parents
<1>. HIDE DEF Q
<1>. QED  BY <1>4, <1>6, <1>7, <1>8, <1>9, <1>10, OldDocTree DEF P

LEMMA DeleteTree == TreeInv /\ Delete /\ ~astray' => TreeInv'
<1>. SUFFICES ASSUME TreeInv, Delete, ~astray'  PROVE TreeInv'
  OBVIOUS
<1>1. PICK d \in InTree(model) \ {Root} :
        Push(Now, [kind |-> "delete", doc |-> d, parent |-> model.owner[d],
                   index |-> IndexOf(model.kids[model.owner[d]], d)])
  BY DEF Delete
<1>2. ~astray
  BY <1>1 DEF Push
<1>3. PICK ps : Along(ps)
  BY <1>2 DEF TreeInv
<1>. DEFINE P == ps[index + 1]
            Q == [P EXCEPT ![d] = Nobody]
            from == model.owner[d]
            c == [kind |-> "delete", doc |-> d, parent |-> from, index |-> IndexOf(model.kids[from], d)]
<1>4. /\ P \in Parents /\ Forest(P) /\ P[Root] = Nobody
      /\ InTree(model) \subseteq Docs /\ from \in InTree(model) /\ from = P[d]
      /\ IndexOf(model.kids[from], d) \in Int
  BY <1>2, <1>3, AlongHere
<1>5. c \in Commands /\ c.kind = "delete" /\ c.doc = d /\ c.parent = from
  <2>1. c \in [kind : {"delete"}, doc : Docs, parent : Docs, index : Int]
    BY <1>4
  <2>. QED  BY <2>1 DEF Commands
<1>6. Push(Now, c)
  BY <1>1
<1>. HIDE DEF c, P
<1>7. Q \in Parents /\ Leads(P, c, Q) /\ Q[Root] = Nobody
  BY <1>4, <1>5, NobodyIsNoDoc DEF Parents, Leads
<1>8. Forest(Q)
  BY <1>4, ForestCut
<1>. HIDE DEF Q
<1>. QED  BY <1>3, <1>5, <1>6, <1>7, <1>8, OldDocTree DEF P

LEMMA ChangeTypeTree == TreeInv /\ ChangeType /\ ~astray' => TreeInv'
<1>. SUFFICES ASSUME TreeInv, ChangeType, ~astray'  PROVE TreeInv'
  OBVIOUS
<1>1. PICK d \in InTree(model), t \in Types :
        Push(Now, [kind |-> "type", doc |-> d, old |-> model.type[d], new |-> t, made |-> FALSE])
  BY DEF ChangeType
<1>. DEFINE c == [kind |-> "type", doc |-> d, old |-> model.type[d], new |-> t, made |-> FALSE]
<1>2. ~astray
  BY <1>1 DEF Push
<1>3. PICK ps : Along(ps)
  BY <1>2 DEF TreeInv
<1>. DEFINE P == ps[index + 1]
<1>4. /\ model \in Trees /\ P \in Parents /\ Forest(P) /\ P[Root] = Nobody
      /\ InTree(model) \subseteq Docs
  BY <1>2, <1>3, AlongHere
<1>5. c \in Commands /\ c.kind = "type"
  <2>1. c \in [kind : {"type"}, doc : Docs, old : Types, new : Types, made : BOOLEAN]
    BY <1>4 DEF Trees
  <2>. QED  BY <2>1 DEF Commands
<1>6. Push(Now, c)
  BY <1>1
<1>. HIDE DEF c, P
<1>7. Leads(P, c, P)
  BY <1>5 DEF Leads
<1>. QED  BY <1>3, <1>4, <1>5, <1>6, <1>7, OldDocTree DEF P

LEMMA DrawTree == TreeInv /\ Draw /\ ~astray' => TreeInv'
<1>. SUFFICES ASSUME TreeInv, Draw, ~astray'  PROVE TreeInv'
  OBVIOUS
<1>0. PICK d \in InTree(model) : \E k \in Range(model.charts[d]) : Push(Now, [kind |-> "draw", chart |-> k])
  BY DEF Draw
<1>1. PICK k \in Range(model.charts[d]) : Push(Now, [kind |-> "draw", chart |-> k])
  BY <1>0
<1>. DEFINE c == [kind |-> "draw", chart |-> k]
<1>2. ~astray
  BY <1>1 DEF Push
<1>3. PICK ps : Along(ps)
  BY <1>2 DEF TreeInv
<1>. DEFINE P == ps[index + 1]
<1>4. /\ model \in Trees /\ P \in Parents /\ Forest(P) /\ P[Root] = Nobody
      /\ InTree(model) \subseteq Docs
  BY <1>2, <1>3, AlongHere
<1>5. c \in Commands /\ c.kind = "draw"
  <2>1. model.charts[d] \in Seq(Charts)
    BY <1>4 DEF Trees
  <2>2. k \in Charts
    BY <2>1, RangeOfSeq
  <2>3. c \in [kind : {"draw"}, chart : Charts]
    BY <2>2
  <2>. QED  BY <2>3 DEF Commands
<1>6. Push(Now, c)
  BY <1>1
<1>. HIDE DEF c, P
<1>7. Leads(P, c, P)
  BY <1>5 DEF Leads
<1>. QED  BY <1>3, <1>4, <1>5, <1>6, <1>7, OldDocTree DEF P

LEMMA UndoTree == TreeInv /\ UndoOne /\ ~astray' => TreeInv'
<1>. SUFFICES ASSUME TreeInv, UndoOne, ~astray'  PROVE TreeInv'
  OBVIOUS
<1>1. /\ index > 0 /\ model' = Undo(model, stack[index]) /\ index' = index - 1 /\ stack' = stack
      /\ ~astray /\ PointsTo(stack[index]) \subseteq model.live
  BY DEF UndoOne
<1>2. PICK ps : Along(ps)
  BY <1>1 DEF TreeInv
<1>3. /\ model \in Trees /\ index \in Nat /\ index <= Len(stack) /\ Len(stack) \in Nat
      /\ ps[index + 1] \in Parents /\ Placed(model, ps[index + 1]) /\ stack \in Seq(Commands)
  BY <1>1, <1>2, AlongHere DEF TreeInv
<1>4. index \in 1..Len(stack) /\ index' + 1 = index /\ index' \in 0..Len(stack)
  BY <1>1, <1>3
<1>5. stack[index] \in Commands /\ ps[index] \in Parents /\ Leads(ps[index], stack[index], ps[index + 1])
  BY <1>2, <1>3, <1>4, ElementOfSeq DEF Along
<1>6. model' \in Trees /\ Placed(model', ps[index])
  BY <1>1, <1>3, <1>5, UndoPlaced
<1>7. Along(ps)'
  BY <1>1, <1>2, <1>4, <1>6 DEF Along
<1>. QED  BY <1>1, <1>3, <1>4, <1>6, <1>7 DEF TreeInv

LEMMA RedoTree == TreeInv /\ RedoOne /\ ~astray' => TreeInv'
<1>. SUFFICES ASSUME TreeInv, RedoOne, ~astray'  PROVE TreeInv'
  OBVIOUS
<1>. DEFINE c == stack[index + 1]
            cmd == Noting(model, c)
<1>1. /\ index < Len(stack) /\ Supplied(model, Known(stack)) /\ model' = Redo(model, c, Known(stack))
      /\ stack' = [stack EXCEPT ![index + 1] = cmd] /\ index' = index + 1
      /\ ~astray /\ ~Misses(model, c)
  BY DEF RedoOne
<1>2. PICK ps : Along(ps)
  BY <1>1 DEF TreeInv
<1>3. /\ model \in Trees /\ index \in Nat /\ index <= Len(stack) /\ Len(stack) \in Nat
      /\ ps[index + 1] \in Parents /\ Placed(model, ps[index + 1]) /\ stack \in Seq(Commands)
  BY <1>1, <1>2, AlongHere DEF TreeInv
<1>4. index + 1 \in 1..Len(stack) /\ index' \in 0..Len(stack) /\ index + 1 \in Nat /\ index + 2 \in Nat
      /\ index + 1 + 1 = index + 2
  BY <1>1, <1>3
<1>5. c \in Commands /\ ps[index + 2] \in Parents /\ Leads(ps[index + 1], c, ps[index + 2])
  BY <1>2, <1>3, <1>4, ElementOfSeq DEF Along
<1>6. cmd \in Commands /\ \A A, B : Leads(A, cmd, B) <=> Leads(A, c, B)
  BY <1>5, NotingIs
<1>. HIDE DEF cmd
<1>7. model' \in Trees /\ Placed(model', ps[index + 2])
  BY <1>1, <1>3, <1>5, RedoPlaced
<1>8. /\ stack' \in Seq(Commands) /\ Len(stack') = Len(stack)
      /\ \A k \in 1..Len(stack) : stack'[k] = IF k = index + 1 THEN cmd ELSE stack[k]
  BY <1>1, <1>3, <1>4, <1>6
<1>9. ASSUME NEW k \in 1..Len(stack)
      PROVE  Leads(ps[k], stack'[k], ps[k + 1])
  <2>1. Leads(ps[k], stack[k], ps[k + 1])
    BY <1>2 DEF Along
  <2>. QED  BY <1>6, <1>8, <2>1
<1>10. Along(ps)'
  BY <1>1, <1>2, <1>4, <1>7, <1>8, <1>9 DEF Along
<1>. QED  BY <1>4, <1>7, <1>8, <1>10 DEF TreeInv

LEMMA NextTree == TreeInv /\ [Next]_vars => TreeInv'
<1>. SUFFICES ASSUME TreeInv, [Next]_vars  PROVE TreeInv'
  OBVIOUS
<1>1. CASE UNCHANGED vars
  BY <1>1 DEF vars, TreeInv, Along
<1>2. CASE Next /\ astray'
  BY <1>2 DEF TreeInv
<1>3. CASE Next /\ ~astray'
  <2>1. CASE Create
    BY <1>3, <2>1, CreateTree
  <2>2. CASE Move
    BY <1>3, <2>2, MoveTree
  <2>3. CASE Delete
    BY <1>3, <2>3, DeleteTree
  <2>4. CASE ChangeType
    BY <1>3, <2>4, ChangeTypeTree
  <2>5. CASE Paste
    BY <1>3, <2>5, PasteTree
  <2>6. CASE Draw
    BY <1>3, <2>6, DrawTree
  <2>7. CASE UndoOne
    BY <1>3, <2>7, UndoTree
  <2>8. CASE RedoOne
    BY <1>3, <2>8, RedoTree
  <2>. QED  BY <1>3, <2>1, <2>2, <2>3, <2>4, <2>5, <2>6, <2>7, <2>8 DEF Next
<1>. QED  BY <1>1, <1>2, <1>3

LEMMA TreeInvIsTree == TreeInv => DocumentsAreATree
<1>. SUFFICES ASSUME TreeInv, ~astray
              PROVE  /\ \A p \in InTree(model) : NoRepeat(model.kids[p]) /\ \A d \in Range(model.kids[p]) : model.owner[d] = p
                     /\ \A p \in InTree(model) : \A d \in Range(model.kids[p]) : p \notin Under(model, d)
  BY DEF DocumentsAreATree
<1>1. PICK ps : Along(ps)
  BY DEF TreeInv
<1>2. /\ model \in Trees /\ Forest(ps[index + 1]) /\ Placed(model, ps[index + 1])
      /\ InTree(model) \subseteq Docs
  BY <1>1, AlongHere
<1>3. \A p \in InTree(model) : NoRepeat(model.kids[p]) /\ \A d \in Range(model.kids[p]) : model.owner[d] = p
  BY <1>2 DEF Placed
<1>4. ASSUME NEW p \in InTree(model), NEW d \in Range(model.kids[p])
      PROVE  p \notin Under(model, d)
  BY <1>2, PlacedIsTree
<1>. QED  BY <1>3, <1>4

\* The documents that a file's root leads to are a tree after any commands, undone and
\* redone in any way, as long as none has lost its way.
THEOREM DocumentsStayATree == Spec => []DocumentsAreATree
<1>1. TreeInv /\ [Next]_vars => TreeInv'
  BY NextTree
<1>. QED  BY InitTree, TreeInvIsTree, <1>1, PTL DEF Spec
-------------------------------------------------------------------------------
(* The sessions whose undo loses nothing.  A chart that a command makes is      *)
(* another one at each redo, so what the user had is kept up to the identity of *)
(* the charts that the file, whose charts are S, did not bring.                 *)

Mark(S, m, c) == <<{c} \cap S, c \in m.drawn \ S>>
Marks == (SUBSET Charts) \X BOOLEAN
Made == <<{}, FALSE>>

States == [type : [Docs -> Types], kids : [Docs -> Seq(Docs)], charts : [Docs -> Seq(Marks)],
           drawn : SUBSET Charts]

\* m is as w says.
Agrees(S, m, w) ==
  /\ m.drawn \cap S = w.drawn
  /\ \A d \in Docs : /\ m.type[d] = w.type[d] /\ m.kids[d] = w.kids[d]
                     /\ Len(m.charts[d]) = Len(w.charts[d])
                     /\ \A k \in 1..Len(w.charts[d]) : w.charts[d][k] = Mark(S, m, m.charts[d][k])

\* Nothing listed is destroyed, no chart is in two documents, and the file's are there.
Healthy(S, m) ==
  /\ m \in Trees /\ Root \in m.live /\ S \subseteq m.charted
  /\ \A d \in Docs : Range(m.kids[d]) \subseteq m.live /\ Range(m.charts[d]) \subseteq m.charted
  /\ \A d, e \in Docs : d # e => Range(m.charts[d]) \cap Range(m.charts[e]) = {}

PutType(w, d, t) == [w EXCEPT !.type[d] = t]
PutKids(w, d, l) == [w EXCEPT !.kids[d] = l]
PutCharts(w, d, l) == [w EXCEPT !.charts[d] = l]

LEMMA PutTypeIs ==
  ASSUME NEW w \in States, NEW d \in Docs, NEW t \in Types
  PROVE  /\ PutType(w, d, t) \in States /\ PutType(w, d, t).kids = w.kids
         /\ PutType(w, d, t).charts = w.charts /\ PutType(w, d, t).drawn = w.drawn
         /\ \A x \in Docs : PutType(w, d, t).type[x] = IF x = d THEN t ELSE w.type[x]
BY DEF PutType, States

LEMMA PutKidsIs ==
  ASSUME NEW w \in States, NEW d \in Docs, NEW l \in Seq(Docs)
  PROVE  /\ PutKids(w, d, l) \in States /\ PutKids(w, d, l).type = w.type
         /\ PutKids(w, d, l).charts = w.charts /\ PutKids(w, d, l).drawn = w.drawn
         /\ \A x \in Docs : PutKids(w, d, l).kids[x] = IF x = d THEN l ELSE w.kids[x]
BY DEF PutKids, States

LEMMA PutChartsIs ==
  ASSUME NEW w \in States, NEW d \in Docs, NEW l \in Seq(Marks)
  PROVE  /\ PutCharts(w, d, l) \in States /\ PutCharts(w, d, l).type = w.type
         /\ PutCharts(w, d, l).kids = w.kids /\ PutCharts(w, d, l).drawn = w.drawn
         /\ \A x \in Docs : PutCharts(w, d, l).charts[x] = IF x = d THEN l ELSE w.charts[x]
BY DEF PutCharts, States

\* Two states are one if they have the same documents.
LEMMA SameStates ==
  ASSUME NEW v \in States, NEW w \in States, v.drawn = w.drawn,
         \A d \in Docs : v.type[d] = w.type[d] /\ v.kids[d] = w.kids[d] /\ v.charts[d] = w.charts[d]
  PROVE  v = w
<1>1. v.type \in [Docs -> Types] /\ w.type \in [Docs -> Types]
  BY DEF States
<1>2. v.kids \in [Docs -> Seq(Docs)] /\ w.kids \in [Docs -> Seq(Docs)]
  BY DEF States
<1>3. v.charts \in [Docs -> Seq(Marks)] /\ w.charts \in [Docs -> Seq(Marks)]
  BY DEF States
<1>4. v.type = w.type
  BY <1>1
<1>5. v.kids = w.kids
  BY <1>2
<1>6. v.charts = w.charts
  BY <1>3
<1>. QED  BY <1>4, <1>5, <1>6, SMTT(30) DEF States

LEMMA MadeIs == Made \in Marks /\ <<Made>> \in Seq(Marks) /\ << >> \in Seq(Marks) /\ Len(<<Made>>) = 1
<1>1. Made \in Marks
  BY DEF Made, Marks
<1>. QED  BY <1>1

LEMMA TypePut ==
  ASSUME NEW S, NEW m, NEW n \in Trees, NEW w \in States, NEW p \in Docs, NEW t \in Types,
         Healthy(S, m), Agrees(S, m, w), n.kids = m.kids, n.charts = m.charts, n.charted = m.charted,
         n.drawn = m.drawn, n.live = m.live, \A q \in Docs : n.type[q] = IF q = p THEN t ELSE m.type[q]
  PROVE  Healthy(S, n) /\ Agrees(S, n, PutType(w, p, t))
<1>1. Healthy(S, n)
  BY DEF Healthy
<1>2. \A c : Mark(S, n, c) = Mark(S, m, c)
  BY DEF Mark
<1>. DEFINE v == PutType(w, p, t)
<1>3. /\ v.kids = w.kids /\ v.charts = w.charts /\ v.drawn = w.drawn
      /\ \A x \in Docs : v.type[x] = IF x = p THEN t ELSE w.type[x]
  BY PutTypeIs
<1>. HIDE DEF v
<1>4. Agrees(S, n, v)
  BY <1>2, <1>3 DEF Agrees
<1>. QED  BY <1>1, <1>4 DEF v

LEMMA KidsPut ==
  ASSUME NEW S, NEW m, NEW n \in Trees, NEW w \in States, NEW p \in Docs, NEW l \in Seq(Docs),
         Healthy(S, m), Agrees(S, m, w), n.type = m.type, n.charts = m.charts, n.charted = m.charted,
         n.drawn = m.drawn, n.live = m.live, n.kids[p] = l, \A q \in Docs \ {p} : n.kids[q] = m.kids[q],
         Range(l) \subseteq m.live
  PROVE  Healthy(S, n) /\ Agrees(S, n, PutKids(w, p, l))
<1>1. Healthy(S, n)
  BY DEF Healthy
<1>2. \A c : Mark(S, n, c) = Mark(S, m, c)
  BY DEF Mark
<1>. DEFINE v == PutKids(w, p, l)
<1>3. /\ v.type = w.type /\ v.charts = w.charts /\ v.drawn = w.drawn
      /\ \A x \in Docs : v.kids[x] = IF x = p THEN l ELSE w.kids[x]
  BY PutKidsIs
<1>. HIDE DEF v
<1>4. Agrees(S, n, v)
  BY <1>2, <1>3 DEF Agrees
<1>. QED  BY <1>1, <1>4 DEF v

\* A list of charts is emptied that has nothing in it that a command did not make.
LEMMA ChartsDropped ==
  ASSUME NEW S, NEW m, NEW n \in Trees, NEW w \in States, NEW p \in Docs,
         Healthy(S, m), Agrees(S, m, w), w.charts[p] \in {<< >>, <<Made>>},
         n.type = m.type, n.kids = m.kids, n.charted = m.charted \ Range(m.charts[p]),
         n.drawn = m.drawn, n.live = m.live,
         \A q \in Docs : n.charts[q] = IF q = p THEN << >> ELSE m.charts[q]
  PROVE  Healthy(S, n) /\ Agrees(S, n, PutCharts(w, p, << >>))
<1>0. m \in Trees /\ m.charts[p] \in Seq(Charts)
  BY DEF Healthy, Trees
<1>1. Range(m.charts[p]) \cap S = {}
  <2>1. SUFFICES ASSUME NEW k \in 1..Len(m.charts[p])  PROVE m.charts[p][k] \notin S
    <3>1. DOMAIN m.charts[p] = 1..Len(m.charts[p])
      BY <1>0, LenProperties
    <3>. QED  BY <3>1 DEF Range
  <2>2. Len(m.charts[p]) = Len(w.charts[p]) /\ w.charts[p][k] = Mark(S, m, m.charts[p][k])
    BY DEF Agrees
  <2>3. w.charts[p] = <<Made>> /\ k = 1
    <3>1. w.charts[p] # << >>
      BY <2>2
    <3>. QED  BY <2>2, <3>1, MadeIs
  <2>4. w.charts[p][k] = Made
    BY <2>3
  <2>. QED  BY <2>2, <2>4 DEF Made, Mark
<1>2. Healthy(S, n)
  BY <1>1, EmptyList DEF Healthy
<1>3. \A c : Mark(S, n, c) = Mark(S, m, c)
  BY DEF Mark
<1>. DEFINE v == PutCharts(w, p, << >>)
<1>4. /\ v.type = w.type /\ v.kids = w.kids /\ v.drawn = w.drawn
      /\ \A x \in Docs : v.charts[x] = IF x = p THEN << >> ELSE w.charts[x]
  <2>. DEFINE l == << >>
  <2>1. l \in Seq(Marks) /\ v = PutCharts(w, p, l)
    BY MadeIs
  <2>. HIDE DEF l, v
  <2>2. /\ v.type = w.type /\ v.kids = w.kids /\ v.drawn = w.drawn
        /\ \A x \in Docs : v.charts[x] = IF x = p THEN l ELSE w.charts[x]
    BY <2>1, PutChartsIs
  <2>. QED  BY <2>2 DEF l
<1>. HIDE DEF v
<1>5. Agrees(S, n, v)
  BY <1>3, <1>4, SMTT(30) DEF Agrees
<1>. QED  BY <1>2, <1>5 DEF v

\* A chart is made.
LEMMA ChartPut ==
  ASSUME NEW S, NEW m, NEW w \in States, NEW p \in Docs, NEW known,
         Healthy(S, m), Agrees(S, m, w), m.charts[p] = << >>, Supplied(m, known)
  PROVE  LET n == AddNewChart(m, p, known)
         IN  /\ Healthy(S, n) /\ Agrees(S, n, PutCharts(w, p, <<Made>>))
             /\ n.live = m.live /\ n.type = m.type /\ n.kids = m.kids
<1>. DEFINE n == AddNewChart(m, p, known)
            c == NewChart(m, known)
<1>0. m \in Trees /\ S \subseteq m.charted /\ \A d \in Docs : Range(m.charts[d]) \subseteq m.charted
  BY DEF Healthy
<1>1. /\ c \in Charts \ (m.charted \cup known)
      /\ n \in Trees /\ n.kids = m.kids /\ n.type = m.type
      /\ n.live = m.live /\ n.charted = m.charted \cup {c} /\ n.drawn = m.drawn \ {c}
      /\ n.charts[p] = <<c>>
      /\ \A q \in Docs \ {p} : n.charts[q] = m.charts[q]
  <2>1. c \in Charts \ (m.charted \cup known)
    BY <1>0, AddNewChartIs
  <2>2. /\ n \in Trees /\ n.kids = m.kids /\ n.type = m.type
        /\ n.live = m.live /\ n.charted = m.charted \cup {c} /\ n.drawn = m.drawn \ {c}
    BY <1>0, AddNewChartIs
  <2>3. n.charts[p] = <<c>>
    BY <1>0, AddNewChartIs
  <2>4. \A q \in Docs \ {p} : n.charts[q] = m.charts[q]
    BY <1>0, AddNewChartIs
  <2>. QED  BY <2>1, <2>2, <2>3, <2>4
<1>. HIDE DEF n, c
<1>2. n.charts[p] = <<c>>
  BY <1>1
<1>3. Range(<<c>>) = {c} /\ Len(<<c>>) = 1 /\ <<c>>[1] = c
  BY DEF Range
<1>4. Healthy(S, n)
  <2>1. \A d \in Docs : Range(n.charts[d]) = IF d = p THEN {c} ELSE Range(m.charts[d])
    BY <1>1, <1>2, <1>3
  <2>2. \A d \in Docs : c \notin Range(m.charts[d])
    BY <1>0, <1>1
  <2>3. /\ Root \in m.live /\ \A d \in Docs : Range(m.kids[d]) \subseteq m.live
        /\ \A d, e \in Docs : d # e => Range(m.charts[d]) \cap Range(m.charts[e]) = {}
    BY DEF Healthy
  <2>4. Root \in n.live /\ S \subseteq n.charted /\ \A d \in Docs : Range(n.kids[d]) \subseteq n.live
    BY <1>0, <1>1, <2>3
  <2>5. \A d \in Docs : Range(n.charts[d]) \subseteq n.charted
    BY <1>0, <1>1, <2>1
  <2>6. \A d, e \in Docs : d # e => Range(n.charts[d]) \cap Range(n.charts[e]) = {}
    BY <2>1, <2>2, <2>3
  <2>. QED  BY <1>1, <2>4, <2>5, <2>6 DEF Healthy
<1>5. Mark(S, n, c) = Made /\ \A x \in m.charted : Mark(S, n, x) = Mark(S, m, x)
  <2>1. {c} \cap S = {} /\ (c \in n.drawn \ S) = FALSE
    BY <1>0, <1>1
  <2>2. \A x \in m.charted : (x \in n.drawn \ S) = (x \in m.drawn \ S)
    BY <1>1
  <2>. QED  BY <2>1, <2>2, Zenon DEF Mark, Made
<1>. DEFINE v == PutCharts(w, p, <<Made>>)
<1>6. /\ v.type = w.type /\ v.kids = w.kids /\ v.drawn = w.drawn
      /\ \A x \in Docs : v.charts[x] = IF x = p THEN <<Made>> ELSE w.charts[x]
  <2>. DEFINE l == <<Made>>
  <2>1. l \in Seq(Marks) /\ v = PutCharts(w, p, l)
    BY MadeIs
  <2>. HIDE DEF l, v
  <2>2. /\ v.type = w.type /\ v.kids = w.kids /\ v.drawn = w.drawn
        /\ \A x \in Docs : v.charts[x] = IF x = p THEN l ELSE w.charts[x]
    BY <2>1, PutChartsIs
  <2>. QED  BY <2>2 DEF l
<1>. HIDE DEF v
<1>7. ASSUME NEW d \in Docs
      PROVE  /\ n.type[d] = v.type[d] /\ n.kids[d] = v.kids[d]
             /\ Len(n.charts[d]) = Len(v.charts[d])
             /\ \A k \in 1..Len(v.charts[d]) : v.charts[d][k] = Mark(S, n, n.charts[d][k])
  <2>1. n.type[d] = v.type[d] /\ n.kids[d] = v.kids[d]
    BY <1>1, <1>6 DEF Agrees
  <2>2. CASE d = p
    <3>1. v.charts[d] = <<Made>> /\ n.charts[d] = <<c>>
      BY <1>2, <1>6, <2>2
    <3>2. <<Made>>[1] = Made
      OBVIOUS
    <3>. QED  BY <1>3, <1>5, <2>1, <3>1, <3>2, MadeIs
  <2>3. CASE d # p
    <3>1. v.charts[d] = w.charts[d] /\ n.charts[d] = m.charts[d]
      BY <1>1, <1>6, <2>3
    <3>2. /\ Len(m.charts[d]) = Len(w.charts[d])
          /\ \A k \in 1..Len(w.charts[d]) : w.charts[d][k] = Mark(S, m, m.charts[d][k])
      BY DEF Agrees
    <3>3. \A k \in 1..Len(m.charts[d]) : m.charts[d][k] \in m.charted
      <4>1. m.charts[d] \in Seq(Charts)
        BY <1>0 DEF Trees
      <4>2. DOMAIN m.charts[d] = 1..Len(m.charts[d])
        BY <4>1, LenProperties
      <4>. QED  BY <1>0, <4>2 DEF Range
    <3>. QED  BY <1>5, <2>1, <3>1, <3>2, <3>3
  <2>. QED  BY <2>2, <2>3
<1>8. n.drawn \cap S = v.drawn
  BY <1>0, <1>1, <1>6 DEF Agrees
<1>9. Agrees(S, n, v)
  BY <1>7, <1>8 DEF Agrees
<1>. QED  BY <1>1, <1>4, <1>9 DEF n, v

LEMMA AgreesThere ==
  ASSUME NEW S, NEW m, NEW w \in States, NEW d \in Docs, Healthy(S, m), Agrees(S, m, w)
  PROVE  /\ m.kids[d] = w.kids[d] /\ m.type[d] = w.type[d]
         /\ m.charts[d] = << >> <=> w.charts[d] = << >>
         /\ ChildAllowed(m, d) <=> ChildAllowed(w, d)
         /\ IsBare(m, d) <=> IsBare(w, d)
         /\ w.kids[d] \in Seq(Docs) /\ w.type[d] \in Types /\ w.charts[d] \in Seq(Marks)
         /\ Range(w.kids[d]) \subseteq m.live
<1>1. /\ m.kids[d] = w.kids[d] /\ m.type[d] = w.type[d] /\ Len(m.charts[d]) = Len(w.charts[d])
  BY DEF Agrees
<1>2. m.charts[d] \in Seq(Charts)
  BY DEF Healthy, Trees
<1>3. w.kids[d] \in Seq(Docs) /\ w.type[d] \in Types /\ w.charts[d] \in Seq(Marks)
  BY DEF States
<1>4. m.charts[d] = << >> <=> w.charts[d] = << >>
  <2>1. \A T : \A l \in Seq(T) : l = << >> <=> Len(l) = 0
    OBVIOUS
  <2>. QED  BY <1>1, <1>2, <1>3, <2>1
<1>5. Range(w.kids[d]) \subseteq m.live
  BY <1>1 DEF Healthy
<1>. QED  BY <1>1, <1>3, <1>4, <1>5 DEF ChildAllowed, IsBare

\* There is a place for d among the documents of p.
Room(w, p, d) == d \notin Range(w.kids[p]) /\ ChildAllowed(w, p)

LEMMA DocumentPut ==
  ASSUME NEW S, NEW m, NEW w \in States, NEW p \in Docs, NEW d \in Docs, NEW k \in Int,
         Healthy(S, m), Agrees(S, m, w), d \in m.live, Room(w, p, d),
         NEW n, n = AddDocument(m, p, d, k)
  PROVE  /\ Healthy(S, n) /\ Agrees(S, n, PutKids(w, p, InsertOrAppend(w.kids[p], k, d)))
         /\ PutKids(w, p, InsertOrAppend(w.kids[p], k, d)) \in States
         /\ n.live = m.live /\ n.charted = m.charted
<1>. DEFINE l == InsertOrAppend(w.kids[p], k, d)
<1>1. /\ m.kids[p] = w.kids[p] /\ ChildAllowed(m, p) /\ d \notin Range(m.kids[p])
      /\ m \in Trees /\ w.kids[p] \in Seq(Docs) /\ Range(w.kids[p]) \subseteq m.live
  <2>1. m \in Trees
    BY DEF Healthy
  <2>2. m.kids[p] = w.kids[p] /\ w.kids[p] \in Seq(Docs)
    BY AgreesThere
  <2>3. Range(w.kids[p]) \subseteq m.live
    BY AgreesThere
  <2>4. ChildAllowed(m, p) <=> ChildAllowed(w, p)
    BY AgreesThere
  <2>. QED  BY <2>1, <2>2, <2>3, <2>4 DEF Room
<1>2. /\ n \in Trees /\ n.type = m.type /\ n.live = m.live /\ n.charts = m.charts
      /\ n.charted = m.charted /\ n.drawn = m.drawn
  BY <1>1, AddDocumentIs
<1>3. n.kids[p] = InsertOrAppend(m.kids[p], k, d)
  BY <1>1, AddDocumentIs
<1>4. \A q \in Docs \ {p} : n.kids[q] = m.kids[q]
  BY <1>1, AddDocumentIs
<1>5. n.kids[p] = l
  BY <1>1, <1>3
<1>6. l \in Seq(Docs)
  <2>. DEFINE s == w.kids[p]
  <2>1. s \in Seq(Docs)
    BY <1>1
  <2>. HIDE DEF s
  <2>2. InsertOrAppend(s, k, d) \in Seq(Docs)
    BY <2>1, InsertOrAppendProperties
  <2>. QED  BY <2>2 DEF s
<1>7. Range(l) \subseteq m.live
  <2>. DEFINE s == w.kids[p]
  <2>1. s \in Seq(Docs) /\ Range(s) \subseteq m.live
    BY <1>1
  <2>. HIDE DEF s
  <2>2. Range(InsertOrAppend(s, k, d)) = Range(s) \cup {d}
    BY <2>1, InsertOrAppendRange
  <2>3. Range(InsertOrAppend(s, k, d)) \subseteq m.live
    BY <2>1, <2>2
  <2>. QED  BY <2>3 DEF s
<1>. HIDE DEF l
<1>8. Healthy(S, n) /\ Agrees(S, n, PutKids(w, p, l))
  <2>1. n \in Trees /\ n.type = m.type /\ n.charts = m.charts /\ n.charted = m.charted
    BY <1>2
  <2>2. n.drawn = m.drawn /\ n.live = m.live
    BY <1>2
  <2>. QED  BY <2>1, <2>2, <1>4, <1>5, <1>6, <1>7, KidsPut, SMTT(30)
<1>9. PutKids(w, p, l) \in States
  BY <1>6, PutKidsIs
<1>. QED  BY <1>2, <1>8, <1>9 DEF l

LEMMA RemovedIsDocs ==
  ASSUME NEW s \in Seq(Docs), NEW d
  PROVE  RemoveAll(s, d) \in Seq(Docs) /\ Range(RemoveAll(s, d)) \subseteq Range(s)
         /\ d \notin Range(RemoveAll(s, d)) /\ (NoRepeat(s) => NoRepeat(RemoveAll(s, d)))
<1>1. /\ RemoveAll(s, d) \in Seq(Docs)
      /\ Range(RemoveAll(s, d)) = Range(s) \cap (Range(s) \ {d})
      /\ NoRepeat(s) => NoRepeat(RemoveAll(s, d))
  BY KeepOnlyProperties DEF RemoveAll
<1>. QED  BY <1>1

LEMMA DocumentTaken ==
  ASSUME NEW S, NEW m, NEW w \in States, NEW p \in Docs, NEW d,
         Healthy(S, m), Agrees(S, m, w), NEW n, n = RemoveDocument(m, p, d)
  PROVE  /\ Healthy(S, n) /\ Agrees(S, n, PutKids(w, p, RemoveAll(w.kids[p], d)))
         /\ PutKids(w, p, RemoveAll(w.kids[p], d)) \in States
         /\ n.live = m.live /\ n.charted = m.charted
<1>. DEFINE l == RemoveAll(w.kids[p], d)
<1>1. /\ m.kids[p] = w.kids[p]
      /\ m \in Trees /\ w.kids[p] \in Seq(Docs) /\ Range(w.kids[p]) \subseteq m.live
  <2>1. m \in Trees
    BY DEF Healthy
  <2>2. m.kids[p] = w.kids[p] /\ w.kids[p] \in Seq(Docs)
    BY AgreesThere
  <2>3. Range(w.kids[p]) \subseteq m.live
    BY AgreesThere
  <2>. QED  BY <2>1, <2>2, <2>3
<1>2. /\ Fewer(m, n) /\ n.type = m.type /\ n.live = m.live /\ n.charts = m.charts
      /\ n.charted = m.charted /\ n.drawn = m.drawn
  BY <1>1, RemoveDocumentIs
<1>3. n.kids[p] = RemoveAll(m.kids[p], d)
  BY <1>1, RemoveDocumentIs
<1>4. \A q \in Docs \ {p} : n.kids[q] = m.kids[q]
  BY <1>1, RemoveDocumentIs
<1>5. n.kids[p] = l /\ n \in Trees
  BY <1>1, <1>2, <1>3 DEF Fewer
<1>6. l \in Seq(Docs) /\ Range(l) \subseteq m.live
  BY <1>1, RemovedIsDocs
<1>. HIDE DEF l
<1>7. Healthy(S, n) /\ Agrees(S, n, PutKids(w, p, l))
  BY <1>2, <1>4, <1>5, <1>6, KidsPut, SMTT(30)
<1>8. PutKids(w, p, l) \in States
  BY <1>6, PutKidsIs
<1>. QED  BY <1>2, <1>7, <1>8 DEF l

\* Room is made for documents: there is nothing in the way, or what a command made.
LEMMA RoomPut ==
  ASSUME NEW S, NEW m, NEW w \in States, NEW p \in Docs,
         Healthy(S, m), Agrees(S, m, w), w.charts[p] \in {<< >>, <<Made>>},
         w.charts[p] = << >> \/ w.kids[p] = << >>, NEW n, n = ClearIfCharts(m, p)
  PROVE  /\ Healthy(S, n) /\ Agrees(S, n, PutCharts(w, p, << >>))
         /\ PutCharts(w, p, << >>) \in States
         /\ n.live = m.live /\ (w.charts[p] = << >> => n = m)
<1>. DEFINE v == PutCharts(w, p, << >>)
<1>0. m \in Trees /\ (m.charts[p] = << >> <=> w.charts[p] = << >>) /\ m.kids[p] = w.kids[p]
  <2>1. m \in Trees
    BY DEF Healthy
  <2>2. m.charts[p] = << >> <=> w.charts[p] = << >>
    BY AgreesThere
  <2>3. m.kids[p] = w.kids[p]
    BY AgreesThere
  <2>. QED  BY <2>1, <2>2, <2>3
<1>1. v \in States
  BY PutChartsIs, MadeIs
<1>2. CASE w.charts[p] = << >>
  <2>1. n = m
    BY <1>0, <1>2 DEF ClearIfCharts
  <2>2. /\ v.drawn = w.drawn /\ v.type = w.type /\ v.kids = w.kids
        /\ \A x \in Docs : v.charts[x] = w.charts[x]
    BY <1>2 DEF PutCharts, States
  <2>3. v = w
    BY <1>1, <2>2, SameStates
  <2>. QED  BY <1>1, <2>1, <2>3
<1>3. CASE w.charts[p] # << >>
  <2>1. n = Clear(m, p) /\ m.kids[p] = << >>
    BY <1>0, <1>3 DEF ClearIfCharts
  <2>2. /\ n \in Trees /\ n.type = m.type /\ n.drawn = m.drawn
        /\ n.live = m.live /\ n.charted = m.charted \ Range(m.charts[p])
    BY <1>0, <2>1, ClearIs
  <2>3. \A q \in Docs : n.kids[q] = IF q = p THEN << >> ELSE m.kids[q]
    BY <1>0, <2>1, ClearIs
  <2>4. \A q \in Docs : n.charts[q] = IF q = p THEN << >> ELSE m.charts[q]
    BY <1>0, <2>1, ClearIs
  <2>5. n.kids = m.kids
    <3>1. n.kids \in [Docs -> Seq(Docs)] /\ m.kids \in [Docs -> Seq(Docs)]
      BY <1>0, <2>2 DEF Trees
    <3>2. \A q \in Docs : n.kids[q] = m.kids[q]
      BY <2>1, <2>3
    <3>. QED  BY <3>1, <3>2
  <2>6. Healthy(S, n) /\ Agrees(S, n, v)
    BY <2>2, <2>4, <2>5, ChartsDropped
  <2>. QED  BY <1>1, <1>3, <2>2, <2>6
<1>. QED  BY <1>2, <1>3

\* A document without documents loses its charts: there are none, or what a command made.
LEMMA Emptied ==
  ASSUME NEW S, NEW m, NEW w \in States, NEW p \in Docs,
         Healthy(S, m), Agrees(S, m, w), w.charts[p] \in {<< >>, <<Made>>},
         w.kids[p] = << >>, NEW n, n = Clear(m, p)
  PROVE  /\ Healthy(S, n) /\ Agrees(S, n, PutCharts(w, p, << >>)) /\ n.live = m.live
<1>1. m \in Trees /\ m.kids[p] = << >>
  <2>1. m.kids[p] = w.kids[p]
    BY AgreesThere
  <2>. QED  BY <2>1 DEF Healthy
<1>2. /\ n \in Trees /\ n.type = m.type /\ n.drawn = m.drawn
      /\ n.live = m.live /\ n.charted = m.charted \ Range(m.charts[p])
  BY <1>1, ClearIs
<1>3. \A q \in Docs : n.kids[q] = IF q = p THEN << >> ELSE m.kids[q]
  BY <1>1, ClearIs
<1>4. \A q \in Docs : n.charts[q] = IF q = p THEN << >> ELSE m.charts[q]
  BY <1>1, ClearIs
<1>5. n.kids = m.kids
  <2>1. n.kids \in [Docs -> Seq(Docs)] /\ m.kids \in [Docs -> Seq(Docs)]
    BY <1>1, <1>2 DEF Trees
  <2>2. \A q \in Docs : n.kids[q] = m.kids[q]
    BY <1>1, <1>3
  <2>. QED  BY <2>1, <2>2
<1>6. Healthy(S, n) /\ Agrees(S, n, PutCharts(w, p, << >>))
  BY <1>2, <1>4, <1>5, ChartsDropped
<1>. QED  BY <1>2, <1>6

LEMMA NoneAdded ==
  ASSUME NEW m \in Trees, NEW p \in Docs
  PROVE  AddCharts(m, p, << >>) = m
<1>. DEFINE none == << >>
            n == AddCharts(m, p, none)
<1>1. none \in Seq(Charts) /\ Range(none) = {} /\ NoRepeat(none)
  BY EmptyList
<1>2. KeepOnly(none, Range(none) \ Range(m.charts[p])) = none
  <2>. HIDE DEF none
  <2>1. Range(none) \subseteq Range(none) \ Range(m.charts[p])
    BY <1>1
  <2>. QED  BY <1>1, <2>1, KeepAll
<1>3. m.charts[p] \in Seq(Charts)
  BY DEF Trees
<1>4. m.charts[p] \o none = m.charts[p]
  BY <1>3
<1>5. AddCharts(m, p, none) = [m EXCEPT !.charts[p] = m.charts[p]]
  BY <1>2, <1>4 DEF AddCharts
<1>. QED  BY <1>5 DEF Trees

-------------------------------------------------------------------------------
(* What a command of an exact session makes of a state.                         *)

AtEnd(l, d) == InsertOrAppend(l, -1, d)
OneMade == <<Made>>

LEMMA AtEndIs ==
  ASSUME NEW l \in Seq(Docs), NEW d \in Docs
  PROVE  /\ AtEnd(l, d) \in Seq(Docs)
         /\ \A x : x \in Range(AtEnd(l, d)) <=> x \in Range(l) \/ x = d
         /\ NoRepeat(l) /\ d \notin Range(l) => NoRepeat(AtEnd(l, d)) /\ RemoveAll(AtEnd(l, d), d) = l
<1>. DEFINE k == -1
            r == InsertOrAppend(l, k, d)
<1>1. k \in Int /\ r = AtEnd(l, d)
  BY DEF AtEnd
<1>. HIDE DEF k
<1>2. r \in Seq(Docs) /\ (NoRepeat(l) /\ d \notin Range(l) => NoRepeat(r))
  BY <1>1, InsertOrAppendProperties
<1>3. Range(r) = Range(l) \cup {d}
  BY <1>1, InsertOrAppendRange
<1>4. NoRepeat(l) /\ d \notin Range(l) => RemoveAll(r, d) = l
  BY <1>1, InsertedRemoved
<1>. HIDE DEF r
<1>. QED  BY <1>1, <1>2, <1>3, <1>4

LEMMA OneMadeIs == /\ OneMade \in Seq(Marks) /\ Len(OneMade) = 1 /\ OneMade # << >>
                   /\ OneMade[1] = Made /\ Made[1] = {}
BY MadeIs DEF OneMade, Made

\* The document d of p can be put back where it was.
GivesBack(w, p, d) ==
  /\ NoRepeat(w.kids[p]) /\ d \in Range(w.kids[p]) /\ w.charts[p] = << >>
  /\ w.type[p] # "LEAF" /\ (w.type[p] = "IS" => Len(w.kids[p]) = 1)

BringsCreate(P, c, Q) ==
  /\ c.doc # c.parent /\ c.charts = << >> /\ Room(P, c.parent, c.doc)
  /\ P.kids[c.doc] = << >> /\ P.charts[c.doc] = << >> /\ P.charts[c.parent] = << >>
  /\ Q.drawn = P.drawn
  /\ \A q \in Docs :
       /\ Q.type[q] = P.type[q]
       /\ Q.kids[q] = IF q = c.parent THEN AtEnd(P.kids[q], c.doc) ELSE P.kids[q]
       /\ Q.charts[q] = IF q = c.doc /\ P.type[q] = "LEAF" THEN OneMade ELSE P.charts[q]

BringsMove(P, c, Q) ==
  /\ c.from # c.to /\ c.charts = << >> /\ P.charts[c.to] = << >> /\ Room(P, c.to, c.doc)
  /\ GivesBack(P, c.from, c.doc) /\ c.index = IndexOf(P.kids[c.from], c.doc)
  /\ Q.drawn = P.drawn
  /\ \A q \in Docs :
       /\ Q.type[q] = P.type[q] /\ Q.charts[q] = P.charts[q]
       /\ Q.kids[q] = IF q = c.to THEN AtEnd(P.kids[q], c.doc)
                      ELSE IF q = c.from THEN RemoveAll(P.kids[q], c.doc) ELSE P.kids[q]

BringsDelete(P, c, Q) ==
  /\ GivesBack(P, c.parent, c.doc) /\ c.index = IndexOf(P.kids[c.parent], c.doc)
  /\ Q.drawn = P.drawn
  /\ \A q \in Docs :
       /\ Q.type[q] = P.type[q]
       /\ Q.kids[q] = IF q = c.parent THEN RemoveAll(P.kids[q], c.doc) ELSE P.kids[q]
       /\ Q.charts[q] = IF q = c.parent /\ RemoveAll(P.kids[q], c.doc) = << >> THEN OneMade ELSE P.charts[q]

BringsType(P, c, Q) ==
  /\ c.old = P.type[c.doc] /\ (c.made <=> MakesChart(P, c))
  /\ Q.drawn = P.drawn
  /\ \A q \in Docs :
       /\ Q.kids[q] = P.kids[q]
       /\ Q.type[q] = IF q = c.doc THEN c.new ELSE P.type[q]
       /\ Q.charts[q] = IF q = c.doc /\ MakesChart(P, c) THEN OneMade ELSE P.charts[q]

BringsPaste(P, c, Q) ==
  /\ c.doc # c.parent /\ c.doc \notin Range(P.kids[c.parent]) /\ P.kids[c.parent] # << >>
  /\ Q.drawn = P.drawn
  /\ \A q \in Docs :
       /\ Q.type[q] = P.type[q] /\ Q.charts[q] = P.charts[q]
       /\ Q.kids[q] = IF q = c.parent /\ ChildAllowed(P, q) THEN AtEnd(P.kids[q], c.doc) ELSE P.kids[q]

BringsDraw(S, P, c, Q) ==
  /\ c.chart \in S \ P.drawn /\ Q.drawn = P.drawn \cup {c.chart}
  /\ \A q \in Docs : Q.type[q] = P.type[q] /\ Q.kids[q] = P.kids[q] /\ Q.charts[q] = P.charts[q]

\* The command c leads from the state P to Q.
Brings(S, P, c, Q) ==
  \/ c.kind = "create" /\ BringsCreate(P, c, Q)
  \/ c.kind = "move" /\ BringsMove(P, c, Q)
  \/ c.kind = "delete" /\ BringsDelete(P, c, Q)
  \/ c.kind = "type" /\ BringsType(P, c, Q)
  \/ c.kind = "paste" /\ BringsPaste(P, c, Q)
  \/ c.kind = "draw" /\ BringsDraw(S, P, c, Q)

\* No list repeats, no document has both documents and charts, and the file's charts are
\* in the file's documents F.
Tidy(F, w) ==
  \A d \in Docs : /\ NoRepeat(w.kids[d]) /\ (w.kids[d] = << >> \/ w.charts[d] = << >>)
                  /\ d \notin F => \A k \in 1..Len(w.charts[d]) : w.charts[d][k][1] = {}

-------------------------------------------------------------------------------
(* Each redo leads to the state after the command, each undo to the one before. *)

LEMMA AtEndPut ==
  ASSUME NEW S, NEW m, NEW w \in States, NEW p \in Docs, NEW d \in Docs,
         Healthy(S, m), Agrees(S, m, w), d \in m.live, Room(w, p, d),
         NEW n, n = AddDocument(m, p, d, -1)
  PROVE  /\ Healthy(S, n) /\ Agrees(S, n, PutKids(w, p, AtEnd(w.kids[p], d)))
         /\ PutKids(w, p, AtEnd(w.kids[p], d)) \in States
         /\ n.live = m.live /\ n.charted = m.charted
<1>. DEFINE k == -1
<1>1. k \in Int /\ n = AddDocument(m, p, d, k) /\ AtEnd(w.kids[p], d) = InsertOrAppend(w.kids[p], k, d)
  BY DEF AtEnd
<1>. HIDE DEF k
<1>2. /\ Healthy(S, n) /\ Agrees(S, n, PutKids(w, p, InsertOrAppend(w.kids[p], k, d)))
      /\ PutKids(w, p, InsertOrAppend(w.kids[p], k, d)) \in States
  BY <1>1, DocumentPut
<1>3. n.live = m.live /\ n.charted = m.charted
  BY <1>1, DocumentPut
<1>. QED  BY <1>1, <1>2, <1>3

LEMMA MadePut ==
  ASSUME NEW S, NEW m, NEW w \in States, NEW p \in Docs, NEW known,
         Healthy(S, m), Agrees(S, m, w), w.charts[p] = << >>, Supplied(m, known),
         NEW n, n = AddNewChart(m, p, known)
  PROVE  /\ Healthy(S, n) /\ Agrees(S, n, PutCharts(w, p, OneMade))
         /\ PutCharts(w, p, OneMade) \in States /\ n.live = m.live
<1>1. m.charts[p] = << >>
  BY AgreesThere
<1>2. Healthy(S, n) /\ Agrees(S, n, PutCharts(w, p, <<Made>>)) /\ n.live = m.live
  BY <1>1, ChartPut
<1>3. PutCharts(w, p, OneMade) \in States
  BY OneMadeIs, PutChartsIs
<1>. QED  BY <1>2, <1>3 DEF OneMade

LEMMA NoRoomToMake ==
  ASSUME NEW S, NEW m, NEW w \in States, NEW p \in Docs, Healthy(S, m), Agrees(S, m, w),
         w.charts[p] = << >>
  PROVE  ClearIfCharts(m, p) = m
<1>1. m.charts[p] = << >>
  BY AgreesThere
<1>. QED  BY <1>1 DEF ClearIfCharts

LEMMA RedoCreateExact ==
  ASSUME NEW S, NEW m, NEW P \in States, NEW Q \in States, NEW c \in Commands, c.kind = "create", NEW known,
         Healthy(S, m), Agrees(S, m, P), BringsCreate(P, c, Q), PointsTo(c) \subseteq m.live, Supplied(m, known),
         NEW r, r = RedoCreate(m, c, known)
  PROVE  Healthy(S, r) /\ Agrees(S, r, Q) /\ r.live = m.live
<1>. DEFINE d == c.doc
            p == c.parent
<1>1. d \in Docs /\ p \in Docs /\ d \in m.live
  BY CommandKinds
<1>2. /\ d # p /\ Room(P, p, d) /\ P.charts[d] = << >> /\ P.charts[p] = << >> /\ Q.drawn = P.drawn
      /\ \A q \in Docs :
           /\ Q.type[q] = P.type[q]
           /\ Q.kids[q] = IF q = p THEN AtEnd(P.kids[q], d) ELSE P.kids[q]
           /\ Q.charts[q] = IF q = d /\ P.type[q] = "LEAF" THEN OneMade ELSE P.charts[q]
  BY DEF BringsCreate
<1>3. m.type[d] = P.type[d] /\ m.charts[d] = << >>
  <2>. HIDE DEF d
  <2>1. m.charts[d] = << >> <=> P.charts[d] = << >>
    BY <1>1, AgreesThere
  <2>2. m.type[d] = P.type[d]
    BY <1>1, AgreesThere
  <2>. QED  BY <1>2, <2>1, <2>2
<1>4. ClearIfCharts(m, p) = m
  <2>. HIDE DEF p
  <2>. QED  BY <1>1, <1>2, NoRoomToMake
<1>. DEFINE n  == IF P.type[d] = "LEAF" THEN AddNewChart(m, d, known) ELSE m
            w  == IF P.type[d] = "LEAF" THEN PutCharts(P, d, OneMade) ELSE P
<1>5. r = AddDocument(n, p, d, -1)
  BY <1>3, <1>4 DEF RedoCreate
<1>. HIDE DEF d, p
<1>6. /\ Healthy(S, n) /\ Agrees(S, n, w) /\ w \in States /\ n.live = m.live
      /\ w.type = P.type /\ w.kids = P.kids /\ w.drawn = P.drawn
      /\ \A q \in Docs : w.charts[q] = Q.charts[q]
  <2>1. CASE P.type[d] = "LEAF"
    <3>1. n = AddNewChart(m, d, known) /\ w = PutCharts(P, d, OneMade)
      BY <2>1
    <3>. HIDE DEF n, w
    <3>2. Healthy(S, n) /\ Agrees(S, n, w) /\ w \in States /\ n.live = m.live
      BY <1>1, <1>2, <3>1, MadePut
    <3>3. /\ w.type = P.type /\ w.kids = P.kids /\ w.drawn = P.drawn
          /\ \A q \in Docs : w.charts[q] = IF q = d THEN OneMade ELSE P.charts[q]
      BY <1>1, <3>1, OneMadeIs, PutChartsIs
    <3>. QED  BY <1>2, <2>1, <3>2, <3>3
  <2>2. CASE P.type[d] # "LEAF"
    BY <1>2, <2>2
  <2>. QED  BY <2>1, <2>2
<1>. HIDE DEF n, w
<1>7. Room(w, p, d)
  BY <1>2, <1>6 DEF Room, ChildAllowed
<1>. DEFINE v == PutKids(w, p, AtEnd(w.kids[p], d))
<1>8. d \in n.live
  BY <1>1, <1>6
<1>9. Healthy(S, r) /\ Agrees(S, r, v) /\ v \in States /\ r.live = n.live
  BY <1>1, <1>5, <1>6, <1>7, <1>8, AtEndPut
<1>10. w.kids[p] \in Seq(Docs)
  BY <1>1, <1>6 DEF States
<1>11. AtEnd(w.kids[p], d) \in Seq(Docs)
  BY <1>1, <1>10, AtEndIs
<1>12. /\ v.type = w.type /\ v.charts = w.charts /\ v.drawn = w.drawn
       /\ \A x \in Docs : v.kids[x] = IF x = p THEN AtEnd(w.kids[p], d) ELSE w.kids[x]
  BY <1>1, <1>6, <1>11, PutKidsIs
<1>. HIDE DEF v
<1>13. v = Q
  <2>1. \A q \in Docs : v.type[q] = Q.type[q] /\ v.kids[q] = Q.kids[q] /\ v.charts[q] = Q.charts[q]
    BY <1>2, <1>6, <1>12
  <2>. QED  BY <1>2, <1>6, <1>9, <1>12, <2>1, SameStates
<1>. QED  BY <1>6, <1>9, <1>13

LEMMA UndoCreateExact ==
  ASSUME NEW S, NEW m, NEW P \in States, NEW Q \in States, NEW c \in Commands, c.kind = "create",
         Healthy(S, m), Agrees(S, m, Q), BringsCreate(P, c, Q), NoRepeat(P.kids[c.parent]),
         NEW r, r = UndoCreate(m, c)
  PROVE  Healthy(S, r) /\ Agrees(S, r, P) /\ r.live = m.live
<1>. DEFINE d == c.doc
            p == c.parent
<1>1. d \in Docs /\ p \in Docs
  BY CommandKinds
<1>2. /\ d # p /\ Room(P, p, d) /\ P.kids[d] = << >> /\ P.charts[d] = << >> /\ Q.drawn = P.drawn
      /\ \A q \in Docs :
           /\ Q.type[q] = P.type[q]
           /\ Q.kids[q] = IF q = p THEN AtEnd(P.kids[q], d) ELSE P.kids[q]
           /\ Q.charts[q] = IF q = d /\ P.type[q] = "LEAF" THEN OneMade ELSE P.charts[q]
  BY DEF BringsCreate
<1>3. NoRepeat(P.kids[p]) /\ c.charts = << >>
  BY DEF BringsCreate
<1>. DEFINE a == RemoveDocument(m, p, d)
            n == Clear(a, d)
            v == PutKids(Q, p, RemoveAll(Q.kids[p], d))
            u == PutCharts(v, d, << >>)
<1>4. RemoveAndClear(m, p, d) = IF d \in Range(m.kids[p]) THEN n ELSE m
  BY DEF RemoveAndClear
<1>5. r = (IF IsBare(RemoveAndClear(m, p, d), p) THEN AddCharts(RemoveAndClear(m, p, d), p, << >>)
           ELSE RemoveAndClear(m, p, d))
  BY <1>3 DEF UndoCreate
<1>. HIDE DEF d, p
<1>6. P.kids[p] \in Seq(Docs) /\ d \notin Range(P.kids[p])
  BY <1>1, <1>2 DEF States, Room
<1>7. Q.kids[p] = AtEnd(P.kids[p], d) /\ m.kids[p] = Q.kids[p]
  <2>1. m.kids[p] = Q.kids[p]
    BY <1>1, AgreesThere
  <2>. QED  BY <1>1, <1>2, <2>1
<1>8. RemoveAll(Q.kids[p], d) = P.kids[p] /\ d \in Range(m.kids[p])
  <2>. DEFINE l == P.kids[p]
  <2>1. l \in Seq(Docs) /\ NoRepeat(l) /\ d \notin Range(l) /\ Q.kids[p] = AtEnd(l, d)
    BY <1>3, <1>6, <1>7
  <2>. HIDE DEF l
  <2>2. RemoveAll(AtEnd(l, d), d) = l /\ d \in Range(AtEnd(l, d))
    BY <1>1, <2>1, AtEndIs
  <2>. QED  BY <1>7, <2>1, <2>2 DEF l
<1>9. Healthy(S, a) /\ Agrees(S, a, v) /\ v \in States /\ a.live = m.live
  BY <1>1, DocumentTaken
<1>10. /\ v.type = Q.type /\ v.charts = Q.charts /\ v.drawn = Q.drawn
       /\ \A x \in Docs : v.kids[x] = IF x = p THEN P.kids[p] ELSE Q.kids[x]
  BY <1>1, <1>6, <1>8, PutKidsIs
<1>. HIDE DEF a, v
<1>11. v.kids[d] = << >> /\ v.charts[d] \in {<< >>, <<Made>>}
  BY <1>1, <1>2, <1>10 DEF OneMade
<1>12. Healthy(S, n) /\ Agrees(S, n, u) /\ n.live = m.live
  BY <1>1, <1>9, <1>11, Emptied
<1>13. u \in States /\ u.type = v.type /\ u.kids = v.kids /\ u.drawn = v.drawn
       /\ \A x \in Docs : u.charts[x] = IF x = d THEN << >> ELSE v.charts[x]
  <2>. DEFINE l == << >>
  <2>1. l \in Seq(Marks) /\ u = PutCharts(v, d, l)
    BY MadeIs
  <2>. HIDE DEF l, u
  <2>2. u \in States /\ u.type = v.type /\ u.kids = v.kids /\ u.drawn = v.drawn
        /\ \A x \in Docs : u.charts[x] = IF x = d THEN l ELSE v.charts[x]
    BY <1>1, <1>9, <2>1, PutChartsIs
  <2>. QED  BY <2>2 DEF l
<1>. HIDE DEF u, n
<1>14. u = P
  <2>1. \A q \in Docs : u.type[q] = P.type[q] /\ u.kids[q] = P.kids[q] /\ u.charts[q] = P.charts[q]
    BY <1>1, <1>2, <1>10, <1>13
  <2>. QED  BY <1>2, <1>10, <1>13, <2>1, SameStates
<1>15. r = n
  <2>1. n \in Trees
    BY <1>12 DEF Healthy
  <2>2. AddCharts(n, p, << >>) = n
    BY <1>1, <2>1, NoneAdded
  <2>. QED  BY <1>4, <1>5, <1>8, <2>2
<1>. QED  BY <1>12, <1>14, <1>15

LEMMA GivenBack ==
  ASSUME NEW P \in States, NEW p \in Docs, NEW d, GivesBack(P, p, d), NEW l, l = RemoveAll(P.kids[p], d)
  PROVE  /\ P.kids[p] \in Seq(Docs) /\ l \in Seq(Docs) /\ d \notin Range(l) /\ NoRepeat(l) /\ d \in Docs
         /\ P.type[p] = "IS" => l = << >>
         /\ IndexOf(P.kids[p], d) \in Int /\ InsertOrAppend(l, IndexOf(P.kids[p], d), d) = P.kids[p]
         /\ \A x \in Range(P.kids[p]) : x \in Range(l) \/ x = d
<1>. DEFINE s == P.kids[p]
<1>1. s \in Seq(Docs) /\ NoRepeat(s) /\ d \in Range(s) /\ (P.type[p] = "IS" => Len(s) = 1)
  BY DEF States, GivesBack
<1>2. l = RemoveAll(s, d)
  OBVIOUS
<1>. HIDE DEF s
<1>3. l \in Seq(Docs) /\ d \notin Range(l) /\ NoRepeat(l)
  BY <1>1, <1>2, RemovedIsDocs
<1>4. Len(l) = Len(s) - 1
  BY <1>1, <1>2, RemoveAllLength
<1>5. P.type[p] = "IS" => l = << >>
  <2>1. Len(l) = 0 => l = << >>
    BY <1>3
  <2>. QED  BY <1>1, <1>4, <2>1
<1>6. InsertOrAppend(l, IndexOf(s, d), d) = s
  BY <1>1, <1>2, PutBack
<1>7. IndexOf(s, d) \in Int
  <2>1. IndexOf(s, d) \in 0..(Len(s) - 1) /\ Len(s) \in Nat
    BY <1>1, IndexOfProperties, LenProperties
  <2>. QED  BY <2>1
<1>8. d \in Docs
  BY <1>1, RangeOfSeq
<1>9. \A x \in Range(s) : x \in Range(l) \/ x = d
  <2>1. Range(l) = Range(s) \cap (Range(s) \ {d})
    BY <1>1, <1>2, KeepOnlyProperties DEF RemoveAll
  <2>. QED  BY <2>1
<1>. QED  BY <1>1, <1>3, <1>5, <1>6, <1>7, <1>8, <1>9 DEF s

LEMMA RedoMoveExact ==
  ASSUME NEW S, NEW m, NEW P \in States, NEW Q \in States, NEW c \in Commands, c.kind = "move", NEW known,
         Healthy(S, m), Agrees(S, m, P), BringsMove(P, c, Q), PointsTo(c) \subseteq m.live,
         NEW r, r = RedoMove(m, c, known)
  PROVE  /\ Healthy(S, r) /\ Agrees(S, r, Q) /\ r.live = m.live
         /\ Moves(ClearIfCharts(m, c.to), c)
<1>. DEFINE d == c.doc
            f == c.from
            t == c.to
<1>1. d \in Docs /\ f \in Docs /\ t \in Docs /\ d \in m.live
  BY CommandKinds
<1>2. /\ f # t /\ Room(P, t, d) /\ P.charts[t] = << >> /\ Q.drawn = P.drawn
      /\ P.type[f] # "LEAF" /\ GivesBack(P, f, d)
      /\ \A q \in Docs :
           /\ Q.type[q] = P.type[q] /\ Q.charts[q] = P.charts[q]
           /\ Q.kids[q] = IF q = t THEN AtEnd(P.kids[q], d)
                          ELSE IF q = f THEN RemoveAll(P.kids[q], d) ELSE P.kids[q]
  BY DEF BringsMove, GivesBack
<1>3. ClearIfCharts(m, t) = m
  <2>. HIDE DEF t
  <2>. QED  BY <1>1, <1>2, NoRoomToMake
<1>4. Moves(m, c)
  <2>1. Moves(m, c) <=> d \notin Range(m.kids[t]) /\ ChildAllowed(m, t)
    BY DEF Moves
  <2>. HIDE DEF d, t
  <2>2. m.kids[t] = P.kids[t]
    BY <1>1, AgreesThere
  <2>3. ChildAllowed(m, t) <=> ChildAllowed(P, t)
    BY <1>1, AgreesThere
  <2>. QED  BY <1>2, <2>1, <2>2, <2>3 DEF Room
<1>. DEFINE a == AddDocument(m, t, d, -1)
            n == RemoveDocument(a, f, d)
            v == PutKids(P, t, AtEnd(P.kids[t], d))
            l == RemoveAll(v.kids[f], d)
            u == PutKids(v, f, l)
<1>5. r = IF IsBare(n, f) /\ n.type[f] = "LEAF" THEN AddNewChart(n, f, known) ELSE n
  BY <1>3, <1>4 DEF RedoMove
<1>. HIDE DEF d, t, f
<1>6. Healthy(S, a) /\ Agrees(S, a, v) /\ v \in States /\ a.live = m.live
  BY <1>1, <1>2, AtEndPut
<1>7. P.kids[t] \in Seq(Docs) /\ P.kids[f] \in Seq(Docs)
  BY <1>1 DEF States
<1>8. AtEnd(P.kids[t], d) \in Seq(Docs)
  BY <1>1, <1>7, AtEndIs
<1>9. /\ v.type = P.type /\ v.charts = P.charts /\ v.drawn = P.drawn
      /\ \A x \in Docs : v.kids[x] = IF x = t THEN AtEnd(P.kids[t], d) ELSE P.kids[x]
  BY <1>1, <1>8, PutKidsIs
<1>. HIDE DEF a, v
<1>10. Healthy(S, n) /\ Agrees(S, n, u) /\ u \in States /\ n.live = m.live
  BY <1>1, <1>6, DocumentTaken
<1>11. l \in Seq(Docs) /\ l = RemoveAll(P.kids[f], d)
  BY <1>1, <1>2, <1>7, <1>9, RemovedIsDocs
<1>12. /\ u.type = v.type /\ u.charts = v.charts /\ u.drawn = v.drawn
       /\ \A x \in Docs : u.kids[x] = IF x = f THEN l ELSE v.kids[x]
  <2>. HIDE DEF l
  <2>. QED  BY <1>1, <1>6, <1>11, PutKidsIs, SMTT(30)
<1>. HIDE DEF u, l, n
<1>13. u = Q
  <2>1. \A q \in Docs : u.type[q] = Q.type[q] /\ u.kids[q] = Q.kids[q] /\ u.charts[q] = Q.charts[q]
    BY <1>1, <1>2, <1>9, <1>11, <1>12
  <2>. QED  BY <1>2, <1>9, <1>10, <1>12, <2>1, SameStates
<1>14. r = n
  <2>1. n.type[f] = u.type[f]
    BY <1>1, <1>10, AgreesThere
  <2>. QED  BY <1>2, <1>5, <1>9, <1>12, <2>1
<1>15. Moves(ClearIfCharts(m, c.to), c)
  BY <1>3, <1>4 DEF t
<1>. QED  BY <1>10, <1>13, <1>14, <1>15

LEMMA UndoMoveExact ==
  ASSUME NEW S, NEW m, NEW P \in States, NEW Q \in States, NEW c \in Commands, c.kind = "move",
         Healthy(S, m), Agrees(S, m, Q), BringsMove(P, c, Q), PointsTo(c) \subseteq m.live,
         NoRepeat(P.kids[c.to]), NEW r, r = UndoMove(m, c)
  PROVE  Healthy(S, r) /\ Agrees(S, r, P) /\ r.live = m.live
<1>. DEFINE d == c.doc
            f == c.from
            t == c.to
<1>1. d \in Docs /\ f \in Docs /\ t \in Docs /\ d \in m.live
  BY CommandKinds
<1>2. /\ f # t /\ Room(P, t, d) /\ Q.drawn = P.drawn
      /\ P.type[f] # "LEAF" /\ P.charts[f] = << >> /\ GivesBack(P, f, d)
      /\ \A q \in Docs :
           /\ Q.type[q] = P.type[q] /\ Q.charts[q] = P.charts[q]
           /\ Q.kids[q] = IF q = t THEN AtEnd(P.kids[q], d)
                          ELSE IF q = f THEN RemoveAll(P.kids[q], d) ELSE P.kids[q]
  BY DEF BringsMove, GivesBack
<1>3. NoRepeat(P.kids[t]) /\ c.charts = << >> /\ c.index = IndexOf(P.kids[f], d)
  BY DEF BringsMove
<1>. DEFINE a == RemoveDocument(m, t, d)
            k == c.index
            v == PutKids(Q, t, RemoveAll(Q.kids[t], d))
            l == RemoveAll(P.kids[f], d)
            u == PutKids(v, f, InsertOrAppend(v.kids[f], k, d))
<1>4. r = AddDocument(ClearIfCharts(AddCharts(a, t, << >>), f), f, d, k)
  BY <1>3 DEF UndoMove
<1>. HIDE DEF d, t, f
<1>5. P.kids[t] \in Seq(Docs) /\ d \notin Range(P.kids[t])
  BY <1>1, <1>2 DEF States, Room
<1>6. RemoveAll(Q.kids[t], d) = P.kids[t]
  <2>. DEFINE s == P.kids[t]
  <2>1. s \in Seq(Docs) /\ NoRepeat(s) /\ d \notin Range(s) /\ Q.kids[t] = AtEnd(s, d)
    BY <1>1, <1>2, <1>3, <1>5
  <2>. HIDE DEF s
  <2>2. RemoveAll(AtEnd(s, d), d) = s
    BY <1>1, <2>1, AtEndIs
  <2>. QED  BY <2>1, <2>2 DEF s
<1>7. Healthy(S, a) /\ Agrees(S, a, v) /\ v \in States /\ a.live = m.live
  BY <1>1, DocumentTaken
<1>8. /\ v.type = Q.type /\ v.charts = Q.charts /\ v.drawn = Q.drawn
      /\ \A x \in Docs : v.kids[x] = IF x = t THEN P.kids[t] ELSE Q.kids[x]
  BY <1>1, <1>5, <1>6, PutKidsIs
<1>. HIDE DEF a, v
<1>9. AddCharts(a, t, << >>) = a
  <2>1. a \in Trees
    BY <1>7 DEF Healthy
  <2>. QED  BY <1>1, <2>1, NoneAdded
<1>10. ClearIfCharts(a, f) = a
  <2>1. v.charts[f] = << >>
    BY <1>1, <1>2, <1>8
  <2>. QED  BY <1>1, <1>7, <2>1, NoRoomToMake
<1>11. v.kids[f] = l /\ v.type[f] = P.type[f]
  BY <1>1, <1>2, <1>8
<1>12. /\ d \notin Range(l) /\ (P.type[f] = "IS" => l = << >>)
       /\ k \in Int /\ InsertOrAppend(l, k, d) = P.kids[f] /\ P.kids[f] \in Seq(Docs)
  <2>. HIDE DEF k
  <2>1. l = RemoveAll(P.kids[f], d) /\ k = IndexOf(P.kids[f], d)
    BY <1>3 DEF k
  <2>. HIDE DEF l
  <2>2. /\ d \notin Range(l) /\ (P.type[f] = "IS" => l = << >>)
        /\ P.kids[f] \in Seq(Docs)
    BY <1>1, <1>2, <2>1, GivenBack
  <2>3. IndexOf(P.kids[f], d) \in Int /\ InsertOrAppend(l, IndexOf(P.kids[f], d), d) = P.kids[f]
    BY <1>1, <1>2, <2>1, GivenBack
  <2>. QED  BY <2>1, <2>2, <2>3
<1>. HIDE DEF l, k
<1>13. Room(v, f, d)
  BY <1>2, <1>11, <1>12 DEF Room, ChildAllowed
<1>14. r = AddDocument(a, f, d, k) /\ d \in a.live
  BY <1>1, <1>4, <1>7, <1>9, <1>10
<1>15. Healthy(S, r) /\ Agrees(S, r, u) /\ u \in States /\ r.live = m.live
  BY <1>1, <1>7, <1>12, <1>13, <1>14, DocumentPut
<1>16. InsertOrAppend(v.kids[f], k, d) = P.kids[f]
  BY <1>11, <1>12
<1>17. /\ u.type = v.type /\ u.charts = v.charts /\ u.drawn = v.drawn
       /\ \A x \in Docs : u.kids[x] = IF x = f THEN P.kids[f] ELSE v.kids[x]
  BY <1>1, <1>7, <1>12, <1>16, PutKidsIs
<1>. HIDE DEF u
<1>18. u = P
  <2>1. \A q \in Docs : u.type[q] = P.type[q] /\ u.kids[q] = P.kids[q] /\ u.charts[q] = P.charts[q]
    BY <1>1, <1>2, <1>8, <1>17
  <2>. QED  BY <1>2, <1>8, <1>15, <1>17, <2>1, SameStates
<1>. QED  BY <1>15, <1>18

LEMMA RedoDeleteExact ==
  ASSUME NEW S, NEW m, NEW P \in States, NEW Q \in States, NEW c \in Commands, c.kind = "delete", NEW known,
         Healthy(S, m), Agrees(S, m, P), BringsDelete(P, c, Q), Supplied(m, known),
         NEW r, r = RedoDelete(m, c, known)
  PROVE  Healthy(S, r) /\ Agrees(S, r, Q) /\ r.live = m.live
<1>. DEFINE d == c.doc
            p == c.parent
            n == RemoveDocument(m, p, d)
            l == RemoveAll(P.kids[p], d)
            v == PutKids(P, p, l)
            s == AddNewChart(n, p, known)
            u == PutCharts(v, p, OneMade)
<1>1. d \in Docs /\ p \in Docs
  BY CommandKinds
<1>2. /\ Q.drawn = P.drawn /\ P.charts[p] = << >>
      /\ \A q \in Docs :
           /\ Q.type[q] = P.type[q]
           /\ Q.kids[q] = IF q = p THEN l ELSE P.kids[q]
           /\ Q.charts[q] = IF q = p /\ l = << >> THEN OneMade ELSE P.charts[q]
  BY DEF BringsDelete, GivesBack
<1>3. r = IF IsBare(n, p) THEN s ELSE n
  BY DEF RedoDelete
<1>. HIDE DEF d, p
<1>4. Healthy(S, n) /\ Agrees(S, n, v) /\ v \in States /\ n.live = m.live /\ n.charted = m.charted
  BY <1>1, DocumentTaken
<1>5. P.kids[p] \in Seq(Docs)
  BY <1>1 DEF States
<1>6. l \in Seq(Docs)
  BY <1>5, RemovedIsDocs
<1>. HIDE DEF l
<1>7. /\ v.type = P.type /\ v.charts = P.charts /\ v.drawn = P.drawn
      /\ \A x \in Docs : v.kids[x] = IF x = p THEN l ELSE P.kids[x]
  BY <1>1, <1>6, PutKidsIs
<1>. HIDE DEF v, n
<1>8. IsBare(n, p) <=> l = << >>
  <2>1. IsBare(n, p) <=> IsBare(v, p)
    BY <1>1, <1>4, AgreesThere
  <2>. QED  BY <1>1, <1>2, <1>7, <2>1 DEF IsBare
<1>9. CASE l = << >>
  <2>1. v.charts[p] = << >> /\ Supplied(n, known)
    BY <1>2, <1>4, <1>7, RoomSupplied
  <2>2. Healthy(S, s) /\ Agrees(S, s, u) /\ u \in States /\ s.live = n.live
    BY <1>1, <1>4, <2>1, MadePut
  <2>3. /\ u.type = v.type /\ u.kids = v.kids /\ u.drawn = v.drawn
        /\ \A q \in Docs : u.charts[q] = IF q = p THEN OneMade ELSE v.charts[q]
    BY <1>1, <1>4, OneMadeIs, PutChartsIs
  <2>. HIDE DEF u, s
  <2>4. u = Q
    <3>1. \A q \in Docs : u.type[q] = Q.type[q] /\ u.kids[q] = Q.kids[q] /\ u.charts[q] = Q.charts[q]
      BY <1>1, <1>2, <1>7, <1>9, <2>3
    <3>. QED  BY <1>2, <1>7, <2>2, <2>3, <3>1, SameStates
  <2>. QED  BY <1>3, <1>4, <1>8, <1>9, <2>2, <2>4
<1>10. CASE l # << >>
  <2>1. v = Q
    <3>1. \A q \in Docs : v.type[q] = Q.type[q] /\ v.kids[q] = Q.kids[q] /\ v.charts[q] = Q.charts[q]
      BY <1>1, <1>2, <1>7, <1>10
    <3>. QED  BY <1>2, <1>4, <1>7, <3>1, SameStates
  <2>. QED  BY <1>3, <1>4, <1>8, <1>10, <2>1
<1>. QED  BY <1>9, <1>10

LEMMA UndoDeleteExact ==
  ASSUME NEW S, NEW m, NEW P \in States, NEW Q \in States, NEW c \in Commands, c.kind = "delete",
         Healthy(S, m), Agrees(S, m, Q), BringsDelete(P, c, Q), PointsTo(c) \subseteq m.live,
         NEW r, r = UndoDelete(m, c)
  PROVE  Healthy(S, r) /\ Agrees(S, r, P) /\ r.live = m.live
<1>. DEFINE d == c.doc
            p == c.parent
            k == c.index
            n == ClearIfCharts(m, p)
            l == RemoveAll(P.kids[p], d)
            v == PutCharts(Q, p, << >>)
            u == PutKids(v, p, InsertOrAppend(v.kids[p], k, d))
<1>1. d \in Docs /\ p \in Docs /\ d \in m.live
  BY CommandKinds
<1>2. /\ Q.drawn = P.drawn /\ P.charts[p] = << >> /\ P.type[p] # "LEAF" /\ GivesBack(P, p, d)
      /\ k = IndexOf(P.kids[p], d)
      /\ \A q \in Docs :
           /\ Q.type[q] = P.type[q]
           /\ Q.kids[q] = IF q = p THEN l ELSE P.kids[q]
           /\ Q.charts[q] = IF q = p /\ l = << >> THEN OneMade ELSE P.charts[q]
  BY DEF BringsDelete, GivesBack
<1>3. r = AddDocument(n, p, d, k)
  BY DEF UndoDelete
<1>. HIDE DEF d, p, k
<1>4. /\ l \in Seq(Docs) /\ d \notin Range(l) /\ (P.type[p] = "IS" => l = << >>)
      /\ k \in Int /\ InsertOrAppend(l, k, d) = P.kids[p] /\ P.kids[p] \in Seq(Docs)
  <2>1. l = RemoveAll(P.kids[p], d)
    OBVIOUS
  <2>. HIDE DEF l
  <2>2. l \in Seq(Docs) /\ d \notin Range(l) /\ (P.type[p] = "IS" => l = << >>) /\ P.kids[p] \in Seq(Docs)
    BY <1>1, <1>2, <2>1, GivenBack
  <2>3. IndexOf(P.kids[p], d) \in Int /\ InsertOrAppend(l, IndexOf(P.kids[p], d), d) = P.kids[p]
    BY <1>1, <1>2, <2>1, GivenBack
  <2>. QED  BY <1>2, <2>2, <2>3
<1>. HIDE DEF l
<1>5. Q.charts[p] \in {<< >>, <<Made>>} /\ (Q.charts[p] = << >> \/ Q.kids[p] = << >>)
  BY <1>1, <1>2 DEF OneMade
<1>6. /\ Healthy(S, n) /\ Agrees(S, n, v) /\ v \in States /\ n.live = m.live
  BY <1>1, <1>5, RoomPut
<1>7. /\ v.type = Q.type /\ v.kids = Q.kids /\ v.drawn = Q.drawn
      /\ \A x \in Docs : v.charts[x] = IF x = p THEN << >> ELSE Q.charts[x]
  <2>. DEFINE e == << >>
  <2>1. e \in Seq(Marks) /\ v = PutCharts(Q, p, e)
    BY MadeIs
  <2>. HIDE DEF e, v
  <2>2. v.type = Q.type /\ v.kids = Q.kids /\ v.drawn = Q.drawn
        /\ \A x \in Docs : v.charts[x] = IF x = p THEN e ELSE Q.charts[x]
    BY <1>1, <2>1, PutChartsIs
  <2>. QED  BY <2>2 DEF e
<1>. HIDE DEF v, n
<1>8. v.kids[p] = l /\ v.type[p] = P.type[p]
  BY <1>1, <1>2, <1>7
<1>9. Room(v, p, d)
  BY <1>2, <1>4, <1>8 DEF Room, ChildAllowed
<1>10. d \in n.live
  BY <1>1, <1>6
<1>11. Healthy(S, r) /\ Agrees(S, r, u) /\ u \in States /\ r.live = n.live
  BY <1>1, <1>3, <1>4, <1>6, <1>9, <1>10, DocumentPut
<1>12. InsertOrAppend(v.kids[p], k, d) = P.kids[p]
  BY <1>4, <1>8
<1>13. /\ u.type = v.type /\ u.charts = v.charts /\ u.drawn = v.drawn
       /\ \A x \in Docs : u.kids[x] = IF x = p THEN P.kids[p] ELSE v.kids[x]
  BY <1>1, <1>4, <1>6, <1>12, PutKidsIs
<1>. HIDE DEF u
<1>14. u = P
  <2>1. \A q \in Docs : u.type[q] = P.type[q] /\ u.kids[q] = P.kids[q] /\ u.charts[q] = P.charts[q]
    BY <1>1, <1>2, <1>7, <1>13
  <2>. QED  BY <1>2, <1>7, <1>11, <1>13, <2>1, SameStates
<1>. QED  BY <1>6, <1>11, <1>14

LEMMA RedoTypeExact ==
  ASSUME NEW S, NEW m, NEW P \in States, NEW Q \in States, NEW c \in Commands, c.kind = "type", NEW known,
         Healthy(S, m), Agrees(S, m, P), BringsType(P, c, Q), Supplied(m, known),
         NEW r, r = RedoType(m, c, known)
  PROVE  /\ Healthy(S, r) /\ Agrees(S, r, Q) /\ r.live = m.live
         /\ MakesChart(m, c) <=> MakesChart(P, c)
<1>. DEFINE d == c.doc
            t == c.new
            n == [m EXCEPT !.type[d] = t]
            v == PutType(P, d, t)
            s == AddNewChart(n, d, known)
            u == PutCharts(v, d, OneMade)
<1>1. d \in Docs /\ t \in Types
  BY CommandKinds
<1>2. /\ Q.drawn = P.drawn
      /\ \A q \in Docs :
           /\ Q.kids[q] = P.kids[q]
           /\ Q.type[q] = IF q = d THEN t ELSE P.type[q]
           /\ Q.charts[q] = IF q = d /\ MakesChart(P, c) THEN OneMade ELSE P.charts[q]
  BY DEF BringsType
<1>3. r = IF MakesChart(m, c) THEN s ELSE n
  BY DEF RedoType
<1>4. /\ MakesChart(m, c) <=> MakesChart(P, c)
      /\ MakesChart(P, c) => P.charts[d] = << >>
  <2>1. IsBare(m, d) <=> IsBare(P, d)
    <3>. HIDE DEF d
    <3>. QED  BY <1>1, AgreesThere
  <2>. QED  BY <2>1 DEF MakesChart, IsBare
<1>. HIDE DEF d, t
<1>5. m \in Trees
  BY DEF Healthy
<1>6. /\ n \in Trees /\ n.kids = m.kids /\ n.charts = m.charts
      /\ n.live = m.live /\ n.charted = m.charted /\ n.drawn = m.drawn
      /\ \A q \in Docs : n.type[q] = IF q = d THEN t ELSE m.type[q]
  BY <1>1, <1>5, TypeIs
<1>. HIDE DEF n
<1>7. Healthy(S, n) /\ Agrees(S, n, v)
  BY <1>1, <1>6, TypePut
<1>8. /\ v \in States /\ v.kids = P.kids /\ v.charts = P.charts /\ v.drawn = P.drawn
      /\ \A x \in Docs : v.type[x] = IF x = d THEN t ELSE P.type[x]
  BY <1>1, PutTypeIs
<1>. HIDE DEF v
<1>9. CASE MakesChart(P, c)
  <2>1. v.charts[d] = << >> /\ Supplied(n, known)
    BY <1>4, <1>6, <1>8, <1>9, RoomSupplied
  <2>2. Healthy(S, s) /\ Agrees(S, s, u) /\ u \in States /\ s.live = n.live
    BY <1>1, <1>7, <1>8, <2>1, MadePut
  <2>3. /\ u.type = v.type /\ u.kids = v.kids /\ u.drawn = v.drawn
        /\ \A q \in Docs : u.charts[q] = IF q = d THEN OneMade ELSE v.charts[q]
    BY <1>1, <1>8, OneMadeIs, PutChartsIs
  <2>. HIDE DEF u, s
  <2>4. u = Q
    <3>1. \A q \in Docs : u.type[q] = Q.type[q] /\ u.kids[q] = Q.kids[q] /\ u.charts[q] = Q.charts[q]
      BY <1>1, <1>2, <1>8, <1>9, <2>3
    <3>. QED  BY <1>2, <1>8, <2>2, <2>3, <3>1, SameStates
  <2>. QED  BY <1>3, <1>4, <1>6, <1>9, <2>2, <2>4
<1>10. CASE ~MakesChart(P, c)
  <2>1. v = Q
    <3>1. \A q \in Docs : v.type[q] = Q.type[q] /\ v.kids[q] = Q.kids[q] /\ v.charts[q] = Q.charts[q]
      BY <1>1, <1>2, <1>8, <1>10
    <3>. QED  BY <1>2, <1>8, <3>1, SameStates
  <2>. QED  BY <1>3, <1>4, <1>6, <1>7, <1>10, <2>1
<1>. QED  BY <1>4, <1>9, <1>10

LEMMA UndoTypeExact ==
  ASSUME NEW S, NEW m, NEW P \in States, NEW Q \in States, NEW c \in Commands, c.kind = "type",
         Healthy(S, m), Agrees(S, m, Q), BringsType(P, c, Q), NEW r, r = UndoType(m, c)
  PROVE  Healthy(S, r) /\ Agrees(S, r, P) /\ r.live = m.live
<1>. DEFINE d == c.doc
            t == c.old
            n == [m EXCEPT !.type[d] = t]
            v == PutType(Q, d, t)
            s == ClearCharts(n, d)
            u == PutCharts(v, d, << >>)
<1>1. d \in Docs /\ t \in Types
  BY CommandKinds
<1>2. /\ Q.drawn = P.drawn /\ t = P.type[d]
      /\ \A q \in Docs :
           /\ Q.kids[q] = P.kids[q]
           /\ q # d => Q.type[q] = P.type[q]
           /\ Q.charts[q] = IF q = d /\ c.made THEN OneMade ELSE P.charts[q]
  BY DEF BringsType
<1>3. r = IF c.made THEN s ELSE n
  BY DEF UndoType
<1>4. c.made => P.charts[d] = << >>
  BY DEF BringsType, MakesChart, IsBare
<1>. HIDE DEF d, t
<1>5. m \in Trees
  BY DEF Healthy
<1>6. /\ n \in Trees /\ n.kids = m.kids /\ n.charts = m.charts
      /\ n.live = m.live /\ n.charted = m.charted /\ n.drawn = m.drawn
      /\ \A q \in Docs : n.type[q] = IF q = d THEN t ELSE m.type[q]
  BY <1>1, <1>5, TypeIs
<1>. HIDE DEF n
<1>7. Healthy(S, n) /\ Agrees(S, n, v)
  BY <1>1, <1>6, TypePut
<1>8. /\ v \in States /\ v.kids = Q.kids /\ v.charts = Q.charts /\ v.drawn = Q.drawn
      /\ \A x \in Docs : v.type[x] = IF x = d THEN t ELSE Q.type[x]
  BY <1>1, PutTypeIs
<1>. HIDE DEF v
<1>9. CASE c.made
  <2>1. v.charts[d] \in {<< >>, <<Made>>}
    BY <1>1, <1>2, <1>8, <1>9 DEF OneMade
  <2>2. /\ s \in Trees /\ s.kids = n.kids /\ s.type = n.type
        /\ s.live = n.live /\ s.charted = n.charted \ Range(n.charts[d]) /\ s.drawn = n.drawn
        /\ \A q \in Docs : s.charts[q] = IF q = d THEN << >> ELSE n.charts[q]
    BY <1>1, <1>6, ClearChartsIs
  <2>. HIDE DEF s
  <2>3. Healthy(S, s) /\ Agrees(S, s, u)
    BY <1>1, <1>7, <1>8, <2>1, <2>2, ChartsDropped
  <2>4. /\ u \in States /\ u.type = v.type /\ u.kids = v.kids /\ u.drawn = v.drawn
        /\ \A x \in Docs : u.charts[x] = IF x = d THEN << >> ELSE v.charts[x]
    <3>. DEFINE e == << >>
    <3>1. e \in Seq(Marks) /\ u = PutCharts(v, d, e)
      BY MadeIs
    <3>. HIDE DEF e, u
    <3>2. u \in States /\ u.type = v.type /\ u.kids = v.kids /\ u.drawn = v.drawn
          /\ \A x \in Docs : u.charts[x] = IF x = d THEN e ELSE v.charts[x]
      BY <1>1, <1>8, <3>1, PutChartsIs
    <3>. QED  BY <3>2 DEF e
  <2>. HIDE DEF u
  <2>5. u = P
    <3>1. \A q \in Docs : u.type[q] = P.type[q] /\ u.kids[q] = P.kids[q] /\ u.charts[q] = P.charts[q]
      BY <1>1, <1>2, <1>4, <1>8, <1>9, <2>4
    <3>. QED  BY <1>2, <1>8, <2>4, <3>1, SameStates
  <2>. QED  BY <1>3, <1>6, <1>9, <2>2, <2>3, <2>5
<1>10. CASE ~c.made
  <2>1. v = P
    <3>1. \A q \in Docs : v.type[q] = P.type[q] /\ v.kids[q] = P.kids[q] /\ v.charts[q] = P.charts[q]
      BY <1>1, <1>2, <1>8, <1>10
    <3>. QED  BY <1>2, <1>8, <3>1, SameStates
  <2>. QED  BY <1>3, <1>6, <1>7, <1>10, <2>1
<1>. QED  BY <1>9, <1>10

LEMMA RedoPasteExact ==
  ASSUME NEW S, NEW m, NEW P \in States, NEW Q \in States, NEW c \in Commands, c.kind = "paste",
         Healthy(S, m), Agrees(S, m, P), BringsPaste(P, c, Q), PointsTo(c) \subseteq m.live,
         NEW r, r = RedoPaste(m, c)
  PROVE  Healthy(S, r) /\ Agrees(S, r, Q) /\ r.live = m.live
<1>. DEFINE d == c.doc
            p == c.parent
            n == AddDocument(m, p, d, -1)
            v == PutKids(P, p, AtEnd(P.kids[p], d))
<1>1. d \in Docs /\ p \in Docs /\ d \in m.live
  BY CommandKinds
<1>2. /\ Q.drawn = P.drawn /\ d \notin Range(P.kids[p]) /\ P.kids[p] # << >>
      /\ \A q \in Docs :
           /\ Q.type[q] = P.type[q] /\ Q.charts[q] = P.charts[q]
           /\ Q.kids[q] = IF q = p /\ ChildAllowed(P, q) THEN AtEnd(P.kids[q], d) ELSE P.kids[q]
  BY DEF BringsPaste
<1>3. r = IF m.kids[p] = << >> THEN m ELSE n
  BY DEF RedoPaste
<1>. HIDE DEF d, p
<1>4. m.kids[p] = P.kids[p] /\ P.kids[p] \in Seq(Docs)
  BY <1>1, AgreesThere
<1>5. r = n
  BY <1>2, <1>3, <1>4
<1>6. CASE ChildAllowed(P, p)
  <2>1. Room(P, p, d)
    BY <1>2, <1>6 DEF Room
  <2>2. Healthy(S, n) /\ Agrees(S, n, v) /\ v \in States /\ n.live = m.live
    BY <1>1, <2>1, AtEndPut
  <2>3. AtEnd(P.kids[p], d) \in Seq(Docs)
    BY <1>1, <1>4, AtEndIs
  <2>4. /\ v.type = P.type /\ v.charts = P.charts /\ v.drawn = P.drawn
        /\ \A x \in Docs : v.kids[x] = IF x = p THEN AtEnd(P.kids[p], d) ELSE P.kids[x]
    BY <1>1, <2>3, PutKidsIs
  <2>. HIDE DEF v, n
  <2>5. v = Q
    <3>1. \A q \in Docs : v.type[q] = Q.type[q] /\ v.kids[q] = Q.kids[q] /\ v.charts[q] = Q.charts[q]
      BY <1>1, <1>2, <1>6, <2>4
    <3>. QED  BY <1>2, <2>2, <2>4, <3>1, SameStates
  <2>. QED  BY <1>5, <2>2, <2>5
<1>7. CASE ~ChildAllowed(P, p)
  <2>1. ~ChildAllowed(m, p)
    <3>1. ChildAllowed(m, p) <=> ChildAllowed(P, p)
      BY <1>1, AgreesThere
    <3>. QED  BY <1>7, <3>1
  <2>2. n = m
    BY <2>1, AddDocumentRefused
  <2>3. P = Q
    <3>1. \A q \in Docs : P.type[q] = Q.type[q] /\ P.kids[q] = Q.kids[q] /\ P.charts[q] = Q.charts[q]
      BY <1>1, <1>2, <1>7
    <3>. QED  BY <1>2, <3>1, SameStates
  <2>. QED  BY <1>5, <2>2, <2>3
<1>. QED  BY <1>6, <1>7

LEMMA UndoPasteExact ==
  ASSUME NEW S, NEW m, NEW P \in States, NEW Q \in States, NEW c \in Commands, c.kind = "paste",
         Healthy(S, m), Agrees(S, m, Q), BringsPaste(P, c, Q), NoRepeat(P.kids[c.parent]),
         NEW r, r = UndoPaste(m, c)
  PROVE  Healthy(S, r) /\ Agrees(S, r, P) /\ r.live = m.live
<1>. DEFINE d == c.doc
            p == c.parent
            n == RemoveDocument(m, p, d)
            v == PutKids(Q, p, RemoveAll(Q.kids[p], d))
<1>1. d \in Docs /\ p \in Docs
  BY CommandKinds
<1>2. /\ Q.drawn = P.drawn /\ d \notin Range(P.kids[p]) /\ P.kids[p] # << >> /\ NoRepeat(P.kids[p])
      /\ \A q \in Docs :
           /\ Q.type[q] = P.type[q] /\ Q.charts[q] = P.charts[q]
           /\ Q.kids[q] = IF q = p /\ ChildAllowed(P, q) THEN AtEnd(P.kids[q], d) ELSE P.kids[q]
  BY DEF BringsPaste
<1>3. r = IF m.kids[p] = << >> THEN m ELSE n
  BY DEF UndoPaste
<1>. HIDE DEF d, p
<1>4. m.kids[p] = Q.kids[p]
  BY <1>1, AgreesThere
<1>5. P.kids[p] \in Seq(Docs)
  BY <1>1 DEF States
<1>6. Q.kids[p] # << >> /\ RemoveAll(Q.kids[p], d) = P.kids[p]
  <2>. DEFINE s == P.kids[p]
  <2>1. s \in Seq(Docs) /\ NoRepeat(s) /\ d \notin Range(s) /\ s # << >>
        /\ Q.kids[p] \in {AtEnd(s, d), s}
    BY <1>1, <1>2, <1>5
  <2>. HIDE DEF s
  <2>2. RemoveAll(AtEnd(s, d), d) = s /\ d \in Range(AtEnd(s, d))
    BY <1>1, <2>1, AtEndIs
  <2>3. RemoveAll(s, d) = s
    BY <2>1, RemovedNone
  <2>. QED  BY <2>1, <2>2, <2>3, EmptyList DEF s
<1>7. r = n
  BY <1>3, <1>4, <1>6
<1>8. Healthy(S, n) /\ Agrees(S, n, v) /\ v \in States /\ n.live = m.live
  BY <1>1, DocumentTaken
<1>9. /\ v.type = Q.type /\ v.charts = Q.charts /\ v.drawn = Q.drawn
      /\ \A x \in Docs : v.kids[x] = IF x = p THEN P.kids[p] ELSE Q.kids[x]
  BY <1>1, <1>5, <1>6, PutKidsIs
<1>. HIDE DEF v, n
<1>10. v = P
  <2>1. \A q \in Docs : v.type[q] = P.type[q] /\ v.kids[q] = P.kids[q] /\ v.charts[q] = P.charts[q]
    BY <1>1, <1>2, <1>9
  <2>. QED  BY <1>2, <1>8, <1>9, <2>1, SameStates
<1>. QED  BY <1>7, <1>8, <1>10

LEMMA DrawnExact ==
  ASSUME NEW S, NEW m, NEW n \in Trees, NEW P \in States, NEW Q \in States, NEW k \in S,
         Healthy(S, m), Agrees(S, m, P), n.type = m.type, n.kids = m.kids, n.charts = m.charts,
         n.live = m.live, n.charted = m.charted, \A x : x # k => (x \in n.drawn <=> x \in m.drawn),
         n.drawn \cap S = Q.drawn,
         \A q \in Docs : Q.type[q] = P.type[q] /\ Q.kids[q] = P.kids[q] /\ Q.charts[q] = P.charts[q]
  PROVE  Healthy(S, n) /\ Agrees(S, n, Q)
<1>1. Healthy(S, n)
  BY DEF Healthy
<1>2. \A x : Mark(S, n, x) = Mark(S, m, x)
  <2>1. ASSUME NEW x  PROVE Mark(S, n, x) = Mark(S, m, x)
    <3>1. (x \in n.drawn \ S) = (x \in m.drawn \ S)
      OBVIOUS
    <3>. QED  BY <3>1, Zenon DEF Mark
  <2>. QED  BY <2>1
<1>. QED  BY <1>1, <1>2 DEF Agrees

LEMMA RedoExact ==
  ASSUME NEW S, NEW m, NEW P \in States, NEW Q \in States, NEW c \in Commands, NEW known,
         Healthy(S, m), Agrees(S, m, P), Brings(S, P, c, Q), PointsTo(c) \subseteq m.live, Supplied(m, known),
         NEW r, r = Redo(m, c, known)
  PROVE  /\ Healthy(S, r) /\ Agrees(S, r, Q) /\ r.live = m.live
         /\ ~Misses(m, c)
         /\ c.kind = "type" => (MakesChart(m, c) <=> MakesChart(P, c))
<1>0. Needs(c) \subseteq m.live
  BY CommandPoints
<1>1. CASE c.kind = "create"
  <2>1. r = RedoCreate(m, c, known) /\ BringsCreate(P, c, Q)
    BY <1>0, <1>1 DEF Redo, Brings
  <2>2. Healthy(S, r) /\ Agrees(S, r, Q) /\ r.live = m.live
    BY <1>1, <2>1, RedoCreateExact
  <2>. QED  BY <1>1, <2>2 DEF Misses
<1>2. CASE c.kind = "move"
  <2>1. r = RedoMove(m, c, known) /\ BringsMove(P, c, Q)
    BY <1>0, <1>2 DEF Redo, Brings
  <2>2. Healthy(S, r) /\ Agrees(S, r, Q) /\ r.live = m.live
    BY <1>2, <2>1, RedoMoveExact
  <2>3. Moves(ClearIfCharts(m, c.to), c)
    BY <1>2, <2>1, RedoMoveExact
  <2>. QED  BY <1>2, <2>2, <2>3 DEF Misses
<1>3. CASE c.kind = "delete"
  <2>1. r = RedoDelete(m, c, known) /\ BringsDelete(P, c, Q)
    BY <1>0, <1>3 DEF Redo, Brings
  <2>2. Healthy(S, r) /\ Agrees(S, r, Q) /\ r.live = m.live
    BY <1>3, <2>1, RedoDeleteExact
  <2>. QED  BY <1>3, <2>2 DEF Misses
<1>4. CASE c.kind = "type"
  <2>1. r = RedoType(m, c, known) /\ BringsType(P, c, Q)
    BY <1>0, <1>4 DEF Redo, Brings
  <2>2. /\ Healthy(S, r) /\ Agrees(S, r, Q) /\ r.live = m.live
        /\ MakesChart(m, c) <=> MakesChart(P, c)
    BY <1>4, <2>1, RedoTypeExact
  <2>. QED  BY <1>4, <2>2 DEF Misses
<1>5. CASE c.kind = "paste"
  <2>1. r = RedoPaste(m, c) /\ BringsPaste(P, c, Q)
    BY <1>0, <1>5 DEF Redo, Brings
  <2>2. Healthy(S, r) /\ Agrees(S, r, Q) /\ r.live = m.live
    BY <1>5, <2>1, RedoPasteExact
  <2>. QED  BY <1>5, <2>2 DEF Misses
<1>6. CASE c.kind = "draw"
  <2>. DEFINE k == c.chart
  <2>1. BringsDraw(S, P, c, Q)
    BY <1>6 DEF Brings
  <2>2. /\ k \in S /\ Q.drawn = P.drawn \cup {k}
        /\ \A q \in Docs : Q.type[q] = P.type[q] /\ Q.kids[q] = P.kids[q] /\ Q.charts[q] = P.charts[q]
    BY <2>1 DEF BringsDraw
  <2>3. r = [m EXCEPT !.drawn = m.drawn \cup ({k} \cap m.charted)]
    BY <1>0, <1>6 DEF Redo
  <2>. HIDE DEF k
  <2>4. m \in Trees /\ k \in m.charted
    BY <2>2 DEF Healthy
  <2>5. /\ r \in Trees /\ r.type = m.type /\ r.kids = m.kids /\ r.charts = m.charts
        /\ r.live = m.live /\ r.charted = m.charted /\ r.drawn = m.drawn \cup {k}
    BY <2>3, <2>4 DEF Trees
  <2>6. r.drawn \cap S = Q.drawn
    BY <2>2, <2>5 DEF Agrees
  <2>7. Healthy(S, r) /\ Agrees(S, r, Q)
    <3>1. \A x : x # k => (x \in r.drawn <=> x \in m.drawn)
      BY <2>5
    <3>. QED  BY <2>2, <2>5, <2>6, <3>1, DrawnExact
  <2>. QED  BY <1>6, <2>5, <2>7 DEF Misses
<1>. QED  BY <1>1, <1>2, <1>3, <1>4, <1>5, <1>6, CommandKinds

LEMMA UndoExact ==
  ASSUME NEW S, NEW m, NEW P \in States, NEW Q \in States, NEW c \in Commands,
         Healthy(S, m), Agrees(S, m, Q), Brings(S, P, c, Q), PointsTo(c) \subseteq m.live,
         \A q \in Docs : NoRepeat(P.kids[q]), NEW r, r = Undo(m, c)
  PROVE  Healthy(S, r) /\ Agrees(S, r, P) /\ r.live = m.live
<1>0. Needs(c) \subseteq m.live
  BY CommandPoints
<1>1. CASE c.kind = "create"
  <2>1. r = UndoCreate(m, c) /\ BringsCreate(P, c, Q)
    BY <1>0, <1>1 DEF Undo, Brings
  <2>2. NoRepeat(P.kids[c.parent])
    BY <1>1, CommandKinds
  <2>. QED  BY <1>1, <2>1, <2>2, UndoCreateExact
<1>2. CASE c.kind = "move"
  <2>1. r = UndoMove(m, c) /\ BringsMove(P, c, Q)
    BY <1>0, <1>2 DEF Undo, Brings
  <2>2. NoRepeat(P.kids[c.to])
    BY <1>2, CommandKinds
  <2>. QED  BY <1>2, <2>1, <2>2, UndoMoveExact
<1>3. CASE c.kind = "delete"
  <2>1. r = UndoDelete(m, c) /\ BringsDelete(P, c, Q)
    BY <1>0, <1>3 DEF Undo, Brings
  <2>. QED  BY <1>3, <2>1, UndoDeleteExact
<1>4. CASE c.kind = "type"
  <2>1. r = UndoType(m, c) /\ BringsType(P, c, Q)
    BY <1>0, <1>4 DEF Undo, Brings
  <2>. QED  BY <1>4, <2>1, UndoTypeExact
<1>5. CASE c.kind = "paste"
  <2>1. r = UndoPaste(m, c) /\ BringsPaste(P, c, Q)
    BY <1>0, <1>5 DEF Undo, Brings
  <2>2. NoRepeat(P.kids[c.parent])
    BY <1>5, CommandKinds
  <2>. QED  BY <1>5, <2>1, <2>2, UndoPasteExact
<1>6. CASE c.kind = "draw"
  <2>. DEFINE k == c.chart
  <2>1. BringsDraw(S, P, c, Q)
    BY <1>6 DEF Brings
  <2>2. /\ k \in S \ P.drawn /\ Q.drawn = P.drawn \cup {k}
        /\ \A q \in Docs : P.type[q] = Q.type[q] /\ P.kids[q] = Q.kids[q] /\ P.charts[q] = Q.charts[q]
    BY <2>1 DEF BringsDraw
  <2>3. r = [m EXCEPT !.drawn = m.drawn \ {k}]
    BY <1>0, <1>6 DEF Undo
  <2>. HIDE DEF k
  <2>4. m \in Trees
    BY DEF Healthy
  <2>5. /\ r \in Trees /\ r.type = m.type /\ r.kids = m.kids /\ r.charts = m.charts
        /\ r.live = m.live /\ r.charted = m.charted /\ r.drawn = m.drawn \ {k}
    BY <2>3, <2>4 DEF Trees
  <2>6. r.drawn \cap S = P.drawn
    BY <2>2, <2>5 DEF Agrees
  <2>7. Healthy(S, r) /\ Agrees(S, r, P)
    <3>1. \A x : x # k => (x \in r.drawn <=> x \in m.drawn)
      BY <2>5
    <3>. QED  BY <2>2, <2>5, <2>6, <3>1, DrawnExact
  <2>. QED  BY <2>5, <2>7
<1>. QED  BY <1>1, <1>2, <1>3, <1>4, <1>5, <1>6, CommandKinds

-------------------------------------------------------------------------------
(* What all commands have in common.                                            *)

\* The states stay tidy.
LEMMA BringsTidy ==
  ASSUME NEW S, NEW P \in States, NEW Q \in States, NEW c \in Commands, NEW F,
         Brings(S, P, c, Q), Tidy(F, P)
  PROVE  Tidy(F, Q)
<1>. SUFFICES ASSUME NEW q \in Docs
              PROVE  /\ NoRepeat(Q.kids[q]) /\ (Q.kids[q] = << >> \/ Q.charts[q] = << >>)
                     /\ q \notin F => \A k \in 1..Len(Q.charts[q]) : Q.charts[q][k][1] = {}
  BY DEF Tidy
<1>1. /\ NoRepeat(P.kids[q]) /\ (P.kids[q] = << >> \/ P.charts[q] = << >>)
      /\ q \notin F => \A k \in 1..Len(P.charts[q]) : P.charts[q][k][1] = {}
      /\ P.kids[q] \in Seq(Docs)
  BY DEF Tidy, States
<1>2. \A k \in 1..Len(OneMade) : OneMade[k][1] = {}
  BY OneMadeIs
<1>3. CASE c.kind = "create"
  <2>1. /\ BringsCreate(P, c, Q) /\ c.doc \in Docs
    BY <1>3, CommandKinds DEF Brings
  <2>2. Q.charts[q] = IF q = c.doc /\ P.type[q] = "LEAF" THEN OneMade ELSE P.charts[q]
    BY <2>1 DEF BringsCreate
  <2>3. CASE q = c.parent
    <3>1. /\ Q.kids[q] = AtEnd(P.kids[q], c.doc) /\ P.charts[q] = << >> /\ q # c.doc
          /\ c.doc \notin Range(P.kids[q])
      BY <2>1, <2>3 DEF BringsCreate, Room
    <3>2. NoRepeat(Q.kids[q])
      BY <1>1, <2>1, <3>1, AtEndIs, SMTT(30)
    <3>. QED  BY <1>1, <2>2, <3>1, <3>2
  <2>4. CASE q # c.parent
    <3>1. Q.kids[q] = P.kids[q] /\ (q = c.doc => P.kids[q] = << >>)
      BY <2>1, <2>4 DEF BringsCreate
    <3>. QED  BY <1>1, <1>2, <2>2, <3>1
  <2>. QED  BY <2>3, <2>4
<1>4. CASE c.kind = "move"
  <2>1. /\ BringsMove(P, c, Q) /\ c.doc \in Docs
    BY <1>4, CommandKinds DEF Brings
  <2>2. /\ Q.charts[q] = P.charts[q]
        /\ Q.kids[q] = IF q = c.to THEN AtEnd(P.kids[q], c.doc)
                       ELSE IF q = c.from THEN RemoveAll(P.kids[q], c.doc) ELSE P.kids[q]
    BY <2>1 DEF BringsMove
  <2>3. CASE q = c.to
    <3>1. P.charts[q] = << >> /\ c.doc \notin Range(P.kids[q])
      BY <2>1, <2>3 DEF BringsMove, Room
    <3>2. NoRepeat(Q.kids[q])
      BY <1>1, <2>1, <2>2, <2>3, <3>1, AtEndIs, SMTT(30)
    <3>. QED  BY <1>1, <2>2, <3>1, <3>2
  <2>4. CASE q = c.from /\ q # c.to
    <3>1. P.charts[q] = << >>
      BY <2>1, <2>4 DEF BringsMove, GivesBack
    <3>2. NoRepeat(Q.kids[q])
      BY <1>1, <2>2, <2>4, RemovedIsDocs
    <3>. QED  BY <1>1, <2>2, <3>1, <3>2
  <2>5. CASE q # c.from /\ q # c.to
    BY <1>1, <2>2, <2>5
  <2>. QED  BY <2>3, <2>4, <2>5
<1>5. CASE c.kind = "delete"
  <2>1. BringsDelete(P, c, Q)
    BY <1>5 DEF Brings
  <2>2. /\ Q.kids[q] = IF q = c.parent THEN RemoveAll(P.kids[q], c.doc) ELSE P.kids[q]
        /\ Q.charts[q] = IF q = c.parent /\ RemoveAll(P.kids[q], c.doc) = << >> THEN OneMade ELSE P.charts[q]
        /\ q = c.parent => P.charts[q] = << >>
    BY <2>1 DEF BringsDelete, GivesBack
  <2>3. NoRepeat(RemoveAll(P.kids[q], c.doc))
    BY <1>1, RemovedIsDocs
  <2>. QED  BY <1>1, <1>2, <2>2, <2>3
<1>6. CASE c.kind = "type"
  <2>1. BringsType(P, c, Q)
    BY <1>6 DEF Brings
  <2>2. /\ Q.kids[q] = P.kids[q]
        /\ Q.charts[q] = IF q = c.doc /\ MakesChart(P, c) THEN OneMade ELSE P.charts[q]
    BY <2>1 DEF BringsType
  <2>3. MakesChart(P, c) => P.kids[c.doc] = << >>
    BY DEF MakesChart, IsBare
  <2>. QED  BY <1>1, <1>2, <2>2, <2>3
<1>7. CASE c.kind = "paste"
  <2>1. /\ BringsPaste(P, c, Q) /\ c.doc \in Docs
    BY <1>7, CommandKinds DEF Brings
  <2>2. /\ Q.charts[q] = P.charts[q]
        /\ Q.kids[q] = IF q = c.parent /\ ChildAllowed(P, q) THEN AtEnd(P.kids[q], c.doc) ELSE P.kids[q]
        /\ q = c.parent => P.kids[q] # << >> /\ c.doc \notin Range(P.kids[q])
    BY <2>1 DEF BringsPaste
  <2>3. q = c.parent => NoRepeat(AtEnd(P.kids[q], c.doc))
    BY <1>1, <2>1, <2>2, AtEndIs
  <2>. QED  BY <1>1, <2>2, <2>3
<1>8. CASE c.kind = "draw"
  <2>1. BringsDraw(S, P, c, Q)
    BY <1>8 DEF Brings
  <2>2. Q.kids[q] = P.kids[q] /\ Q.charts[q] = P.charts[q]
    BY <2>1 DEF BringsDraw
  <2>. QED  BY <1>1, <2>2
<1>. QED  BY <1>3, <1>4, <1>5, <1>6, <1>7, <1>8, CommandKinds

\* A document that is not listed any more is one the command points to.
LEMMA BringsKept ==
  ASSUME NEW S, NEW P \in States, NEW Q \in States, NEW c \in Commands, Brings(S, P, c, Q),
         NEW q \in Docs, NEW x \in Range(P.kids[q])
  PROVE  x \in Range(Q.kids[q]) \/ x \in PointsTo(c)
<1>1. P.kids[q] \in Seq(Docs)
  BY DEF States
<1>. DEFINE l == P.kids[q]
            r == RemoveAll(l, c.doc)
            e == AtEnd(l, c.doc)
<1>2. l \in Seq(Docs) /\ x \in Range(l)
  BY <1>1
<1>3. c.doc \in Docs => \A y \in Range(l) : y \in Range(e)
  <2>. HIDE DEF l
  <2>. QED  BY <1>2, AtEndIs
<1>4. Range(r) = Range(l) \cap (Range(l) \ {c.doc})
  <2>. HIDE DEF l
  <2>. QED  BY <1>2, KeepOnlyProperties DEF RemoveAll
<1>5. \/ Q.kids[q] = l
      \/ Q.kids[q] = e /\ c.doc \in Docs
      \/ Q.kids[q] = r /\ c.doc \in PointsTo(c)
  <2>1. CASE c.kind = "create"
    <3>1. c.doc \in Docs
      BY <2>1, CommandKinds
    <3>2. BringsCreate(P, c, Q)
      BY <2>1 DEF Brings
    <3>3. Q.kids[q] = IF q = c.parent THEN e ELSE l
      BY <3>2 DEF BringsCreate
    <3>. HIDE DEF e, l, r
    <3>. QED  BY <3>1, <3>3
  <2>2. CASE c.kind = "move"
    <3>1. c.doc \in Docs /\ c.doc \in PointsTo(c)
      BY <2>2, CommandKinds
    <3>2. BringsMove(P, c, Q)
      BY <2>2 DEF Brings
    <3>3. Q.kids[q] = IF q = c.to THEN e ELSE IF q = c.from THEN r ELSE l
      BY <3>2 DEF BringsMove
    <3>. HIDE DEF e, l, r
    <3>. QED  BY <3>1, <3>3
  <2>3. CASE c.kind = "delete"
    <3>1. c.doc \in PointsTo(c)
      BY <2>3, CommandKinds
    <3>2. BringsDelete(P, c, Q)
      BY <2>3 DEF Brings
    <3>3. Q.kids[q] = IF q = c.parent THEN r ELSE l
      BY <3>2 DEF BringsDelete
    <3>. HIDE DEF e, l, r
    <3>. QED  BY <3>1, <3>3
  <2>4. CASE c.kind = "paste"
    <3>1. c.doc \in Docs
      BY <2>4, CommandKinds
    <3>2. BringsPaste(P, c, Q)
      BY <2>4 DEF Brings
    <3>3. Q.kids[q] = IF q = c.parent /\ ChildAllowed(P, q) THEN e ELSE l
      BY <3>2 DEF BringsPaste
    <3>. HIDE DEF e, l, r
    <3>. QED  BY <3>1, <3>3
  <2>5. CASE c.kind = "type"
    <3>1. BringsType(P, c, Q)
      BY <2>5 DEF Brings
    <3>2. Q.kids[q] = l
      BY <3>1 DEF BringsType
    <3>. HIDE DEF e, l, r
    <3>. QED  BY <3>2
  <2>6. CASE c.kind = "draw"
    <3>1. BringsDraw(S, P, c, Q)
      BY <2>6 DEF Brings
    <3>2. Q.kids[q] = l
      BY <3>1 DEF BringsDraw
    <3>. HIDE DEF e, l, r
    <3>. QED  BY <3>2
  <2>. QED  BY <2>1, <2>2, <2>3, <2>4, <2>5, <2>6, CommandKinds
<1>. HIDE DEF e, l, r
<1>6. CASE Q.kids[q] = l
  BY <1>2, <1>6
<1>7. CASE Q.kids[q] = e /\ c.doc \in Docs
  BY <1>2, <1>3, <1>7
<1>8. CASE Q.kids[q] = r /\ c.doc \in PointsTo(c)
  <2>1. x = c.doc \/ x \in Range(r)
    BY <1>2, <1>4
  <2>2. CASE x \in Range(r)
    BY <1>8, <2>2
  <2>. QED  BY <1>8, <2>1, <2>2
<1>. QED  BY <1>5, <1>6, <1>7, <1>8

\* Documents the command does not point to may be others.
LEMMA BringsElsewhere ==
  ASSUME NEW S, NEW P \in States, NEW Q \in States, NEW A \in States, NEW B \in States,
         NEW c \in Commands, NEW D \in SUBSET Docs, Brings(S, P, c, Q), PointsTo(c) \cap D = {},
         A.drawn = P.drawn, B.drawn = Q.drawn,
         \A q \in D : A.type[q] = B.type[q] /\ A.kids[q] = B.kids[q] /\ A.charts[q] = B.charts[q],
         \A q \in Docs \ D : A.type[q] = P.type[q] /\ A.kids[q] = P.kids[q] /\ A.charts[q] = P.charts[q],
         \A q \in Docs \ D : B.type[q] = Q.type[q] /\ B.kids[q] = Q.kids[q] /\ B.charts[q] = Q.charts[q]
  PROVE  Brings(S, A, c, B)
<1>1. CASE c.kind = "create"
  <2>1. c.doc \in Docs \ D /\ c.parent \in Docs \ D /\ BringsCreate(P, c, Q)
    BY <1>1, CommandKinds DEF Brings
  <2>2. BringsCreate(A, c, B)
    BY <2>1 DEF BringsCreate, Room, ChildAllowed
  <2>. QED  BY <1>1, <2>2 DEF Brings
<1>2. CASE c.kind = "move"
  <2>1. /\ c.doc \in Docs \ D /\ c.from \in Docs \ D /\ c.to \in Docs \ D /\ BringsMove(P, c, Q)
    BY <1>2, CommandKinds DEF Brings
  <2>2. BringsMove(A, c, B)
    BY <2>1 DEF BringsMove, Room, ChildAllowed, GivesBack
  <2>. QED  BY <1>2, <2>2 DEF Brings
<1>3. CASE c.kind = "delete"
  <2>1. c.doc \in Docs \ D /\ c.parent \in Docs \ D /\ BringsDelete(P, c, Q)
    BY <1>3, CommandKinds DEF Brings
  <2>2. BringsDelete(A, c, B)
    BY <2>1 DEF BringsDelete, GivesBack
  <2>. QED  BY <1>3, <2>2 DEF Brings
<1>4. CASE c.kind = "type"
  <2>1. c.doc \in Docs \ D /\ BringsType(P, c, Q)
    BY <1>4, CommandKinds DEF Brings
  <2>2. MakesChart(A, c) <=> MakesChart(P, c)
    BY <2>1 DEF MakesChart, IsBare
  <2>3. BringsType(A, c, B)
    BY <2>1, <2>2 DEF BringsType
  <2>. QED  BY <1>4, <2>3 DEF Brings
<1>5. CASE c.kind = "paste"
  <2>1. c.doc \in Docs \ D /\ c.parent \in Docs \ D /\ BringsPaste(P, c, Q)
    BY <1>5, CommandKinds DEF Brings
  <2>2. BringsPaste(A, c, B)
    BY <2>1 DEF BringsPaste, ChildAllowed
  <2>. QED  BY <1>5, <2>2 DEF Brings
<1>6. CASE c.kind = "draw"
  <2>1. BringsDraw(S, P, c, Q)
    BY <1>6 DEF Brings
  <2>2. BringsDraw(S, A, c, B)
    BY <2>1 DEF BringsDraw
  <2>. QED  BY <1>6, <2>2 DEF Brings
<1>. QED  BY <1>1, <1>2, <1>3, <1>4, <1>5, <1>6, CommandKinds
-------------------------------------------------------------------------------
(* The states of a file, and what a user sees of them.                          *)

\* The state that the documents m are in.
Seen(S, m) ==
  [type |-> m.type, kids |-> m.kids,
   charts |-> [d \in Docs |-> [k \in 1..Len(m.charts[d]) |-> Mark(S, m, m.charts[d][k])]],
   drawn |-> m.drawn \cap S]

LEMMA SeenIs ==
  ASSUME NEW S, NEW m \in Trees
  PROVE  Seen(S, m) \in States /\ Agrees(S, m, Seen(S, m))
<1>. DEFINE ch == [d \in Docs |-> [k \in 1..Len(m.charts[d]) |-> Mark(S, m, m.charts[d][k])]]
            w  == [type |-> m.type, kids |-> m.kids, charts |-> ch, drawn |-> m.drawn \cap S]
<1>1. ASSUME NEW d \in Docs
      PROVE  /\ ch[d] \in Seq(Marks) /\ Len(ch[d]) = Len(m.charts[d])
             /\ \A k \in 1..Len(ch[d]) : ch[d][k] = Mark(S, m, m.charts[d][k])
  <2>. DEFINE l == m.charts[d]
              r == [k \in 1..Len(l) |-> Mark(S, m, l[k])]
  <2>1. l \in Seq(Charts) /\ ch[d] = r
    BY DEF Trees
  <2>2. Len(l) \in Nat /\ \A k \in 1..Len(l) : l[k] \in Charts
    BY <2>1, LenProperties, ElementOfSeq
  <2>. HIDE DEF l
  <2>3. \A x \in Charts : Mark(S, m, x) \in Marks
    <3>. SUFFICES ASSUME NEW x \in Charts  PROVE Mark(S, m, x) \in Marks
      OBVIOUS
    <3>1. {x} \cap S \in SUBSET Charts
      OBVIOUS
    <3>2. (x \in m.drawn \ S) \in BOOLEAN
      OBVIOUS
    <3>. QED  BY <3>1, <3>2 DEF Mark, Marks
  <2>4. r \in [1..Len(l) -> Marks]
    BY <2>2, <2>3
  <2>5. r \in Seq(Marks) /\ Len(r) = Len(l)
    BY <2>2, <2>4
  <2>6. \A k \in 1..Len(l) : r[k] = Mark(S, m, l[k])
    OBVIOUS
  <2>. HIDE DEF r
  <2>. QED  BY <2>1, <2>5, <2>6 DEF l
<1>2. ch = [d \in Docs |-> ch[d]]
  OBVIOUS
<1>3. Seen(S, m) = w
  BY DEF Seen
<1>. HIDE DEF ch
<1>4. ch \in [Docs -> Seq(Marks)]
  BY <1>1, <1>2
<1>5. w \in States
  BY <1>4 DEF States, Trees
<1>6. w.type = m.type /\ w.kids = m.kids /\ w.charts = ch /\ w.drawn = m.drawn \cap S
  OBVIOUS
<1>. HIDE DEF w
<1>7. Agrees(S, m, w)
  BY <1>1, <1>6 DEF Agrees
<1>. QED  BY <1>3, <1>5, <1>7

\* w with the documents D as in v.
Over(w, D, v) ==
  [type   |-> [d \in Docs |-> IF d \in D THEN v.type[d] ELSE w.type[d]],
   kids   |-> [d \in Docs |-> IF d \in D THEN v.kids[d] ELSE w.kids[d]],
   charts |-> [d \in Docs |-> IF d \in D THEN v.charts[d] ELSE w.charts[d]],
   drawn  |-> w.drawn]

LEMMA OverIs ==
  ASSUME NEW w \in States, NEW D, NEW v \in States
  PROVE  /\ Over(w, D, v) \in States /\ Over(w, D, v).drawn = w.drawn
         /\ \A d \in Docs : /\ Over(w, D, v).type[d] = IF d \in D THEN v.type[d] ELSE w.type[d]
                            /\ Over(w, D, v).kids[d] = IF d \in D THEN v.kids[d] ELSE w.kids[d]
                            /\ Over(w, D, v).charts[d] = IF d \in D THEN v.charts[d] ELSE w.charts[d]
<1>. DEFINE ty == [d \in Docs |-> IF d \in D THEN v.type[d] ELSE w.type[d]]
            ki == [d \in Docs |-> IF d \in D THEN v.kids[d] ELSE w.kids[d]]
            ch == [d \in Docs |-> IF d \in D THEN v.charts[d] ELSE w.charts[d]]
            r  == [type |-> ty, kids |-> ki, charts |-> ch, drawn |-> w.drawn]
<1>1. ty \in [Docs -> Types] /\ \A d \in Docs : ty[d] = IF d \in D THEN v.type[d] ELSE w.type[d]
  BY DEF States
<1>2. ki \in [Docs -> Seq(Docs)] /\ \A d \in Docs : ki[d] = IF d \in D THEN v.kids[d] ELSE w.kids[d]
  BY DEF States
<1>3. ch \in [Docs -> Seq(Marks)] /\ \A d \in Docs : ch[d] = IF d \in D THEN v.charts[d] ELSE w.charts[d]
  BY DEF States
<1>4. Over(w, D, v) = r
  BY DEF Over
<1>. HIDE DEF ty, ki, ch
<1>5. r \in States
  BY <1>1, <1>2, <1>3 DEF States
<1>6. r.type = ty /\ r.kids = ki /\ r.charts = ch /\ r.drawn = w.drawn
  OBVIOUS
<1>. HIDE DEF r
<1>. QED  BY <1>1, <1>2, <1>3, <1>4, <1>5, <1>6

\* What View is of documents that are as w says.
ViewOf(w) ==
  [type   |-> [d \in InTree(w) |-> w.type[d]],
   kids   |-> [d \in InTree(w) |-> w.kids[d]],
   charts |-> [d \in InTree(w) |-> [k \in 1..Len(w.charts[d]) |->
                 w.charts[d][k][2] \/ w.charts[d][k][1] \cap w.drawn # {}]]]

\* What lists no document outside R has none there in its tree.
LEMMA TreeWithin ==
  ASSUME NEW w, NEW R \in SUBSET Docs, Root \in R, \A d \in R : Range(w.kids[d]) \subseteq R
  PROVE  InTree(w) \subseteq R
BY DEF InTree, Under, Below

LEMMA StateTree ==
  ASSUME NEW w \in States
  PROVE  /\ InTree(w) \in SUBSET Docs /\ Root \in InTree(w)
         /\ \A d \in InTree(w) : Range(w.kids[d]) \subseteq InTree(w)
<1>1. \A d \in Docs : Range(w.kids[d]) \subseteq Docs
  <2>. SUFFICES ASSUME NEW d \in Docs  PROVE Range(w.kids[d]) \subseteq Docs
    OBVIOUS
  <2>1. w.kids[d] \in Seq(Docs)
    BY DEF States
  <2>. QED  BY <2>1, RangeOfSeq
<1>. QED  BY <1>1, NobodyIsNoDoc DEF InTree, Under, Below

LEMMA SameTree ==
  ASSUME NEW v \in States, NEW w \in States, \A d \in InTree(w) : v.kids[d] = w.kids[d]
  PROVE  InTree(v) = InTree(w)
<1>1. InTree(v) \subseteq InTree(w)
  BY StateTree, TreeWithin
<1>2. InTree(w) \subseteq InTree(v)
  <2>1. InTree(v) \in SUBSET Docs /\ Root \in InTree(v)
    BY StateTree
  <2>2. \A d \in InTree(v) : Range(w.kids[d]) \subseteq InTree(v)
    BY <1>1, StateTree
  <2>. QED  BY <2>1, <2>2, TreeWithin
<1>. QED  BY <1>1, <1>2

LEMMA SameView ==
  ASSUME NEW v \in States, NEW w \in States, v.drawn = w.drawn,
         \A d \in InTree(w) : v.type[d] = w.type[d] /\ v.kids[d] = w.kids[d] /\ v.charts[d] = w.charts[d]
  PROVE  ViewOf(v) = ViewOf(w)
<1>1. InTree(v) = InTree(w)
  BY SameTree
<1>. QED  BY <1>1 DEF ViewOf

LEMMA ViewIs ==
  ASSUME NEW S, NEW m \in Trees, NEW w \in States, Agrees(S, m, w)
  PROVE  View(m) = ViewOf(w)
<1>1. m.kids \in [Docs -> Seq(Docs)] /\ w.kids \in [Docs -> Seq(Docs)]
  BY DEF Trees, States
<1>2. m.kids = w.kids
  BY <1>1 DEF Agrees
<1>3. InTree(m) = InTree(w)
  BY <1>2 DEF InTree, Under, Below
<1>4. InTree(w) \subseteq Docs
  BY StateTree
<1>5. ASSUME NEW d \in InTree(w)
      PROVE  [k \in DOMAIN m.charts[d] |-> m.charts[d][k] \in m.drawn]
             = [k \in 1..Len(w.charts[d]) |-> w.charts[d][k][2] \/ w.charts[d][k][1] \cap w.drawn # {}]
  <2>1. /\ Len(m.charts[d]) = Len(w.charts[d]) /\ m.drawn \cap S = w.drawn
        /\ \A k \in 1..Len(w.charts[d]) : w.charts[d][k] = Mark(S, m, m.charts[d][k])
    BY <1>4 DEF Agrees
  <2>2. m.charts[d] \in Seq(Charts)
    BY <1>4 DEF Trees
  <2>3. DOMAIN m.charts[d] = 1..Len(w.charts[d])
    BY <2>1, <2>2, LenProperties
  <2>4. ASSUME NEW k \in 1..Len(w.charts[d])
        PROVE  (m.charts[d][k] \in m.drawn)
               = (w.charts[d][k][2] \/ w.charts[d][k][1] \cap w.drawn # {})
    <3>. DEFINE x == m.charts[d][k]
    <3>1. w.charts[d][k] = <<{x} \cap S, x \in m.drawn \ S>>
      BY <2>1 DEF Mark
    <3>2. w.charts[d][k][1] = {x} \cap S
      BY <3>1
    <3>3. w.charts[d][k][2] = (x \in m.drawn \ S)
      <4>1. \A a, b : <<a, b>>[2] = b
        OBVIOUS
      <4>. QED  BY <3>1, <4>1, Zenon
    <3>4. w.charts[d][k][2] \in BOOLEAN
      <4>1. (x \in m.drawn \ S) \in BOOLEAN
        OBVIOUS
      <4>. QED  BY <3>3, <4>1, Zenon
    <3>. DEFINE a == w.charts[d][k][1]
                b == w.charts[d][k][2]
    <3>5. b = (x \in m.drawn \ S) /\ b \in BOOLEAN /\ a = {x} \cap S
      BY <3>2, <3>3, <3>4
    <3>. HIDE DEF x, a, b
    <3>6. x \in m.drawn <=> b \/ a \cap w.drawn # {}
      BY <2>1, <3>5
    <3>7. (x \in m.drawn) = (b \/ a \cap w.drawn # {})
      BY <3>5, <3>6, SMT
    <3>. QED  BY <3>7 DEF x, a, b
  <2>. QED  BY <2>3, <2>4, Zenon
<1>6. \A d \in InTree(w) : m.type[d] = w.type[d] /\ m.kids[d] = w.kids[d]
  BY <1>4 DEF Agrees
<1>7. [d \in InTree(m) |-> m.type[d]] = [d \in InTree(w) |-> w.type[d]]
  BY <1>3, <1>6
<1>8. [d \in InTree(m) |-> m.kids[d]] = [d \in InTree(w) |-> w.kids[d]]
  BY <1>3, <1>6
<1>9. [d \in InTree(m) |-> [k \in DOMAIN m.charts[d] |-> m.charts[d][k] \in m.drawn]]
      = [d \in InTree(w) |-> [k \in 1..Len(w.charts[d]) |->
           w.charts[d][k][2] \/ w.charts[d][k][1] \cap w.drawn # {}]]
  BY <1>3, <1>5, Zenon
<1>. QED  BY <1>7, <1>8, <1>9, Zenon DEF View, ViewOf
-------------------------------------------------------------------------------
(* The invariant: the states at each place of the stack.                        *)

Views == {ViewOf(w) : w \in States}

\* ws are the states along the first j commands, the current one of which n is in.
Laid(S, F, n, ws, j) ==
  /\ ws \in [Nat -> States]
  /\ Healthy(S, n) /\ Agrees(S, n, ws[index + 1])
  /\ \A k \in 1..(j + 1) : Tidy(F, ws[k]) /\ views[k] = ViewOf(ws[k])
  /\ \A k \in 1..j : Brings(S, ws[k], stack[k], ws[k + 1]) /\ PointsTo(stack[k]) \subseteq n.live
  /\ \A d \in F : ws[1].kids[d] = Start[session].kids[d]

LaidOut(S, F, ws) == Laid(S, F, model, ws, Len(stack))

ExactInv ==
  Exact =>
  /\ ~astray /\ views \in Seq(Views) /\ Len(views) = Len(stack) + 1
  /\ \E S, F, ws : S = Start[session].charted /\ F = InTree(Start[session]) /\ LaidOut(S, F, ws)

\* What the commands get at, they got at before.
LEMMA ReachedAlong ==
  ASSUME TreeInv, ~astray, NEW S, NEW F, NEW ws, Laid(S, F, model, ws, Len(stack)),
         NEW j \in 1..(index + 1), NEW d \in Reached(model, Done)
  PROVE  Range(ws[j].kids[d]) \subseteq Reached(model, Done)
<1>1. PICK R : R = Reached(model, Done)
  OBVIOUS
<1>2. PICK T : T = {i \in 1..(index + 1) : \E q \in R : ~(Range(ws[i].kids[q]) \subseteq R)}
  OBVIOUS
<1>3. /\ model \in Trees /\ index \in Nat /\ index <= Len(stack) /\ Len(stack) \in Nat
      /\ \A k \in 1..Len(stack) : stack[k] \in Commands
      /\ DOMAIN Done = 1..index /\ \A k \in 1..index : Done[k] = stack[k] /\ Done[k] \in Commands
  BY DoneIs, LenProperties, ElementOfSeq DEF TreeInv
<1>4. /\ R \subseteq Docs /\ \A q \in R : Range(model.kids[q]) \subseteq R
      /\ \A k \in 1..index : PointsTo(stack[k]) \subseteq R
  <2>1. /\ Reached(model, Done) \subseteq Docs
        /\ \A q \in Reached(model, Done) : Range(model.kids[q]) \subseteq Reached(model, Done)
        /\ \A k \in DOMAIN Done : PointsTo(Done[k]) \subseteq Reached(model, Done)
    BY <1>3, ReachedIs
  <2>. QED  BY <1>1, <1>3, <2>1
<1>5. /\ \A k \in Nat : ws[k] \in States
      /\ Agrees(S, model, ws[index + 1])
      /\ \A k \in 1..Len(stack) : Brings(S, ws[k], stack[k], ws[k + 1])
  BY DEF Laid
<1>6. CASE T = {}
  BY <1>1, <1>2, <1>6
<1>7. CASE T # {}
  <2>1. T \in SUBSET (0..(index + 1)) /\ index + 1 \in Nat
    BY <1>2, <1>3
  <2>2. PICK i \in T : \A k \in T : k <= i
    BY <1>7, <2>1, GreatestNat
  <2>3. i \in 1..(index + 1) /\ i \in Nat
    BY <1>2, <1>3
  <2>4. PICK q \in R : ~(Range(ws[i].kids[q]) \subseteq R)
    BY <1>2
  <2>5. q \in Docs
    BY <1>4
  <2>6. i # index + 1
    BY <1>4, <1>5, <2>4, <2>5 DEF Agrees
  <2>7. i \in 1..index /\ i \in 1..Len(stack) /\ i + 1 \in Nat /\ i + 1 \in 1..(index + 1)
    BY <1>3, <2>3, <2>6
  <2>8. i + 1 \notin T
    BY <2>2, <2>3
  <2>9. Range(ws[i + 1].kids[q]) \subseteq R
    BY <1>2, <2>7, <2>8
  <2>10. PICK x \in Range(ws[i].kids[q]) : x \notin R
    BY <2>4
  <2>11. ws[i] \in States /\ ws[i + 1] \in States /\ stack[i] \in Commands
         /\ Brings(S, ws[i], stack[i], ws[i + 1])
    BY <1>3, <1>5, <2>3, <2>7
  <2>12. x \in Range(ws[i + 1].kids[q]) \/ x \in PointsTo(stack[i])
    BY <2>5, <2>11, BringsKept, SMTT(30)
  <2>. QED  BY <1>4, <2>7, <2>9, <2>10, <2>12
<1>. QED  BY <1>6, <1>7

LEMMA RangeIndex ==
  ASSUME NEW T, NEW l \in Seq(T)
  PROVE  \A x : x \in Range(l) <=> \E k \in 1..Len(l) : x = l[k]
<1>1. DOMAIN l = 1..Len(l)
  BY LenProperties
<1>. QED  BY <1>1 DEF Range

\* What nobody can get at had none of the file's charts.
LEMMA NowIs ==
  ASSUME TreeInv, ~astray, session \in Sessions, NEW S, NEW F, F = InTree(Start[session]), NEW ws,
         Laid(S, F, model, ws, Len(stack)), NEW R, R = Reached(model, Done)
  PROVE  /\ F \subseteq R /\ R \subseteq Docs /\ Healthy(S, Now)
         /\ \A d \in R : /\ Now.type[d] = model.type[d] /\ Now.kids[d] = model.kids[d]
                         /\ Now.charts[d] = model.charts[d]
                         /\ \A c \in Range(model.charts[d]) : c \in Now.drawn <=> c \in model.drawn
         /\ \A d \in Docs \ R : Now.kids[d] = << >> /\ Now.charts[d] = << >>
         /\ Now.drawn \cap S = model.drawn \cap S
         /\ \A k \in 1..index : PointsTo(stack[k]) \subseteq R /\ PointsTo(stack[k]) \subseteq Now.live
<1>1. /\ model \in Trees /\ index \in Nat /\ index <= Len(stack) /\ Len(stack) \in Nat
      /\ DOMAIN Done = 1..index /\ \A k \in 1..index : Done[k] = stack[k] /\ Done[k] \in Commands
  BY DoneIs, LenProperties DEF TreeInv
<1>2. /\ R \subseteq Docs /\ \A q \in R : Range(model.kids[q]) \subseteq R
      /\ \A k \in 1..index : PointsTo(stack[k]) \subseteq R
      /\ Root \in R
  <2>1. /\ Reached(model, Done) \subseteq Docs /\ InTree(model) \subseteq Reached(model, Done)
        /\ \A q \in Reached(model, Done) : Range(model.kids[q]) \subseteq Reached(model, Done)
        /\ \A k \in DOMAIN Done : PointsTo(Done[k]) \subseteq Reached(model, Done)
    BY <1>1, ReachedIs
  <2>2. Root \in InTree(model)
    BY <1>1, NobodyIsNoDoc, UnderIs DEF InTree
  <2>. QED  BY <1>1, <2>1, <2>2
<1>3. PICK gone : gone = UNION {Range(model.charts[d]) : d \in Docs \ R}
  OBVIOUS
<1>4. /\ Now \in Trees /\ Now.live = model.live \ (Docs \ R)
      /\ Now.charted = model.charted \ gone /\ Now.drawn = model.drawn \ gone
      /\ \A d \in Docs : /\ Now.type[d] = IF d \in Docs \ R THEN "AND" ELSE model.type[d]
                         /\ Now.kids[d] = IF d \in Docs \ R THEN << >> ELSE model.kids[d]
                         /\ Now.charts[d] = IF d \in Docs \ R THEN << >> ELSE model.charts[d]
  BY <1>1, <1>3, ForgetfulIs DEF Now
<1>5. /\ Healthy(S, model) /\ Agrees(S, model, ws[index + 1]) /\ Tidy(F, ws[index + 1])
      /\ ws[1] \in States /\ ws[index + 1] \in States /\ \A d \in F : ws[1].kids[d] = Start[session].kids[d]
      /\ \A k \in 1..index : PointsTo(stack[k]) \subseteq model.live
  <2>1. index + 1 \in 1..(Len(stack) + 1) /\ 1 \in Nat /\ index + 1 \in Nat /\ 1..index \subseteq 1..Len(stack)
    BY <1>1
  <2>. QED  BY <2>1 DEF Laid
<1>6. F \subseteq R
  <2>1. Start[session] \in Trees /\ Root \in Docs
    BY MscDocumentsAssumption
  <2>2. Root \in F /\ F \subseteq Docs /\ \A d \in F : Range(Start[session].kids[d]) \subseteq F
    BY <2>1, UnderIs DEF InTree
  <2>3. 1 \in 1..(index + 1)
    BY <1>1
  <2>4. \A d \in R : Range(ws[1].kids[d]) \subseteq R
    BY <2>3, ReachedAlong
  <2>5. PICK H : H = R \cap F
    OBVIOUS
  <2>6. H \in SUBSET Docs /\ Root \in H /\ \A d \in H : Range(Start[session].kids[d]) \subseteq H
    BY <1>2, <1>5, <2>2, <2>4, <2>5
  <2>7. InTree(Start[session]) \subseteq H
    BY <2>6, TreeWithin
  <2>. QED  BY <2>5, <2>7
<1>7. gone \cap S = {}
  <2>. SUFFICES ASSUME NEW d \in Docs \ R, NEW x \in Range(model.charts[d])  PROVE x \notin S
    BY <1>3
  <2>1. model.charts[d] \in Seq(Charts)
    BY <1>1 DEF Trees
  <2>2. PICK k \in 1..Len(model.charts[d]) : x = model.charts[d][k]
    BY <2>1, RangeIndex
  <2>3. Len(model.charts[d]) = Len(ws[index + 1].charts[d])
        /\ \A i \in 1..Len(ws[index + 1].charts[d]) :
             ws[index + 1].charts[d][i] = Mark(S, model, model.charts[d][i])
    BY <1>5 DEF Agrees
  <2>4. ws[index + 1].charts[d][k] = Mark(S, model, x) /\ k \in 1..Len(ws[index + 1].charts[d])
    BY <2>2, <2>3
  <2>5. d \notin F
    BY <1>6
  <2>6. ws[index + 1].charts[d][k][1] = {}
    BY <1>5, <2>4, <2>5 DEF Tidy
  <2>7. {x} \cap S = {}
    BY <2>4, <2>6 DEF Mark
  <2>. QED  BY <2>7
<1>8. \A d \in R : Range(model.charts[d]) \cap gone = {}
  <2>1. \A d, e \in Docs : d # e => Range(model.charts[d]) \cap Range(model.charts[e]) = {}
    BY <1>5 DEF Healthy
  <2>. QED  BY <1>2, <1>3, <2>1
<1>9. Healthy(S, Now)
  <2>1. /\ S \subseteq model.charted /\ Root \in model.live
        /\ \A d \in Docs : Range(model.kids[d]) \subseteq model.live /\ Range(model.charts[d]) \subseteq model.charted
        /\ \A d, e \in Docs : d # e => Range(model.charts[d]) \cap Range(model.charts[e]) = {}
    BY <1>5 DEF Healthy
  <2>2. S \subseteq Now.charted /\ Root \in Now.live
    BY <1>2, <1>4, <1>7, <2>1
  <2>3. ASSUME NEW d \in Docs
        PROVE  /\ Range(Now.kids[d]) \subseteq Now.live
               /\ Range(Now.charts[d]) \subseteq Now.charted
               /\ Range(Now.charts[d]) \subseteq Range(model.charts[d])
    <3>1. CASE d \in R
      <4>1. Now.kids[d] = model.kids[d] /\ Now.charts[d] = model.charts[d]
        BY <1>4, <3>1
      <4>. QED  BY <1>2, <1>4, <1>8, <2>1, <3>1, <4>1
    <3>2. CASE d \notin R
      <4>1. Now.kids[d] = << >> /\ Now.charts[d] = << >>
        BY <1>4, <3>2
      <4>. QED  BY <4>1, EmptyList
    <3>. QED  BY <3>1, <3>2
  <2>4. \A d, e \in Docs : d # e => Range(Now.charts[d]) \cap Range(Now.charts[e]) = {}
    BY <2>1, <2>3
  <2>. QED  BY <1>4, <2>2, <2>3, <2>4 DEF Healthy
<1>10. ASSUME NEW d \in R
       PROVE  /\ Now.type[d] = model.type[d] /\ Now.kids[d] = model.kids[d]
              /\ Now.charts[d] = model.charts[d]
              /\ \A c \in Range(model.charts[d]) : c \in Now.drawn <=> c \in model.drawn
  BY <1>2, <1>4, <1>8
<1>11. Now.drawn \cap S = model.drawn \cap S
  BY <1>4, <1>7
<1>12. \A k \in 1..index : PointsTo(stack[k]) \subseteq R /\ PointsTo(stack[k]) \subseteq Now.live
  BY <1>2, <1>4, <1>5
<1>. QED  BY <1>2, <1>4, <1>6, <1>9, <1>10, <1>11, <1>12

\* What nobody can get at may be anything, as long as it has none of the file's charts.
LEMMA Remade ==
  ASSUME TreeInv, ~astray, session \in Sessions, NEW S, NEW F, F = InTree(Start[session]), NEW ws,
         Laid(S, F, model, ws, Len(stack)), NEW R, R = Reached(model, Done),
         NEW n \in Trees, Healthy(S, n), n.kids = Now.kids, Now.live \subseteq n.live,
         \A d \in R : n.type[d] = Now.type[d] /\ n.charts[d] = Now.charts[d],
         \A c \in Now.charted : c \in n.drawn <=> c \in Now.drawn,
         n.drawn \cap S = Now.drawn \cap S,
         \A d \in Docs \ R : Range(n.charts[d]) \cap S = {}
  PROVE  \E vs : Laid(S, F, n, vs, index)
<1>1. /\ model \in Trees /\ index \in Nat /\ index <= Len(stack) /\ Len(stack) \in Nat
      /\ \A k \in 1..Len(stack) : stack[k] \in Commands
  BY LenProperties, ElementOfSeq DEF TreeInv
<1>2. /\ F \subseteq R /\ R \subseteq Docs /\ Healthy(S, Now)
      /\ \A d \in R : /\ Now.type[d] = model.type[d] /\ Now.kids[d] = model.kids[d]
                      /\ Now.charts[d] = model.charts[d]
                      /\ \A c \in Range(model.charts[d]) : c \in Now.drawn <=> c \in model.drawn
      /\ \A d \in Docs \ R : Now.kids[d] = << >> /\ Now.charts[d] = << >>
      /\ Now.drawn \cap S = model.drawn \cap S
      /\ \A k \in 1..index : PointsTo(stack[k]) \subseteq R /\ PointsTo(stack[k]) \subseteq Now.live
  BY NowIs
<1>3. /\ \A k \in Nat : ws[k] \in States
      /\ Healthy(S, model) /\ Agrees(S, model, ws[index + 1])
      /\ \A d \in F : ws[1].kids[d] = Start[session].kids[d]
      /\ \A k \in 1..(index + 1) : Tidy(F, ws[k]) /\ views[k] = ViewOf(ws[k])
      /\ \A k \in 1..index : Brings(S, ws[k], stack[k], ws[k + 1])
  <2>1. 1..(index + 1) \subseteq 1..(Len(stack) + 1) /\ 1..index \subseteq 1..Len(stack)
    BY <1>1
  <2>. QED  BY <2>1 DEF Laid
<1>4. PICK v : v = Seen(S, n)
  OBVIOUS
<1>5. v \in States /\ Agrees(S, n, v)
  BY <1>4, SeenIs
<1>6. PICK D : D = Docs \ R
  OBVIOUS
<1>7. PICK vs : vs = [k \in Nat |-> Over(ws[k], D, v)]
  OBVIOUS
<1>8. ASSUME NEW k \in Nat
      PROVE  /\ vs[k] \in States /\ vs[k].drawn = ws[k].drawn
             /\ \A d \in D : vs[k].type[d] = v.type[d] /\ vs[k].kids[d] = v.kids[d] /\ vs[k].charts[d] = v.charts[d]
             /\ \A d \in R : /\ vs[k].type[d] = ws[k].type[d] /\ vs[k].kids[d] = ws[k].kids[d]
                             /\ vs[k].charts[d] = ws[k].charts[d]
  <2>1. ws[k] \in States /\ vs[k] = Over(ws[k], D, v)
    BY <1>3, <1>7
  <2>2. /\ vs[k] \in States /\ vs[k].drawn = ws[k].drawn
        /\ \A d \in Docs : /\ vs[k].type[d] = IF d \in D THEN v.type[d] ELSE ws[k].type[d]
                           /\ vs[k].kids[d] = IF d \in D THEN v.kids[d] ELSE ws[k].kids[d]
                           /\ vs[k].charts[d] = IF d \in D THEN v.charts[d] ELSE ws[k].charts[d]
    BY <1>5, <2>1, OverIs
  <2>. QED  BY <1>2, <1>6, <2>2
<1>9. vs \in [Nat -> States]
  <2>1. vs = [k \in Nat |-> vs[k]]
    BY <1>7
  <2>. QED  BY <1>8, <2>1
<1>10. index + 1 \in Nat /\ \A k \in 1..(index + 1) : k \in Nat /\ \A i \in 1..index : i \in Nat /\ i + 1 \in Nat
  BY <1>1
<1>11. Agrees(S, n, vs[index + 1])
  <2>1. n.drawn \cap S = vs[index + 1].drawn
    BY <1>2, <1>3, <1>8, <1>10 DEF Agrees
  <2>2. ASSUME NEW d \in Docs
        PROVE  /\ n.type[d] = vs[index + 1].type[d] /\ n.kids[d] = vs[index + 1].kids[d]
               /\ Len(n.charts[d]) = Len(vs[index + 1].charts[d])
               /\ \A k \in 1..Len(vs[index + 1].charts[d]) :
                    vs[index + 1].charts[d][k] = Mark(S, n, n.charts[d][k])
    <3>1. CASE d \in D
      <4>1. /\ n.type[d] = v.type[d] /\ n.kids[d] = v.kids[d] /\ Len(n.charts[d]) = Len(v.charts[d])
            /\ \A k \in 1..Len(v.charts[d]) : v.charts[d][k] = Mark(S, n, n.charts[d][k])
        BY <1>5 DEF Agrees
      <4>. QED  BY <1>8, <1>10, <3>1, <4>1
    <3>2. CASE d \in R
      <4>. DEFINE l == model.charts[d]
                  r == ws[index + 1].charts[d]
      <4>1. /\ n.type[d] = model.type[d] /\ n.kids[d] = model.kids[d] /\ n.charts[d] = l
        BY <1>2, <3>2
      <4>2. /\ model.type[d] = ws[index + 1].type[d] /\ model.kids[d] = ws[index + 1].kids[d]
            /\ Len(l) = Len(r) /\ \A k \in 1..Len(r) : r[k] = Mark(S, model, l[k])
        BY <1>3 DEF Agrees
      <4>3. /\ vs[index + 1].type[d] = ws[index + 1].type[d] /\ vs[index + 1].kids[d] = ws[index + 1].kids[d]
            /\ vs[index + 1].charts[d] = r
        BY <1>8, <1>10, <3>2
      <4>4. ASSUME NEW c \in Range(l)  PROVE Mark(S, n, c) = Mark(S, model, c)
        <5>1. c \in Now.charted
          <6>1. Range(Now.charts[d]) \subseteq Now.charted
            BY <1>2 DEF Healthy
          <6>. QED  BY <1>2, <3>2, <6>1
        <5>2. c \in n.drawn <=> c \in model.drawn
          BY <1>2, <3>2, <5>1
        <5>3. (c \in n.drawn \ S) = (c \in model.drawn \ S)
          BY <5>2
        <5>. QED  BY <5>3, Zenon DEF Mark
      <4>5. \A k \in 1..Len(l) : l[k] \in Range(l)
        <5>1. l \in Seq(Charts)
          BY <1>1 DEF Trees
        <5>. HIDE DEF l
        <5>. QED  BY <5>1, RangeIndex
      <4>. HIDE DEF l, r
      <4>6. \A k \in 1..Len(r) : r[k] = Mark(S, n, l[k])
        BY <4>2, <4>4, <4>5
      <4>. QED  BY <4>1, <4>2, <4>3, <4>6
    <3>. QED  BY <1>6, <3>1, <3>2
  <2>. QED  BY <2>1, <2>2 DEF Agrees
<1>12. ASSUME NEW k \in 1..(index + 1)
       PROVE  Tidy(F, vs[k]) /\ views[k] = ViewOf(vs[k])
  <2>0. k \in Nat
    BY <1>10
  <2>1. Tidy(F, vs[k])
    <3>. SUFFICES ASSUME NEW d \in Docs
                  PROVE  /\ NoRepeat(vs[k].kids[d]) /\ (vs[k].kids[d] = << >> \/ vs[k].charts[d] = << >>)
                         /\ d \notin F => \A i \in 1..Len(vs[k].charts[d]) : vs[k].charts[d][i][1] = {}
      BY DEF Tidy
    <3>1. CASE d \in R
      <4>1. vs[k].kids[d] = ws[k].kids[d] /\ vs[k].charts[d] = ws[k].charts[d]
        BY <1>8, <2>0, <3>1
      <4>. QED  BY <1>3, <4>1 DEF Tidy
    <3>2. CASE d \in D
      <4>1. /\ vs[k].kids[d] = v.kids[d] /\ vs[k].charts[d] = v.charts[d]
        BY <1>8, <2>0, <3>2
      <4>2. /\ v.kids[d] = n.kids[d] /\ Len(v.charts[d]) = Len(n.charts[d])
            /\ \A i \in 1..Len(v.charts[d]) : v.charts[d][i] = Mark(S, n, n.charts[d][i])
        BY <1>5 DEF Agrees
      <4>3. v.kids[d] = << >>
        BY <1>2, <1>6, <3>2, <4>2
      <4>4. ASSUME NEW i \in 1..Len(v.charts[d])  PROVE v.charts[d][i][1] = {}
        <5>1. n.charts[d] \in Seq(Charts)
          BY DEF Trees
        <5>2. n.charts[d][i] \in Range(n.charts[d])
          BY <4>2, <5>1, RangeIndex
        <5>3. {n.charts[d][i]} \cap S = {}
          BY <1>6, <3>2, <5>2
        <5>4. v.charts[d][i] = Mark(S, n, n.charts[d][i])
          BY <4>2
        <5>. QED  BY <5>3, <5>4 DEF Mark
      <4>. QED  BY <4>1, <4>3, <4>4, EmptyList
    <3>. QED  BY <1>6, <3>1, <3>2
  <2>2. ViewOf(vs[k]) = ViewOf(ws[k])
    <3>1. InTree(ws[k]) \subseteq R
      <4>1. \A d \in R : Range(ws[k].kids[d]) \subseteq R
        BY ReachedAlong
      <4>2. Root \in R /\ R \in SUBSET Docs
        <5>1. F \subseteq R /\ Root \in F
          <6>1. Start[session] \in Trees /\ Root \in Docs
            BY MscDocumentsAssumption
          <6>. QED  BY <1>2, <6>1, UnderIs DEF InTree
        <5>. QED  BY <1>2, <5>1
      <4>. QED  BY <4>1, <4>2, TreeWithin
    <3>2. /\ vs[k] \in States /\ ws[k] \in States /\ vs[k].drawn = ws[k].drawn
          /\ \A d \in InTree(ws[k]) : /\ vs[k].type[d] = ws[k].type[d] /\ vs[k].kids[d] = ws[k].kids[d]
                                      /\ vs[k].charts[d] = ws[k].charts[d]
      BY <1>3, <1>8, <2>0, <3>1
    <3>. QED  BY <3>2, SameView
  <2>. QED  BY <1>3, <2>1, <2>2
<1>13. ASSUME NEW k \in 1..index
       PROVE  Brings(S, vs[k], stack[k], vs[k + 1]) /\ PointsTo(stack[k]) \subseteq n.live
  <2>1. k \in Nat /\ k + 1 \in Nat /\ k \in 1..Len(stack)
    BY <1>1
  <2>2. PICK P, Q, A, B, c : P = ws[k] /\ Q = ws[k + 1] /\ A = vs[k] /\ B = vs[k + 1] /\ c = stack[k]
    OBVIOUS
  <2>3. P \in States /\ Q \in States /\ A \in States /\ B \in States
    BY <1>3, <1>8, <2>1, <2>2
  <2>4. c \in Commands /\ Brings(S, P, c, Q) /\ PointsTo(c) \cap D = {} /\ D \in SUBSET Docs
    BY <1>1, <1>2, <1>3, <1>6, <2>1, <2>2
  <2>5. A.drawn = P.drawn /\ B.drawn = Q.drawn
    BY <1>8, <2>1, <2>2
  <2>6. \A q \in D : A.type[q] = B.type[q] /\ A.kids[q] = B.kids[q] /\ A.charts[q] = B.charts[q]
    BY <1>8, <2>1, <2>2
  <2>7. \A q \in Docs \ D : A.type[q] = P.type[q] /\ A.kids[q] = P.kids[q] /\ A.charts[q] = P.charts[q]
    BY <1>6, <1>8, <2>1, <2>2
  <2>8. \A q \in Docs \ D : B.type[q] = Q.type[q] /\ B.kids[q] = Q.kids[q] /\ B.charts[q] = Q.charts[q]
    BY <1>6, <1>8, <2>1, <2>2
  <2>9. Brings(S, A, c, B)
    BY <2>3, <2>4, <2>5, <2>6, <2>7, <2>8, BringsElsewhere
  <2>. QED  BY <1>2, <2>2, <2>9
<1>14. \A d \in F : vs[1].kids[d] = Start[session].kids[d]
  <2>1. 1 \in Nat
    OBVIOUS
  <2>. QED  BY <1>2, <1>3, <1>8, <2>1
<1>. QED  BY <1>9, <1>11, <1>12, <1>13, <1>14 DEF Laid
-------------------------------------------------------------------------------
(* Each step keeps the invariant.                                               *)

LEMMA FileExact ==
  ASSUME NEW m \in Trees, IsFile(m), Unmixed(m), NEW S, S = m.charted, NEW F, F = InTree(m)
  PROVE  Healthy(S, m) /\ Tidy(F, Seen(S, m))
<1>1. /\ m.live = F /\ m.charted = UNION {Range(m.charts[d]) : d \in F}
      /\ \A d \in F : /\ NoRepeat(m.kids[d])
                      /\ \A e \in F \ {d} : Range(m.charts[d]) \cap Range(m.charts[e]) = {}
      /\ \A d \in Docs \ F : m.kids[d] = << >> /\ m.charts[d] = << >>
  BY DEF IsFile
<1>2. Root \in F /\ F \subseteq Docs /\ \A d \in F : Range(m.kids[d]) \subseteq F
  BY NobodyIsNoDoc, UnderIs DEF InTree
<1>3. Healthy(S, m)
  <2>1. \A d \in Docs : Range(m.kids[d]) \subseteq m.live
    <3>. SUFFICES ASSUME NEW d \in Docs  PROVE Range(m.kids[d]) \subseteq m.live
      OBVIOUS
    <3>1. CASE d \in F
      BY <1>1, <1>2, <3>1
    <3>2. CASE d \notin F
      BY <1>1, <3>2, EmptyList
    <3>. QED  BY <3>1, <3>2
  <2>2. \A d \in Docs : Range(m.charts[d]) \subseteq m.charted
    <3>. SUFFICES ASSUME NEW d \in Docs  PROVE Range(m.charts[d]) \subseteq m.charted
      OBVIOUS
    <3>1. CASE d \in F
      BY <1>1, <3>1
    <3>2. CASE d \notin F
      BY <1>1, <3>2, EmptyList
    <3>. QED  BY <3>1, <3>2
  <2>3. ASSUME NEW d \in Docs, NEW e \in Docs, d # e
        PROVE  Range(m.charts[d]) \cap Range(m.charts[e]) = {}
    <3>1. CASE d \in F /\ e \in F
      BY <1>1, <2>3, <3>1
    <3>2. CASE d \notin F
      BY <1>1, <3>2, EmptyList
    <3>3. CASE e \notin F
      BY <1>1, <3>3, EmptyList
    <3>. QED  BY <3>1, <3>2, <3>3
  <2>. QED  BY <1>1, <1>2, <2>1, <2>2, <2>3 DEF Healthy
<1>4. Seen(S, m) \in States /\ Agrees(S, m, Seen(S, m))
  BY SeenIs
<1>5. Tidy(F, Seen(S, m))
  <2>. DEFINE w == Seen(S, m)
  <2>. SUFFICES ASSUME NEW d \in Docs
                PROVE  /\ NoRepeat(w.kids[d]) /\ (w.kids[d] = << >> \/ w.charts[d] = << >>)
                       /\ d \notin F => \A k \in 1..Len(w.charts[d]) : w.charts[d][k][1] = {}
    BY DEF Tidy
  <2>1. w \in States /\ Agrees(S, m, w)
    BY <1>4
  <2>. HIDE DEF w
  <2>2. m.kids[d] = w.kids[d] /\ (m.charts[d] = << >> <=> w.charts[d] = << >>)
    BY <1>3, <2>1, AgreesThere
  <2>3. m.kids[d] = << >> \/ m.charts[d] = << >>
    BY DEF Unmixed
  <2>4. CASE d \in F
    BY <1>1, <2>2, <2>3, <2>4
  <2>5. CASE d \notin F
    <3>1. w.kids[d] = << >> /\ w.charts[d] = << >>
      BY <1>1, <2>2, <2>5
    <3>. QED  BY <3>1, EmptyList
  <2>. QED  BY <2>4, <2>5
<1>. QED  BY <1>3, <1>5

LEMMA InitExact == Init => ExactInv
<1>. SUFFICES ASSUME Init, Exact  PROVE ExactInv
  BY DEF ExactInv
<1>1. PICK m : m = model
  OBVIOUS
<1>2. /\ m \in Trees /\ IsFile(m) /\ Unmixed(m) /\ m = Start[session]
      /\ stack = << >> /\ index = 0 /\ ~astray /\ views = <<View(m)>>
  BY <1>1, MscDocumentsAssumption DEF Init, Exact
<1>3. PICK S, F, w : S = m.charted /\ F = InTree(m) /\ w = Seen(S, m)
  OBVIOUS
<1>4. Healthy(S, m) /\ Tidy(F, w) /\ w \in States /\ Agrees(S, m, w)
  BY <1>2, <1>3, FileExact, SeenIs
<1>5. View(m) = ViewOf(w)
  BY <1>2, <1>4, ViewIs
<1>6. /\ views \in Seq(Views) /\ Len(views) = 1 /\ views[1] = ViewOf(w)
  <2>1. ViewOf(w) \in Views
    BY <1>4 DEF Views
  <2>. QED  BY <1>2, <1>5, <2>1
<1>7. PICK ws : ws = [k \in Nat |-> w]
  OBVIOUS
<1>8. ws \in [Nat -> States] /\ \A k \in Nat : ws[k] = w
  BY <1>4, <1>7
<1>9. Len(stack) = 0 /\ 1 \in Nat /\ index + 1 = 1
  BY <1>2
<1>10. ws[index + 1] = w /\ ws[1] = w
  BY <1>8, <1>9
<1>11. \A d \in F : w.kids[d] = Start[session].kids[d]
  BY <1>2, <1>3 DEF Seen
<1>12. LaidOut(S, F, ws)
  <2>1. \A k \in 1..(Len(stack) + 1) : Tidy(F, ws[k]) /\ views[k] = ViewOf(ws[k])
    BY <1>4, <1>6, <1>9, <1>10
  <2>2. \A k \in 1..Len(stack) : Brings(S, ws[k], stack[k], ws[k + 1]) /\ PointsTo(stack[k]) \subseteq m.live
    BY <1>9
  <2>. QED  BY <1>1, <1>4, <1>8, <1>10, <1>11, <2>1, <2>2 DEF LaidOut, Laid
<1>. QED  BY <1>2, <1>3, <1>6, <1>9, <1>12 DEF ExactInv

LEMMA NotingSame ==
  ASSUME NEW m, NEW c \in Commands, c.kind = "type" /\ MakesChart(m, c) => c.made
  PROVE  Noting(m, c) = c
<1>1. CASE c.kind = "type" /\ MakesChart(m, c)
  <2>1. c \in [kind : {"type"}, doc : Docs, old : Types, new : Types, made : BOOLEAN]
    BY <1>1 DEF Commands
  <2>2. c.made = TRUE
    BY <1>1, <2>1
  <2>3. [c EXCEPT !.made = TRUE] = c
    BY <2>1, <2>2
  <2>. QED  BY <1>1, <2>3 DEF Noting
<1>2. CASE ~(c.kind = "type" /\ MakesChart(m, c))
  BY <1>2 DEF Noting
<1>. QED  BY <1>1, <1>2

\* An undo.
LEMMA UndoOneExact ==
  ASSUME TreeInv, ExactInv, UndoOne, session' = session
  PROVE  ExactInv'
<1>. SUFFICES ASSUME Exact  PROVE ExactInv'
  BY DEF ExactInv, Exact
<1>1. PICK S, F, ws : S = Start[session].charted /\ F = InTree(Start[session]) /\ LaidOut(S, F, ws)
  BY DEF ExactInv
<1>2. ~astray /\ views \in Seq(Views) /\ Len(views) = Len(stack) + 1
  BY DEF ExactInv
<1>3. /\ model \in Trees /\ index \in Nat /\ index <= Len(stack) /\ Len(stack) \in Nat
      /\ \A k \in 1..Len(stack) : stack[k] \in Commands
  BY <1>2, LenProperties, ElementOfSeq DEF TreeInv
<1>4. /\ index > 0 /\ index' = index - 1 /\ stack' = stack /\ views' = views
      /\ astray' = ~(PointsTo(stack[index]) \subseteq model.live)
  BY <1>2 DEF UndoOne
<1>5. PICK m, r, P, Q, c : m = model /\ r = model' /\ P = ws[index] /\ Q = ws[index + 1] /\ c = stack[index]
  OBVIOUS
<1>6. r = Undo(m, c)
  BY <1>5 DEF UndoOne
<1>7. index \in 1..Len(stack) /\ index \in Nat /\ index + 1 \in Nat /\ index \in 1..(Len(stack) + 1)
  BY <1>3, <1>4
<1>8. /\ ws \in [Nat -> States]
      /\ \A k \in 1..(Len(stack) + 1) : Tidy(F, ws[k]) /\ views[k] = ViewOf(ws[k])
      /\ \A k \in 1..Len(stack) : Brings(S, ws[k], stack[k], ws[k + 1]) /\ PointsTo(stack[k]) \subseteq m.live
      /\ \A d \in F : ws[1].kids[d] = Start[session].kids[d]
      /\ Healthy(S, m) /\ Agrees(S, m, Q)
  BY <1>1, <1>5 DEF LaidOut, Laid
<1>9. /\ P \in States /\ Q \in States /\ c \in Commands /\ Brings(S, P, c, Q) /\ PointsTo(c) \subseteq m.live
      /\ Tidy(F, P)
  BY <1>3, <1>5, <1>7, <1>8
<1>10. \A q \in Docs : NoRepeat(P.kids[q])
  BY <1>9 DEF Tidy
<1>11. Healthy(S, r) /\ Agrees(S, r, P) /\ r.live = m.live
  BY <1>6, <1>8, <1>9, <1>10, UndoExact
<1>12. ~astray'
  BY <1>4, <1>5, <1>9
<1>13. index' + 1 = index
  BY <1>4, <1>7
<1>14. LaidOut(S, F, ws)'
  BY <1>4, <1>5, <1>8, <1>11, <1>13 DEF LaidOut, Laid
<1>. QED  BY <1>1, <1>2, <1>4, <1>12, <1>14 DEF ExactInv

\* A redo.
LEMMA RedoOneExact ==
  ASSUME TreeInv, ExactInv, RedoOne, session' = session
  PROVE  ExactInv'
<1>. SUFFICES ASSUME Exact  PROVE ExactInv'
  BY DEF ExactInv, Exact
<1>1. PICK S, F, ws : S = Start[session].charted /\ F = InTree(Start[session]) /\ LaidOut(S, F, ws)
  BY DEF ExactInv
<1>2. ~astray /\ views \in Seq(Views) /\ Len(views) = Len(stack) + 1
  BY DEF ExactInv
<1>3. /\ model \in Trees /\ index \in Nat /\ index <= Len(stack) /\ Len(stack) \in Nat
      /\ stack \in Seq(Commands) /\ \A k \in 1..Len(stack) : stack[k] \in Commands
  BY <1>2, LenProperties, ElementOfSeq DEF TreeInv
<1>4. /\ index < Len(stack) /\ index' = index + 1 /\ views' = views
      /\ stack' = [stack EXCEPT ![index + 1] = Noting(model, stack[index + 1])]
      /\ ~Misses(model, stack[index + 1]) => ~astray'
      /\ Supplied(model, Known(stack)) /\ model' = Redo(model, stack[index + 1], Known(stack))
  BY <1>2 DEF RedoOne
<1>5. PICK m, r, P, Q, c, known : /\ m = model /\ r = model' /\ P = ws[index + 1] /\ Q = ws[index + 2]
                                  /\ c = stack[index + 1] /\ known = Known(stack)
  OBVIOUS
<1>6. r = Redo(m, c, known) /\ Supplied(m, known)
  BY <1>4, <1>5
<1>7. /\ index + 1 \in 1..Len(stack) /\ index + 1 \in Nat /\ index + 2 \in Nat
      /\ index + 1 + 1 = index + 2 /\ index + 1 \in 1..(Len(stack) + 1)
  BY <1>3, <1>4
<1>8. /\ ws \in [Nat -> States]
      /\ \A k \in 1..(Len(stack) + 1) : Tidy(F, ws[k]) /\ views[k] = ViewOf(ws[k])
      /\ \A k \in 1..Len(stack) : Brings(S, ws[k], stack[k], ws[k + 1]) /\ PointsTo(stack[k]) \subseteq m.live
      /\ \A d \in F : ws[1].kids[d] = Start[session].kids[d]
      /\ Healthy(S, m) /\ Agrees(S, m, P)
  BY <1>1, <1>5 DEF LaidOut, Laid
<1>9. P \in States /\ Q \in States /\ c \in Commands /\ PointsTo(c) \subseteq m.live /\ Tidy(F, P)
  BY <1>3, <1>5, <1>7, <1>8
<1>10. Brings(S, P, c, Q)
  <2>1. Brings(S, ws[index + 1], stack[index + 1], ws[index + 1 + 1])
    BY <1>7, <1>8
  <2>. QED  BY <1>5, <1>7, <2>1
<1>11. Healthy(S, r) /\ Agrees(S, r, Q) /\ r.live = m.live /\ ~Misses(m, c)
  BY <1>6, <1>8, <1>9, <1>10, RedoExact
<1>12. c.kind = "type" => (MakesChart(m, c) <=> MakesChart(P, c))
  BY <1>6, <1>8, <1>9, <1>10, RedoExact
<1>13. Noting(m, c) = c
  <2>1. c.kind = "type" => (c.made <=> MakesChart(P, c))
    BY <1>10 DEF Brings, BringsType
  <2>. QED  BY <1>9, <1>12, <2>1, NotingSame
<1>14. stack' = stack
  BY <1>3, <1>4, <1>5, <1>13
<1>15. ~astray'
  BY <1>4, <1>5, <1>11
<1>16. LaidOut(S, F, ws)'
  BY <1>4, <1>5, <1>7, <1>8, <1>11, <1>14 DEF LaidOut, Laid
<1>. QED  BY <1>1, <1>2, <1>4, <1>14, <1>15, <1>16 DEF ExactInv

\* A list is cut and something added.
LEMMA CutAndAdded ==
  ASSUME NEW T, NEW l \in Seq(T), NEW x \in T, NEW j \in 1..Len(l)
  PROVE  LET r == Append(SubSeq(l, 1, j), x)
         IN  /\ r \in Seq(T) /\ Len(r) = j + 1 /\ r[j + 1] = x /\ \A k \in 1..j : r[k] = l[k]
<1>1. Len(l) \in Nat /\ j \in Nat /\ \A k \in 1..Len(l) : l[k] \in T
  BY LenProperties, ElementOfSeq
<1>. DEFINE s == SubSeq(l, 1, j)
<1>2. s \in Seq(T) /\ Len(s) = j /\ \A k \in 1..j : s[k] = l[k]
  <2>1. /\ 1 \in Int /\ j \in Int /\ \A k \in 1..j : l[k] \in T
    BY <1>1
  <2>2. /\ s \in Seq(T) /\ Len(s) = IF 1 <= j THEN j - 1 + 1 ELSE 0
        /\ \A k \in 1..(j - 1 + 1) : s[k] = l[1 + k - 1]
    BY <1>1, <2>1, SubSeqProperties
  <2>. QED  BY <1>1, <2>2
<1>. HIDE DEF s
<1>3. /\ Append(s, x) \in Seq(T) /\ Len(Append(s, x)) = j + 1 /\ Append(s, x)[j + 1] = x
      /\ \A k \in 1..j : Append(s, x)[k] = s[k]
  BY <1>2, AppendProperties
<1>. QED  BY <1>2, <1>3 DEF s

\* The jth command, which may take the place of one, was done.
LEMMA Pushed ==
  ASSUME ~astray', session' = session, index \in Nat, index <= Len(stack), Len(stack) \in Nat,
         views \in Seq(Views), Len(views) = Len(stack) + 1,
         NEW S, S = Start[session].charted, NEW F, F = InTree(Start[session]),
         NEW n, NEW vs, Laid(S, F, n, vs, index), NEW j \in 1..(index + 1), NEW e \in Commands,
         NEW m, NEW Q \in States,
         index' = j, Len(stack') = j, \A k \in 1..(j - 1) : stack'[k] = stack[k], stack'[j] = e,
         model' = m, views' = Append(SubSeq(views, 1, j), View(m)),
         Healthy(S, m), Agrees(S, m, Q), m.live = n.live, Brings(S, vs[j], e, Q),
         PointsTo(e) \subseteq n.live
  PROVE  ExactInv'
<1>1. /\ vs \in [Nat -> States]
      /\ \A k \in 1..(index + 1) : Tidy(F, vs[k]) /\ views[k] = ViewOf(vs[k])
      /\ \A k \in 1..index : Brings(S, vs[k], stack[k], vs[k + 1]) /\ PointsTo(stack[k]) \subseteq n.live
      /\ \A d \in F : vs[1].kids[d] = Start[session].kids[d]
  BY DEF Laid
<1>2. PICK ws : ws = [k \in Nat |-> IF k = j + 1 THEN Q ELSE vs[k]]
  OBVIOUS
<1>3. /\ ws \in [Nat -> States] /\ \A k \in Nat : ws[k] = IF k = j + 1 THEN Q ELSE vs[k]
  BY <1>1, <1>2
<1>4. j \in Nat /\ j + 1 \in Nat /\ j <= index + 1 /\ 1 <= j
  OBVIOUS
<1>5. /\ ws[j + 1] = Q /\ \A k \in 1..j : ws[k] = vs[k] /\ k \in 1..(index + 1)
  BY <1>3, <1>4
<1>6. Tidy(F, Q)
  <2>1. vs[j] \in States /\ Tidy(F, vs[j])
    BY <1>1, <1>4
  <2>. QED  BY <2>1, BringsTidy
<1>7. View(m) = ViewOf(Q)
  <2>1. m \in Trees
    BY DEF Healthy
  <2>. QED  BY <2>1, ViewIs
<1>8. /\ views' \in Seq(Views) /\ Len(views') = j + 1 /\ views'[j + 1] = ViewOf(Q)
      /\ \A k \in 1..j : views'[k] = views[k]
  <2>1. View(m) \in Views
    BY <1>7 DEF Views
  <2>2. j \in 1..Len(views)
    BY <1>4
  <2>. QED  BY <1>7, <2>1, <2>2, CutAndAdded
<1>9. ASSUME NEW k \in 1..(j + 1)
      PROVE  Tidy(F, ws[k]) /\ views'[k] = ViewOf(ws[k])
  <2>1. CASE k = j + 1
    BY <1>5, <1>6, <1>8, <2>1
  <2>2. CASE k # j + 1
    <3>1. k \in 1..j
      BY <1>4, <2>2
    <3>2. ws[k] = vs[k] /\ k \in 1..(index + 1) /\ views'[k] = views[k]
      BY <1>5, <1>8, <3>1
    <3>. QED  BY <1>1, <3>2
  <2>. QED  BY <2>1, <2>2
<1>10. ASSUME NEW k \in 1..j
       PROVE  Brings(S, ws[k], stack'[k], ws[k + 1]) /\ PointsTo(stack'[k]) \subseteq m.live
  <2>1. CASE k = j
    BY <1>4, <1>5, <2>1
  <2>2. CASE k # j
    <3>1. k \in 1..(j - 1) /\ k \in 1..index /\ k \in 1..j /\ k + 1 \in 1..j
      BY <1>4, <2>2
    <3>2. ws[k] = vs[k] /\ ws[k + 1] = vs[k + 1] /\ stack'[k] = stack[k]
      BY <1>5, <3>1
    <3>. QED  BY <1>1, <3>1, <3>2
  <2>. QED  BY <2>1, <2>2
<1>11. \A d \in F : ws[1].kids[d] = Start[session].kids[d]
  <2>1. 1 \in 1..j
    BY <1>4
  <2>. QED  BY <1>1, <1>5, <2>1
<1>12. index' + 1 = j + 1 /\ ws[index' + 1] = Q
  BY <1>5
<1>13. LaidOut(S, F, ws)'
  BY <1>3, <1>9, <1>10, <1>11, <1>12 DEF LaidOut, Laid
<1>. QED  BY <1>8, <1>13 DEF ExactInv

LEMMA NotingRedo ==
  ASSUME NEW m, NEW c \in Commands, NEW known
  PROVE  LET e == Noting(m, c)
         IN  /\ e \in Commands /\ e.kind = c.kind /\ PointsTo(e) = PointsTo(c)
             /\ Redo(m, e, known) = Redo(m, c, known) /\ (Misses(m, e) <=> Misses(m, c))
<1>. DEFINE e == Noting(m, c)
<1>1. e \in Commands /\ e.kind = c.kind /\ PointsTo(e) = PointsTo(c)
  BY NotingIs
<1>2. CASE c.kind = "type" /\ MakesChart(m, c)
  <2>1. c \in [kind : {"type"}, doc : Docs, old : Types, new : Types, made : BOOLEAN]
    BY <1>2 DEF Commands
  <2>2. e = [c EXCEPT !.made = TRUE]
    BY <1>2 DEF Noting
  <2>3. e.kind = "type" /\ e.doc = c.doc /\ e.new = c.new /\ e.old = c.old /\ e.made = TRUE
    BY <2>1, <2>2
  <2>. HIDE DEF e
  <2>4. MakesChart(m, e) <=> MakesChart(m, c)
    BY <2>3 DEF MakesChart
  <2>5. RedoType(m, e, known) = RedoType(m, c, known)
    BY <2>3, <2>4 DEF RedoType
  <2>6. Needs(e) = Needs(c)
    BY <1>2, <2>3 DEF Needs
  <2>7. Redo(m, e, known) = Redo(m, c, known)
    BY <1>2, <2>3, <2>5, <2>6 DEF Redo
  <2>8. Misses(m, e) <=> Misses(m, c)
    BY <1>1, <1>2, <2>3 DEF Misses
  <2>. QED  BY <1>1, <2>7, <2>8 DEF e
<1>3. CASE ~(c.kind = "type" /\ MakesChart(m, c))
  <2>1. e = c
    BY <1>3 DEF Noting
  <2>. HIDE DEF e
  <2>. QED  BY <2>1 DEF e
<1>. QED  BY <1>2, <1>3

\* A new command that is not merged.
LEMMA PushExact ==
  ASSUME TreeInv, ExactInv, Exact, session' = session, NEW S, S = Start[session].charted,
         NEW F, F = InTree(Start[session]), NEW n, NEW vs, Laid(S, F, n, vs, index), NEW c \in Commands,
         Push(n, c), ~Merges(c), NEW P, P = vs[index + 1], NEW Q \in States,
         Brings(S, P, Noting(n, c), Q), PointsTo(c) \subseteq n.live
  PROVE  ExactInv'
<1>1. ~astray /\ views \in Seq(Views) /\ Len(views) = Len(stack) + 1
  BY DEF ExactInv
<1>2. /\ index \in Nat /\ index <= Len(stack) /\ Len(stack) \in Nat
      /\ Done \in Seq(Commands) /\ Len(Done) = index
      /\ \A k \in 1..index : Done[k] = stack[k]
  BY <1>1, DoneIs, LenProperties DEF TreeInv
<1>3. PICK known, m, e : known = Known(Done) \cup ChartsOf(c) /\ m = Redo(n, c, known) /\ e = Noting(n, c)
  OBVIOUS
<1>4. /\ Supplied(n, known) /\ model' = m /\ stack' = Append(Done, e)
      /\ index' = Len(Append(Done, e)) /\ (~Misses(n, c) => ~astray')
      /\ views' = Append(SubSeq(views, 1, Len(Append(Done, e))), View(m))
  BY <1>1, <1>3 DEF Push
<1>5. /\ e \in Commands /\ PointsTo(e) = PointsTo(c) /\ m = Redo(n, e, known)
      /\ (Misses(n, e) <=> Misses(n, c))
  BY <1>3, NotingRedo
<1>6. /\ Len(Append(Done, e)) = index + 1 /\ Append(Done, e)[index + 1] = e
      /\ \A k \in 1..index : Append(Done, e)[k] = stack[k]
  BY <1>2, <1>5, AppendProperties
<1>7. P \in States /\ Healthy(S, n) /\ Agrees(S, n, P)
  BY <1>2 DEF Laid
<1>8. Brings(S, P, e, Q)
  BY <1>3
<1>9. Healthy(S, m) /\ Agrees(S, m, Q) /\ m.live = n.live /\ ~Misses(n, e)
  BY <1>4, <1>5, <1>7, <1>8, RedoExact
<1>10. PICK j : j = index + 1
  OBVIOUS
<1>11. /\ j \in 1..(index + 1) /\ index' = j /\ Len(stack') = j
       /\ \A k \in 1..(j - 1) : stack'[k] = stack[k]
       /\ stack'[j] = e /\ views' = Append(SubSeq(views, 1, j), View(m)) /\ ~astray'
  <2>1. j \in 1..(index + 1) /\ index' = j /\ \A k \in 1..(j - 1) : k \in 1..index
    BY <1>2, <1>4, <1>6, <1>10
  <2>2. Len(stack') = j /\ stack'[j] = e
    BY <1>4, <1>6, <1>10
  <2>3. \A k \in 1..(j - 1) : stack'[k] = stack[k]
    BY <1>4, <1>6, <2>1
  <2>4. views' = Append(SubSeq(views, 1, j), View(m))
    BY <1>4, <1>6, <1>10
  <2>5. ~astray'
    BY <1>4, <1>5, <1>9
  <2>. QED  BY <2>1, <2>2, <2>3, <2>4, <2>5
<1>12. Brings(S, vs[j], e, Q) /\ PointsTo(e) \subseteq n.live
  BY <1>5, <1>8, <1>10
<1>. QED  BY <1>1, <1>2, <1>4, <1>5, <1>9, <1>11, <1>12, Pushed
-------------------------------------------------------------------------------
(* The state that a new command leads to.                                       *)

StateOf(ty, ki, ch, dr) == [type |-> ty, kids |-> ki, charts |-> ch, drawn |-> dr]

LEMMA StateParts ==
  ASSUME NEW P \in States
  PROVE  /\ P.type \in [Docs -> Types] /\ P.kids \in [Docs -> Seq(Docs)]
         /\ P.charts \in [Docs -> Seq(Marks)] /\ P.drawn \in SUBSET Charts
BY DEF States

LEMMA CreateLeads ==
  ASSUME NEW P \in States, NEW c \in Commands, c.kind = "create",
         c.doc # c.parent, c.charts = << >>, Room(P, c.parent, c.doc),
         P.kids[c.doc] = << >>, P.charts[c.doc] = << >>, P.charts[c.parent] = << >>, NEW S
  PROVE  \E Q \in States : Brings(S, P, c, Q)
<1>1. PICK d, p : d = c.doc /\ p = c.parent
  OBVIOUS
<1>2. d \in Docs /\ p \in Docs
  BY <1>1, CommandKinds
<1>3. PICK ki : ki = [q \in Docs |-> IF q = p THEN AtEnd(P.kids[q], d) ELSE P.kids[q]]
  OBVIOUS
<1>4. PICK ch : ch = [q \in Docs |-> IF q = d /\ P.type[q] = "LEAF" THEN OneMade ELSE P.charts[q]]
  OBVIOUS
<1>5. ki \in [Docs -> Seq(Docs)]
  <2>1. AtEnd(P.kids[p], d) \in Seq(Docs)
    BY <1>2, StateParts, AtEndIs
  <2>. QED  BY <1>3, <2>1, StateParts
<1>6. ch \in [Docs -> Seq(Marks)]
  BY <1>4, StateParts, OneMadeIs
<1>7. PICK Q \in States : Q.type = P.type /\ Q.kids = ki /\ Q.charts = ch /\ Q.drawn = P.drawn
  <2>1. PICK Q : Q = StateOf(P.type, ki, ch, P.drawn)
    OBVIOUS
  <2>2. P \in States
    OBVIOUS
  <2>3. Q \in States /\ Q.type = P.type /\ Q.kids = ki /\ Q.charts = ch /\ Q.drawn = P.drawn
    BY <1>5, <1>6, <2>1, <2>2 DEF States, StateOf
  <2>. QED  BY <2>3
<1>8. \A q \in Docs :
        /\ Q.type[q] = P.type[q]
        /\ Q.kids[q] = IF q = p THEN AtEnd(P.kids[q], d) ELSE P.kids[q]
        /\ Q.charts[q] = IF q = d /\ P.type[q] = "LEAF" THEN OneMade ELSE P.charts[q]
  BY <1>3, <1>4, <1>7
<1>9. BringsCreate(P, c, Q)
  BY <1>1, <1>7, <1>8 DEF BringsCreate
<1>. QED  BY <1>9 DEF Brings

LEMMA MoveLeads ==
  ASSUME NEW P \in States, NEW c \in Commands, c.kind = "move",
         c.from # c.to, c.charts = << >>, P.charts[c.to] = << >>, Room(P, c.to, c.doc),
         GivesBack(P, c.from, c.doc), c.index = IndexOf(P.kids[c.from], c.doc), NEW S
  PROVE  \E Q \in States : Brings(S, P, c, Q)
<1>1. PICK d, from, to : d = c.doc /\ from = c.from /\ to = c.to
  OBVIOUS
<1>2. d \in Docs /\ from \in Docs /\ to \in Docs
  BY <1>1, CommandKinds
<1>3. PICK ki : ki = [q \in Docs |-> IF q = to THEN AtEnd(P.kids[q], d)
                                     ELSE IF q = from THEN RemoveAll(P.kids[q], d) ELSE P.kids[q]]
  OBVIOUS
<1>4. ki \in [Docs -> Seq(Docs)]
  <2>1. AtEnd(P.kids[to], d) \in Seq(Docs)
    BY <1>2, StateParts, AtEndIs
  <2>2. P.kids[from] \in Seq(Docs)
    BY <1>2, StateParts
  <2>3. RemoveAll(P.kids[from], d) \in Seq(Docs)
    BY <2>2, KeepOnlyProperties DEF RemoveAll
  <2>. QED  BY <1>3, <2>1, <2>3, StateParts
<1>5. PICK Q \in States : Q.type = P.type /\ Q.kids = ki /\ Q.charts = P.charts /\ Q.drawn = P.drawn
  <2>1. PICK Q : Q = StateOf(P.type, ki, P.charts, P.drawn)
    OBVIOUS
  <2>2. P \in States
    OBVIOUS
  <2>3. Q \in States /\ Q.type = P.type /\ Q.kids = ki /\ Q.charts = P.charts /\ Q.drawn = P.drawn
    BY <1>4, <2>1, <2>2 DEF States, StateOf
  <2>. QED  BY <2>3
<1>6. \A q \in Docs :
        /\ Q.type[q] = P.type[q] /\ Q.charts[q] = P.charts[q]
        /\ Q.kids[q] = IF q = to THEN AtEnd(P.kids[q], d)
                       ELSE IF q = from THEN RemoveAll(P.kids[q], d) ELSE P.kids[q]
  BY <1>3, <1>5
<1>7. BringsMove(P, c, Q)
  BY <1>1, <1>5, <1>6 DEF BringsMove
<1>. QED  BY <1>7 DEF Brings

LEMMA DeleteLeads ==
  ASSUME NEW P \in States, NEW c \in Commands, c.kind = "delete",
         GivesBack(P, c.parent, c.doc), c.index = IndexOf(P.kids[c.parent], c.doc), NEW S
  PROVE  \E Q \in States : Brings(S, P, c, Q)
<1>1. PICK d, p : d = c.doc /\ p = c.parent
  OBVIOUS
<1>2. d \in Docs /\ p \in Docs
  BY <1>1, CommandKinds
<1>3. PICK l : l = RemoveAll(P.kids[p], d)
  OBVIOUS
<1>4. l \in Seq(Docs)
  <2>1. P.kids[p] \in Seq(Docs)
    BY <1>2, StateParts
  <2>. QED  BY <1>3, <2>1, KeepOnlyProperties DEF RemoveAll
<1>5. PICK ki : ki = [q \in Docs |-> IF q = p THEN l ELSE P.kids[q]]
  OBVIOUS
<1>6. PICK ch : ch = [q \in Docs |-> IF q = p /\ l = << >> THEN OneMade ELSE P.charts[q]]
  OBVIOUS
<1>7. ki \in [Docs -> Seq(Docs)] /\ ch \in [Docs -> Seq(Marks)]
  BY <1>4, <1>5, <1>6, StateParts, OneMadeIs
<1>8. PICK Q \in States : Q.type = P.type /\ Q.kids = ki /\ Q.charts = ch /\ Q.drawn = P.drawn
  <2>1. PICK Q : Q = StateOf(P.type, ki, ch, P.drawn)
    OBVIOUS
  <2>2. P \in States
    OBVIOUS
  <2>3. Q \in States /\ Q.type = P.type /\ Q.kids = ki /\ Q.charts = ch /\ Q.drawn = P.drawn
    BY <1>7, <2>1, <2>2 DEF States, StateOf
  <2>. QED  BY <2>3
<1>9. \A q \in Docs :
        /\ Q.type[q] = P.type[q]
        /\ Q.kids[q] = IF q = p THEN RemoveAll(P.kids[q], d) ELSE P.kids[q]
        /\ Q.charts[q] = IF q = p /\ RemoveAll(P.kids[q], d) = << >> THEN OneMade ELSE P.charts[q]
  BY <1>3, <1>5, <1>6, <1>8
<1>10. BringsDelete(P, c, Q)
  BY <1>1, <1>8, <1>9 DEF BringsDelete
<1>. QED  BY <1>10 DEF Brings

LEMMA TypeLeads ==
  ASSUME NEW P \in States, NEW c \in Commands, c.kind = "type",
         c.old = P.type[c.doc], c.made <=> MakesChart(P, c), NEW S
  PROVE  \E Q \in States : Brings(S, P, c, Q)
<1>1. PICK d, t : d = c.doc /\ t = c.new
  OBVIOUS
<1>2. d \in Docs /\ t \in Types
  <2>1. c \in [kind : {"type"}, doc : Docs, old : Types, new : Types, made : BOOLEAN]
    BY DEF Commands
  <2>. QED  BY <1>1, <2>1
<1>3. PICK ty : ty = [q \in Docs |-> IF q = d THEN t ELSE P.type[q]]
  OBVIOUS
<1>4. PICK ch : ch = [q \in Docs |-> IF q = d /\ MakesChart(P, c) THEN OneMade ELSE P.charts[q]]
  OBVIOUS
<1>5. ty \in [Docs -> Types] /\ ch \in [Docs -> Seq(Marks)]
  BY <1>2, <1>3, <1>4, StateParts, OneMadeIs
<1>6. PICK Q \in States : Q.type = ty /\ Q.kids = P.kids /\ Q.charts = ch /\ Q.drawn = P.drawn
  <2>1. PICK Q : Q = StateOf(ty, P.kids, ch, P.drawn)
    OBVIOUS
  <2>2. P \in States
    OBVIOUS
  <2>3. Q \in States /\ Q.type = ty /\ Q.kids = P.kids /\ Q.charts = ch /\ Q.drawn = P.drawn
    BY <1>5, <2>1, <2>2 DEF States, StateOf
  <2>. QED  BY <2>3
<1>7. \A q \in Docs :
        /\ Q.kids[q] = P.kids[q]
        /\ Q.type[q] = IF q = d THEN t ELSE P.type[q]
        /\ Q.charts[q] = IF q = d /\ MakesChart(P, c) THEN OneMade ELSE P.charts[q]
  BY <1>3, <1>4, <1>6
<1>8. BringsType(P, c, Q)
  BY <1>1, <1>6, <1>7 DEF BringsType
<1>. QED  BY <1>8 DEF Brings

LEMMA PasteLeads ==
  ASSUME NEW P \in States, NEW c \in Commands, c.kind = "paste",
         c.doc # c.parent, c.doc \notin Range(P.kids[c.parent]), P.kids[c.parent] # << >>, NEW S
  PROVE  \E Q \in States : Brings(S, P, c, Q)
<1>1. PICK d, p : d = c.doc /\ p = c.parent
  OBVIOUS
<1>2. d \in Docs /\ p \in Docs
  BY <1>1, CommandKinds
<1>3. PICK ki : ki = [q \in Docs |-> IF q = p /\ ChildAllowed(P, q) THEN AtEnd(P.kids[q], d) ELSE P.kids[q]]
  OBVIOUS
<1>4. ki \in [Docs -> Seq(Docs)]
  <2>1. AtEnd(P.kids[p], d) \in Seq(Docs)
    BY <1>2, StateParts, AtEndIs
  <2>. QED  BY <1>3, <2>1, StateParts
<1>5. PICK Q \in States : Q.type = P.type /\ Q.kids = ki /\ Q.charts = P.charts /\ Q.drawn = P.drawn
  <2>1. PICK Q : Q = StateOf(P.type, ki, P.charts, P.drawn)
    OBVIOUS
  <2>2. P \in States
    OBVIOUS
  <2>3. Q \in States /\ Q.type = P.type /\ Q.kids = ki /\ Q.charts = P.charts /\ Q.drawn = P.drawn
    BY <1>4, <2>1, <2>2 DEF States, StateOf
  <2>. QED  BY <2>3
<1>6. \A q \in Docs :
        /\ Q.type[q] = P.type[q] /\ Q.charts[q] = P.charts[q]
        /\ Q.kids[q] = IF q = p /\ ChildAllowed(P, q) THEN AtEnd(P.kids[q], d) ELSE P.kids[q]
  BY <1>3, <1>5
<1>7. BringsPaste(P, c, Q)
  BY <1>1, <1>5, <1>6 DEF BringsPaste
<1>. QED  BY <1>7 DEF Brings

LEMMA DrawLeads ==
  ASSUME NEW P \in States, NEW c \in Commands, c.kind = "draw", NEW S, c.chart \in S \ P.drawn
  PROVE  \E Q \in States : Brings(S, P, c, Q)
<1>1. PICK k : k = c.chart
  OBVIOUS
<1>2. k \in Charts
  <2>1. c \in [kind : {"draw"}, chart : Charts]
    BY DEF Commands
  <2>. QED  BY <1>1, <2>1
<1>3. P.drawn \cup {k} \in SUBSET Charts
  BY <1>2, StateParts
<1>4. PICK Q \in States : Q.type = P.type /\ Q.kids = P.kids /\ Q.charts = P.charts /\ Q.drawn = P.drawn \cup {k}
  <2>1. PICK Q : Q = StateOf(P.type, P.kids, P.charts, P.drawn \cup {k})
    OBVIOUS
  <2>2. P \in States
    OBVIOUS
  <2>3. Q \in States /\ Q.type = P.type /\ Q.kids = P.kids /\ Q.charts = P.charts /\ Q.drawn = P.drawn \cup {k}
    BY <1>3, <2>1, <2>2 DEF States, StateOf
  <2>. QED  BY <2>3
<1>5. BringsDraw(S, P, c, Q)
  BY <1>1, <1>4 DEF BringsDraw
<1>. QED  BY <1>5 DEF Brings
-------------------------------------------------------------------------------
(* What a new command begins with, in an exact session.                         *)

LEMMA ExactBegin ==
  ASSUME TreeInv, ExactInv, Exact, NEW S, S = Start[session].charted, NEW F, F = InTree(Start[session]),
         NEW R, R = Reached(model, Done)
  PROVE  /\ ~astray /\ session \in Sessions /\ model \in Trees
         /\ \E ws : Laid(S, F, model, ws, Len(stack))
         /\ InTree(model) \subseteq R /\ R \subseteq Docs /\ F \subseteq R
         /\ Now \in Trees /\ Healthy(S, Now) /\ InTree(model) \subseteq Now.live
         /\ \A d \in R : /\ Now.type[d] = model.type[d] /\ Now.kids[d] = model.kids[d]
                         /\ Now.charts[d] = model.charts[d]
                         /\ \A c \in Range(model.charts[d]) : c \in Now.drawn <=> c \in model.drawn
         /\ \A d \in Docs \ R : Now.kids[d] = << >> /\ Now.charts[d] = << >>
<1>1. PICK ws : Laid(S, F, model, ws, Len(stack))
  BY DEF ExactInv, LaidOut
<1>2. ~astray /\ session \in Sessions
  BY MscDocumentsAssumption DEF ExactInv, Exact
<1>3. /\ model \in Trees
      /\ DOMAIN Done = 1..index /\ \A k \in 1..index : Done[k] = stack[k] /\ Done[k] \in Commands
  BY <1>2, DoneIs DEF TreeInv
<1>4. InTree(model) \subseteq R
  BY <1>3, ReachedIs
<1>5. /\ F \subseteq R /\ R \subseteq Docs /\ Healthy(S, Now)
      /\ \A d \in R : /\ Now.type[d] = model.type[d] /\ Now.kids[d] = model.kids[d]
                      /\ Now.charts[d] = model.charts[d]
                      /\ \A c \in Range(model.charts[d]) : c \in Now.drawn <=> c \in model.drawn
      /\ \A d \in Docs \ R : Now.kids[d] = << >> /\ Now.charts[d] = << >>
  BY <1>1, <1>2, NowIs
<1>6. Now \in Trees /\ Root \in Now.live /\ \A d \in Docs : Range(Now.kids[d]) \subseteq Now.live
  BY <1>5 DEF Healthy
<1>7. ASSUME NEW d \in InTree(model)
      PROVE  d \in Now.live
  <2>1. CASE d = Root
    BY <1>6, <2>1
  <2>2. CASE d # Root
    <3>1. PICK q \in InTree(model) : d \in Range(model.kids[q])
      BY <1>3, <2>2, NobodyIsNoDoc, UnderIs DEF InTree
    <3>2. Now.kids[q] = model.kids[q] /\ q \in Docs
      BY <1>4, <1>5
    <3>. QED  BY <1>6, <3>1, <3>2
  <2>. QED  BY <2>1, <2>2
<1>. QED  BY <1>1, <1>2, <1>3, <1>4, <1>5, <1>6, <1>7

LEMMA NowLaid ==
  ASSUME TreeInv, ExactInv, Exact, NEW S, S = Start[session].charted, NEW F, F = InTree(Start[session])
  PROVE  \E vs : Laid(S, F, Now, vs, index)
<1>1. PICK R : R = Reached(model, Done)
  OBVIOUS
<1>2. /\ ~astray /\ session \in Sessions /\ Now \in Trees /\ Healthy(S, Now)
      /\ \A d \in Docs \ R : Now.charts[d] = << >>
      /\ \E ws : Laid(S, F, model, ws, Len(stack))
  BY <1>1, ExactBegin
<1>3. PICK ws : Laid(S, F, model, ws, Len(stack))
  BY <1>2
<1>4. \A d \in Docs \ R : Range(Now.charts[d]) \cap S = {}
  BY <1>2, EmptyList
<1>5. PICK n : n = Now
  OBVIOUS
<1>6. /\ n \in Trees /\ Healthy(S, n) /\ n.kids = Now.kids /\ Now.live \subseteq n.live
      /\ \A d \in R : n.type[d] = Now.type[d] /\ n.charts[d] = Now.charts[d]
      /\ \A c \in Now.charted : c \in n.drawn <=> c \in Now.drawn
      /\ n.drawn \cap S = Now.drawn \cap S
      /\ \A d \in Docs \ R : Range(n.charts[d]) \cap S = {}
  BY <1>2, <1>4, <1>5
<1>7. \E vs : Laid(S, F, n, vs, index)
  BY <1>1, <1>2, <1>3, <1>6, Remade
<1>. QED  BY <1>5, <1>7

\* A new document, of which the charts K, if any, are new.
LEMMA NewDocLaid ==
  ASSUME TreeInv, ExactInv, Exact, NEW S, S = Start[session].charted, NEW F, F = InTree(Start[session]),
         NEW d \in Spare, NEW n \in Trees, n.kids = Now.kids, n.live = Now.live \cup {d},
         NEW K, n.charted = Now.charted \cup K, n.drawn = Now.drawn \cup K, K \cap Now.charted = {},
         \A q \in Docs \ {d} : n.type[q] = Now.type[q] /\ n.charts[q] = Now.charts[q],
         Range(n.charts[d]) = K
  PROVE  Healthy(S, n) /\ \E vs : Laid(S, F, n, vs, index)
<1>1. PICK R : R = Reached(model, Done)
  OBVIOUS
<1>2. /\ ~astray /\ session \in Sessions /\ Now \in Trees /\ Healthy(S, Now) /\ R \subseteq Docs
      /\ \A q \in Docs \ R : Now.charts[q] = << >>
      /\ \E ws : Laid(S, F, model, ws, Len(stack))
  BY <1>1, ExactBegin
<1>3. PICK ws : Laid(S, F, model, ws, Len(stack))
  BY <1>2
<1>4. d \in Docs /\ d \notin R
  BY <1>1 DEF Spare
<1>5. /\ Root \in Now.live /\ S \subseteq Now.charted
      /\ \A q \in Docs : Range(Now.kids[q]) \subseteq Now.live /\ Range(Now.charts[q]) \subseteq Now.charted
      /\ \A q, e \in Docs : q # e => Range(Now.charts[q]) \cap Range(Now.charts[e]) = {}
  BY <1>2 DEF Healthy
<1>6. Healthy(S, n)
  <2>1. \A q \in Docs : Range(n.kids[q]) \subseteq n.live /\ Range(n.charts[q]) \subseteq n.charted
    BY <1>5
  <2>2. ASSUME NEW q \in Docs, NEW e \in Docs, q # e
        PROVE  Range(n.charts[q]) \cap Range(n.charts[e]) = {}
    <3>1. CASE q = d
      BY <1>5, <2>2, <3>1
    <3>2. CASE e = d
      BY <1>5, <2>2, <3>2
    <3>3. CASE q # d /\ e # d
      BY <1>5, <2>2, <3>3
    <3>. QED  BY <3>1, <3>2, <3>3
  <2>. QED  BY <1>5, <2>1, <2>2 DEF Healthy
<1>7. K \cap S = {}
  BY <1>5
<1>8. \A q \in Docs \ R : Range(n.charts[q]) \cap S = {}
  <2>. SUFFICES ASSUME NEW q \in Docs \ R  PROVE Range(n.charts[q]) \cap S = {}
    OBVIOUS
  <2>1. CASE q = d
    BY <1>7, <2>1
  <2>2. CASE q # d
    <3>1. n.charts[q] = << >>
      BY <1>2, <2>2
    <3>. QED  BY <3>1, EmptyList
  <2>. QED  BY <2>1, <2>2
<1>9. /\ Now.live \subseteq n.live
      /\ \A q \in R : n.type[q] = Now.type[q] /\ n.charts[q] = Now.charts[q]
      /\ \A c \in Now.charted : c \in n.drawn <=> c \in Now.drawn
  BY <1>2, <1>4
<1>10. n.drawn \cap S = Now.drawn \cap S
  BY <1>7
<1>11. \E vs : Laid(S, F, n, vs, index)
  BY <1>1, <1>2, <1>3, <1>6, <1>8, <1>9, <1>10, Remade
<1>. QED  BY <1>6, <1>11
-------------------------------------------------------------------------------
(* The new commands of an exact session.                                        *)

\* A command that is none of a type change leads from the state before to another.
LEMMA PlainExact ==
  ASSUME TreeInv, ExactInv, Exact, session' = session, NEW S, S = Start[session].charted,
         NEW F, F = InTree(Start[session]), NEW n, NEW vs, Laid(S, F, n, vs, index), NEW c \in Commands,
         Push(n, c), c.kind # "type", NEW P, P = vs[index + 1],
         \E Q \in States : Brings(S, P, c, Q), PointsTo(c) \subseteq n.live
  PROVE  ExactInv'
<1>1. Noting(n, c) = c
  BY NotingSame
<1>2. ~Merges(c)
  BY DEF Merges
<1>3. PICK Q \in States : Brings(S, P, c, Q)
  OBVIOUS
<1>4. Brings(S, P, Noting(n, c), Q)
  BY <1>1, <1>3
<1>. QED  BY <1>2, <1>4, PushExact

LEMMA LaidHere ==
  ASSUME index \in Nat, NEW S, NEW F, NEW n, NEW vs, Laid(S, F, n, vs, index), NEW P, P = vs[index + 1]
  PROVE  P \in States /\ Healthy(S, n) /\ Agrees(S, n, P) /\ Tidy(F, P)
<1>1. index + 1 \in Nat /\ index + 1 \in 1..(index + 1)
  OBVIOUS
<1>. QED  BY <1>1 DEF Laid

LEMMA CreateExact ==
  ASSUME TreeInv, ExactInv, Create, session' = session
  PROVE  ExactInv'
<1>. SUFFICES ASSUME Exact  PROVE ExactInv'
  BY DEF ExactInv, Exact
<1>1. PICK p \in InTree(model), d \in Spare, t \in Types :
        /\ ChildAllowed(model, p) /\ model.charts[p] = << >>
        /\ Push(Renewed(d, t), [kind |-> "create", doc |-> d, parent |-> p, charts |-> model.charts[p]])
  BY DEF Create
<1>2. PICK S, F, R : S = Start[session].charted /\ F = InTree(Start[session]) /\ R = Reached(model, Done)
  OBVIOUS
<1>3. /\ ~astray /\ model \in Trees /\ InTree(model) \subseteq R /\ R \subseteq Docs
      /\ Now \in Trees /\ InTree(model) \subseteq Now.live
      /\ \A q \in R : /\ Now.type[q] = model.type[q] /\ Now.kids[q] = model.kids[q]
                      /\ Now.charts[q] = model.charts[q]
      /\ \A q \in Docs \ R : Now.kids[q] = << >> /\ Now.charts[q] = << >>
  BY <1>2, ExactBegin
<1>4. p \in R /\ p \in Docs /\ p \in Now.live /\ d \in Docs /\ d \notin R /\ d # p
  BY <1>2, <1>3 DEF Spare
<1>5. \A q \in Docs : d \notin Range(Now.kids[q])
  <2>1. PICK ps : Along(ps)
    BY <1>3 DEF TreeInv
  <2>. QED  BY <1>3, <2>1, NowPlaced
<1>6. PICK n, c, K : /\ n = Renewed(d, t) /\ K = {}
                     /\ c = [kind |-> "create", doc |-> d, parent |-> p, charts |-> model.charts[p]]
  OBVIOUS
<1>7. /\ n \in Trees /\ n.kids = Now.kids /\ n.charts = Now.charts
      /\ n.charted = Now.charted /\ n.drawn = Now.drawn /\ n.live = Now.live \cup {d}
      /\ \A x \in Docs : n.type[x] = IF x = d THEN t ELSE Now.type[x]
  BY <1>3, <1>4, <1>6, RenewedIs
<1>8. /\ n.charted = Now.charted \cup K /\ n.drawn = Now.drawn \cup K /\ K \cap Now.charted = {}
      /\ \A q \in Docs \ {d} : n.type[q] = Now.type[q] /\ n.charts[q] = Now.charts[q]
      /\ Range(n.charts[d]) = K
  BY <1>3, <1>4, <1>6, <1>7, EmptyList
<1>9. Healthy(S, n) /\ \E vs : Laid(S, F, n, vs, index)
  BY <1>2, <1>7, <1>8, NewDocLaid
<1>10. PICK vs, P : Laid(S, F, n, vs, index) /\ P = vs[index + 1]
  BY <1>9
<1>11. index \in Nat
  BY <1>3, LenProperties DEF TreeInv
<1>12. P \in States /\ Agrees(S, n, P)
  BY <1>10, <1>11, LaidHere
<1>13. c \in Commands /\ c.kind = "create" /\ c.doc = d /\ c.parent = p /\ c.charts = << >>
  <2>1. model.charts[p] \in Seq(Charts)
    BY <1>3, <1>4 DEF Trees
  <2>2. c \in [kind : {"create"}, doc : Docs, parent : Docs, charts : Seq(Charts)]
    BY <1>4, <1>6, <2>1
  <2>. QED  BY <1>1, <1>6, <2>2 DEF Commands
<1>14. P.kids[p] = n.kids[p] /\ P.charts[p] = << >> /\ ChildAllowed(P, p)
  <2>1. n.type[p] = model.type[p] /\ n.kids[p] = model.kids[p] /\ n.charts[p] = << >>
    BY <1>1, <1>3, <1>4, <1>7
  <2>2. ChildAllowed(n, p)
    BY <1>1, <2>1 DEF ChildAllowed
  <2>. QED  BY <1>4, <1>9, <1>12, <2>1, <2>2, AgreesThere
<1>15. P.kids[d] = << >> /\ P.charts[d] = << >>
  <2>1. n.kids[d] = << >> /\ n.charts[d] = << >>
    BY <1>3, <1>4, <1>7
  <2>. QED  BY <1>4, <1>9, <1>12, <2>1, AgreesThere
<1>16. Room(P, p, d)
  BY <1>4, <1>5, <1>7, <1>14 DEF Room
<1>17. \E Q \in States : Brings(S, P, c, Q)
  BY <1>4, <1>12, <1>13, <1>14, <1>15, <1>16, CreateLeads
<1>18. PointsTo(c) \subseteq n.live
  BY <1>4, <1>7, <1>13, CommandKinds
<1>19. Push(n, c)
  BY <1>1, <1>6
<1>. QED  BY <1>2, <1>10, <1>13, <1>17, <1>18, <1>19, PlainExact

LEMMA PasteExact ==
  ASSUME TreeInv, ExactInv, Paste, session' = session
  PROVE  ExactInv'
<1>. SUFFICES ASSUME Exact  PROVE ExactInv'
  BY DEF ExactInv, Exact
<1>1. PICK p \in InTree(model), d \in Spare :
        LET k == NewChart(Now, Known(Done)) IN
        /\ model.kids[p] # << >> /\ Supplied(Now, Known(Done))
        /\ Push([Renewed(d, "LEAF") EXCEPT !.charted = Renewed(d, "LEAF").charted \cup {k},
                   !.drawn = Renewed(d, "LEAF").drawn \cup {k}, !.charts[d] = <<k>>],
                [kind |-> "paste", doc |-> d, parent |-> p, chart |-> k])
  BY DEF Paste
<1>2. PICK S, F, R : S = Start[session].charted /\ F = InTree(Start[session]) /\ R = Reached(model, Done)
  OBVIOUS
<1>3. /\ ~astray /\ model \in Trees /\ InTree(model) \subseteq R /\ R \subseteq Docs
      /\ Now \in Trees /\ InTree(model) \subseteq Now.live
      /\ \A q \in R : /\ Now.type[q] = model.type[q] /\ Now.kids[q] = model.kids[q]
                      /\ Now.charts[q] = model.charts[q]
  BY <1>2, ExactBegin
<1>4. p \in R /\ p \in Docs /\ p \in Now.live /\ d \in Docs /\ d \notin R /\ d # p /\ "LEAF" \in Types
  BY <1>2, <1>3 DEF Spare, Types
<1>5. \A q \in Docs : d \notin Range(Now.kids[q])
  <2>1. PICK ps : Along(ps)
    BY <1>3 DEF TreeInv
  <2>. QED  BY <1>3, <2>1, NowPlaced
<1>6. PICK k, b : k = NewChart(Now, Known(Done)) /\ b = Renewed(d, "LEAF")
  OBVIOUS
<1>7. PICK n, c, K : /\ K = {k} /\ c = [kind |-> "paste", doc |-> d, parent |-> p, chart |-> k]
                     /\ n = [b EXCEPT !.charted = b.charted \cup {k}, !.drawn = b.drawn \cup {k},
                                      !.charts[d] = <<k>>]
  OBVIOUS
<1>8. model.kids[p] # << >> /\ Supplied(Now, Known(Done)) /\ Push(n, c)
  BY <1>1, <1>6, <1>7
<1>9. k \in Charts \ Now.charted
  BY <1>6, <1>8 DEF Supplied, NewChart
<1>10. /\ b \in Trees /\ b.kids = Now.kids /\ b.charts = Now.charts
       /\ b.charted = Now.charted /\ b.drawn = Now.drawn /\ b.live = Now.live \cup {d}
       /\ \A x \in Docs : b.type[x] = IF x = d THEN "LEAF" ELSE Now.type[x]
  BY <1>3, <1>4, <1>6, RenewedIs
<1>11. /\ n \in Trees /\ n.kids = b.kids /\ n.live = b.live /\ n.type = b.type
       /\ n.charted = b.charted \cup {k} /\ n.drawn = b.drawn \cup {k}
       /\ n.charts[d] = <<k>> /\ \A q \in Docs \ {d} : n.charts[q] = b.charts[q]
  <2>1. <<k>> \in Seq(Charts)
    BY <1>9
  <2>. QED  BY <1>4, <1>7, <1>9, <1>10, <2>1 DEF Trees
<1>12. /\ n.charted = Now.charted \cup K /\ n.drawn = Now.drawn \cup K /\ K \cap Now.charted = {}
       /\ \A q \in Docs \ {d} : n.type[q] = Now.type[q] /\ n.charts[q] = Now.charts[q]
  BY <1>7, <1>9, <1>10, <1>11
<1>13. Range(n.charts[d]) = K
  <2>1. Range(<<k>>) = {k}
    BY DEF Range
  <2>. QED  BY <1>7, <1>11, <2>1
<1>14. n.kids = Now.kids /\ n.live = Now.live \cup {d}
  BY <1>10, <1>11
<1>15. Healthy(S, n) /\ \E vs : Laid(S, F, n, vs, index)
  BY <1>2, <1>11, <1>12, <1>13, <1>14, NewDocLaid
<1>16. PICK vs, P : Laid(S, F, n, vs, index) /\ P = vs[index + 1]
  BY <1>15
<1>17. index \in Nat
  BY <1>3, LenProperties DEF TreeInv
<1>18. P \in States /\ Agrees(S, n, P)
  BY <1>16, <1>17, LaidHere
<1>19. c \in Commands /\ c.kind = "paste" /\ c.doc = d /\ c.parent = p
  <2>1. c \in [kind : {"paste"}, doc : Docs, parent : Docs, chart : Charts]
    BY <1>4, <1>7, <1>9
  <2>. QED  BY <1>7, <2>1 DEF Commands
<1>20. P.kids[p] # << >> /\ d \notin Range(P.kids[p])
  <2>1. P.kids[p] = n.kids[p]
    BY <1>4, <1>15, <1>18, AgreesThere
  <2>. QED  BY <1>3, <1>4, <1>5, <1>8, <1>14, <2>1
<1>21. \E Q \in States : Brings(S, P, c, Q)
  BY <1>4, <1>18, <1>19, <1>20, PasteLeads
<1>22. PointsTo(c) \subseteq n.live
  BY <1>4, <1>14, <1>19, CommandKinds
<1>. QED  BY <1>2, <1>8, <1>16, <1>19, <1>21, <1>22, PlainExact

\* What the state says of a document of the tree.
LEMMA NowThere ==
  ASSUME TreeInv, ExactInv, Exact, NEW S, S = Start[session].charted, NEW F, F = InTree(Start[session]),
         NEW vs, Laid(S, F, Now, vs, index), NEW P, P = vs[index + 1], NEW q \in InTree(model)
  PROVE  /\ P \in States /\ Healthy(S, Now) /\ Agrees(S, Now, P) /\ Tidy(F, P) /\ index \in Nat
         /\ q \in Docs /\ q \in Now.live
         /\ P.kids[q] = model.kids[q] /\ P.type[q] = model.type[q]
         /\ P.charts[q] = << >> <=> model.charts[q] = << >>
         /\ ChildAllowed(P, q) <=> ChildAllowed(model, q)
<1>1. PICK R, n : R = Reached(model, Done) /\ n = Now
  OBVIOUS
<1>2. /\ ~astray /\ model \in Trees /\ InTree(model) \subseteq R /\ R \subseteq Docs
      /\ InTree(model) \subseteq n.live
      /\ \A x \in R : n.type[x] = model.type[x] /\ n.kids[x] = model.kids[x] /\ n.charts[x] = model.charts[x]
  BY <1>1, ExactBegin
<1>3. index \in Nat
  BY <1>2, LenProperties DEF TreeInv
<1>4. P \in States /\ Healthy(S, n) /\ Agrees(S, n, P) /\ Tidy(F, P)
  BY <1>1, <1>3, LaidHere
<1>5. q \in Docs /\ n.type[q] = model.type[q] /\ n.kids[q] = model.kids[q] /\ n.charts[q] = model.charts[q]
  BY <1>2
<1>6. P.kids[q] = n.kids[q] /\ P.type[q] = n.type[q]
  BY <1>4, <1>5, AgreesThere
<1>7. P.charts[q] = << >> <=> n.charts[q] = << >>
  BY <1>4, <1>5, AgreesThere
<1>8. ChildAllowed(P, q) <=> ChildAllowed(model, q)
  BY <1>5, <1>6 DEF ChildAllowed
<1>. QED  BY <1>1, <1>2, <1>3, <1>4, <1>5, <1>6, <1>7, <1>8

\* A document can be put back into the one that lists it.
LEMMA OwnerGives ==
  ASSUME TreeInv, ExactInv, Exact, NEW S, S = Start[session].charted, NEW F, F = InTree(Start[session]),
         NEW vs, Laid(S, F, Now, vs, index), NEW P, P = vs[index + 1],
         NEW d \in InTree(model) \ {Root}, NEW from, from = model.owner[d],
         Admits(model.type[from], Len(model.kids[from]))
  PROVE  /\ from \in InTree(model) /\ GivesBack(P, from, d)
         /\ P.kids[from] = model.kids[from] /\ IndexOf(model.kids[from], d) \in Int
         /\ \A q \in InTree(model) \ {from} : d \notin Range(model.kids[q])
<1>1. ~astray
  BY DEF ExactInv
<1>2. PICK ps : Along(ps)
  BY <1>1 DEF TreeInv
<1>3. PICK O : O = ps[index + 1]
  OBVIOUS
<1>4. /\ model \in Trees /\ Placed(model, O) /\ InTree(model) \subseteq Docs
      /\ from \in InTree(model) /\ from = O[d] /\ IndexOf(model.kids[from], d) \in Int
  BY <1>1, <1>2, <1>3, AlongHere
<1>5. d \in Range(model.kids[from])
  BY <1>4, WayUp
<1>6. \A q \in InTree(model) \ {from} : d \notin Range(model.kids[q])
  BY <1>4 DEF Placed
<1>7. /\ P \in States /\ Tidy(F, P) /\ from \in Docs
      /\ P.kids[from] = model.kids[from] /\ P.type[from] = model.type[from]
  BY <1>4, NowThere
<1>8. PICK l : l = P.kids[from]
  OBVIOUS
<1>9. l \in Seq(Docs) /\ d \in Range(l) /\ NoRepeat(l) /\ (l = << >> \/ P.charts[from] = << >>)
  BY <1>5, <1>7, <1>8 DEF Tidy, States
<1>10. l # << >> /\ Len(l) \in Nat /\ Len(l) >= 1
  BY <1>9, RangeIndex
<1>11. P.type[from] # "LEAF" /\ (P.type[from] = "IS" => Len(l) = 1)
  <2>1. PICK t, k : t = P.type[from] /\ k = Len(l)
    OBVIOUS
  <2>2. Admits(t, k) /\ k \in Nat /\ k >= 1
    BY <1>7, <1>8, <1>10, <2>1
  <2>3. t = "AND" \/ (t = "IS" /\ k = 1)
    BY <2>2 DEF Admits
  <2>4. "AND" # "LEAF" /\ "AND" # "IS" /\ "IS" # "LEAF"
    OBVIOUS
  <2>. QED  BY <2>1, <2>3, <2>4
<1>12. GivesBack(P, from, d)
  BY <1>8, <1>9, <1>10, <1>11 DEF GivesBack
<1>. QED  BY <1>4, <1>6, <1>7, <1>12

LEMMA MoveExact ==
  ASSUME TreeInv, ExactInv, Move, session' = session
  PROVE  ExactInv'
<1>. SUFFICES ASSUME Exact  PROVE ExactInv'
  BY DEF ExactInv, Exact
<1>1. PICK d \in InTree(model) \ {Root} : \E to \in InTree(model) \ Under(model, d) :
        /\ to # model.owner[d] /\ ChildAllowed(model, to) /\ model.charts[to] = << >>
        /\ Admits(model.type[model.owner[d]], Len(model.kids[model.owner[d]]))
        /\ Push(Now, [kind |-> "move", doc |-> d, from |-> model.owner[d], to |-> to, charts |-> model.charts[to],
                      index |-> IndexOf(model.kids[model.owner[d]], d)])
  BY DEF Move
<1>2. PICK to \in InTree(model) \ Under(model, d) :
        /\ to # model.owner[d] /\ ChildAllowed(model, to) /\ model.charts[to] = << >>
        /\ Admits(model.type[model.owner[d]], Len(model.kids[model.owner[d]]))
        /\ Push(Now, [kind |-> "move", doc |-> d, from |-> model.owner[d], to |-> to, charts |-> model.charts[to],
                      index |-> IndexOf(model.kids[model.owner[d]], d)])
  BY <1>1
<1>3. PICK S, F, from : S = Start[session].charted /\ F = InTree(Start[session]) /\ from = model.owner[d]
  OBVIOUS
<1>4. PICK vs, P : Laid(S, F, Now, vs, index) /\ P = vs[index + 1]
  BY <1>3, NowLaid
<1>5. PICK c : c = [kind |-> "move", doc |-> d, from |-> from, to |-> to, charts |-> model.charts[to],
                    index |-> IndexOf(model.kids[from], d)]
  OBVIOUS
<1>6. /\ from \in InTree(model) /\ GivesBack(P, from, d) /\ P.kids[from] = model.kids[from]
      /\ IndexOf(model.kids[from], d) \in Int
      /\ \A q \in InTree(model) \ {from} : d \notin Range(model.kids[q])
  BY <1>2, <1>3, <1>4, OwnerGives
<1>7. P \in States /\ d \in Docs /\ d \in Now.live
  BY <1>3, <1>4, NowThere
<1>8. from \in Docs /\ from \in Now.live
  BY <1>3, <1>4, <1>6, NowThere
<1>9. /\ to \in Docs /\ to \in Now.live /\ P.kids[to] = model.kids[to] /\ P.charts[to] = << >>
      /\ ChildAllowed(P, to)
  BY <1>2, <1>3, <1>4, NowThere
<1>10. /\ c \in Commands /\ c.kind = "move" /\ c.doc = d /\ c.from = from /\ c.to = to
       /\ c.charts = << >> /\ c.index = IndexOf(P.kids[from], d)
  <2>1. model.charts[to] \in Seq(Charts)
    BY <1>2
  <2>2. c \in [kind : {"move"}, doc : Docs, from : Docs, to : Docs, charts : Seq(Charts), index : Int]
    BY <1>5, <1>6, <1>7, <1>8, <1>9, <2>1
  <2>3. c \in Commands
    BY <1>2, <1>3, <1>5, <2>2 DEF Commands
  <2>. QED  BY <1>2, <1>5, <1>6, <2>3
<1>11. Room(P, to, d)
  BY <1>2, <1>3, <1>6, <1>9 DEF Room
<1>12. \E Q \in States : Brings(S, P, c, Q)
  BY <1>2, <1>3, <1>6, <1>7, <1>9, <1>10, <1>11, MoveLeads
<1>13. PointsTo(c) \subseteq Now.live
  BY <1>7, <1>8, <1>9, <1>10, CommandKinds
<1>14. Push(Now, c)
  BY <1>2, <1>3, <1>5
<1>15. PICK n : n = Now
  OBVIOUS
<1>16. Laid(S, F, n, vs, index) /\ Push(n, c) /\ PointsTo(c) \subseteq n.live
  BY <1>4, <1>13, <1>14, <1>15
<1>. QED  BY <1>3, <1>4, <1>10, <1>12, <1>16, PlainExact

LEMMA DeleteExact ==
  ASSUME TreeInv, ExactInv, Delete, session' = session
  PROVE  ExactInv'
<1>. SUFFICES ASSUME Exact  PROVE ExactInv'
  BY DEF ExactInv, Exact
<1>1. PICK d \in InTree(model) \ {Root} :
        /\ Admits(model.type[model.owner[d]], Len(model.kids[model.owner[d]]))
        /\ Push(Now, [kind |-> "delete", doc |-> d, parent |-> model.owner[d],
                      index |-> IndexOf(model.kids[model.owner[d]], d)])
  BY DEF Delete
<1>2. PICK S, F, p : S = Start[session].charted /\ F = InTree(Start[session]) /\ p = model.owner[d]
  OBVIOUS
<1>3. PICK vs, P : Laid(S, F, Now, vs, index) /\ P = vs[index + 1]
  BY <1>2, NowLaid
<1>4. PICK c, n : /\ c = [kind |-> "delete", doc |-> d, parent |-> p, index |-> IndexOf(model.kids[p], d)]
                  /\ n = Now
  OBVIOUS
<1>5. /\ p \in InTree(model) /\ GivesBack(P, p, d) /\ P.kids[p] = model.kids[p]
      /\ IndexOf(model.kids[p], d) \in Int
  BY <1>1, <1>2, <1>3, OwnerGives
<1>6. P \in States /\ d \in Docs /\ d \in Now.live
  BY <1>2, <1>3, NowThere
<1>7. p \in Docs /\ p \in Now.live
  BY <1>2, <1>3, <1>5, NowThere
<1>8. /\ c \in Commands /\ c.kind = "delete" /\ c.doc = d /\ c.parent = p
      /\ c.index = IndexOf(P.kids[p], d)
  <2>1. c \in [kind : {"delete"}, doc : Docs, parent : Docs, index : Int]
    BY <1>4, <1>5, <1>6, <1>7
  <2>2. c \in Commands
    BY <2>1 DEF Commands
  <2>. QED  BY <1>4, <1>5, <2>2
<1>9. \E Q \in States : Brings(S, P, c, Q)
  BY <1>5, <1>6, <1>8, DeleteLeads
<1>10. PointsTo(c) \subseteq n.live
  BY <1>4, <1>6, <1>7, <1>8, CommandKinds
<1>11. Laid(S, F, n, vs, index) /\ Push(n, c)
  BY <1>1, <1>2, <1>3, <1>4
<1>. QED  BY <1>2, <1>3, <1>8, <1>9, <1>10, <1>11, PlainExact

LEMMA DrawExact ==
  ASSUME TreeInv, ExactInv, Draw, session' = session
  PROVE  ExactInv'
<1>. SUFFICES ASSUME Exact  PROVE ExactInv'
  BY DEF ExactInv, Exact
<1>1. PICK d \in InTree(model) : \E k \in Range(model.charts[d]) \ model.drawn :
        k \in Start[session].charted /\ Push(Now, [kind |-> "draw", chart |-> k])
  BY DEF Draw
<1>2. PICK k \in Range(model.charts[d]) \ model.drawn :
        k \in Start[session].charted /\ Push(Now, [kind |-> "draw", chart |-> k])
  BY <1>1
<1>3. PICK S, F, R : S = Start[session].charted /\ F = InTree(Start[session]) /\ R = Reached(model, Done)
  OBVIOUS
<1>4. PICK vs, P : Laid(S, F, Now, vs, index) /\ P = vs[index + 1]
  BY <1>3, NowLaid
<1>5. PICK c, n : c = [kind |-> "draw", chart |-> k] /\ n = Now
  OBVIOUS
<1>6. /\ InTree(model) \subseteq R /\ model \in Trees /\ R \subseteq Docs
      /\ \A q \in R : \A x \in Range(model.charts[q]) : x \in n.drawn <=> x \in model.drawn
  BY <1>3, <1>5, ExactBegin
<1>7. P \in States /\ Agrees(S, n, P)
  BY <1>3, <1>4, <1>5, NowThere
<1>8. k \in S \ P.drawn
  BY <1>2, <1>3, <1>6, <1>7 DEF Agrees
<1>9. c \in Commands /\ c.kind = "draw" /\ c.chart = k
  <2>1. model.charts[d] \in Seq(Charts)
    BY <1>6 DEF Trees
  <2>2. k \in Charts
    BY <2>1, RangeOfSeq
  <2>3. c \in [kind : {"draw"}, chart : Charts]
    BY <1>5, <2>2
  <2>. QED  BY <1>5, <2>3 DEF Commands
<1>10. \E Q \in States : Brings(S, P, c, Q)
  BY <1>7, <1>8, <1>9, DrawLeads
<1>11. PointsTo(c) \subseteq n.live
  BY <1>9, CommandKinds
<1>12. Laid(S, F, n, vs, index) /\ Push(n, c)
  BY <1>2, <1>4, <1>5
<1>. QED  BY <1>3, <1>4, <1>9, <1>10, <1>11, <1>12, PlainExact

\* A type change that takes the place of the one before.
LEMMA MergeExact ==
  ASSUME TreeInv, ExactInv, Exact, session' = session, NEW S, S = Start[session].charted,
         NEW F, F = InTree(Start[session]), NEW n, NEW vs, Laid(S, F, n, vs, index),
         NEW c \in Commands, c.kind = "type", Push(n, c), Merges(c), ~c.made, ~stack[index].made,
         NEW P, P = vs[index + 1], ~MakesChart(P, c), NEW Q \in States, Brings(S, P, c, Q)
  PROVE  ExactInv'
<1>1. ~astray /\ views \in Seq(Views) /\ Len(views) = Len(stack) + 1
  BY DEF ExactInv
<1>2. /\ index \in Nat /\ index <= Len(stack) /\ Len(stack) \in Nat
      /\ Done \in Seq(Commands) /\ Len(Done) = index /\ DOMAIN Done = 1..index
      /\ \A k \in 1..index : Done[k] = stack[k] /\ stack[k] \in Commands
  BY <1>1, DoneIs, LenProperties DEF TreeInv
<1>3. PICK known, m, b, e, N, j :
        /\ known = Known(Done) \cup ChartsOf(c) /\ m = Redo(n, c, known) /\ b = stack[index]
        /\ e = [b EXCEPT !.new = c.new] /\ N = vs[index] /\ j = index
  OBVIOUS
<1>4. /\ j \in Nat /\ j > 0 /\ j \in 1..index /\ j \in 1..(index + 1) /\ b.kind = "type" /\ b.doc = c.doc
      /\ b \in Commands /\ j + 1 = index + 1
  BY <1>2, <1>3 DEF Merges
<1>5. /\ b \in [kind : {"type"}, doc : Docs, old : Types, new : Types, made : BOOLEAN]
      /\ c \in [kind : {"type"}, doc : Docs, old : Types, new : Types, made : BOOLEAN]
  BY <1>4 DEF Commands
<1>6. /\ e \in [kind : {"type"}, doc : Docs, old : Types, new : Types, made : BOOLEAN]
      /\ e.doc = c.doc /\ e.new = c.new /\ e.old = b.old /\ e.made = b.made /\ ~e.made
  BY <1>3, <1>4, <1>5
<1>7. e \in Commands /\ e.kind = "type"
  <2>1. e.kind = "type"
    BY <1>6
  <2>2. e \in Commands
    BY <1>6 DEF Commands
  <2>. QED  BY <2>1, <2>2
<1>8. /\ N \in States /\ P \in States /\ Healthy(S, n) /\ Agrees(S, n, P)
      /\ Brings(S, N, b, P) /\ PointsTo(b) \subseteq n.live
  <2>1. /\ vs \in [Nat -> States] /\ Healthy(S, n) /\ Agrees(S, n, vs[index + 1])
        /\ \A k \in 1..index : Brings(S, vs[k], stack[k], vs[k + 1]) /\ PointsTo(stack[k]) \subseteq n.live
    BY DEF Laid
  <2>2. index \in 1..index /\ index + 1 \in Nat
    BY <1>2, <1>3, <1>4
  <2>. QED  BY <1>2, <1>3, <2>1, <2>2
<1>9. /\ c.doc \in Docs /\ PointsTo(c) = {c.doc} /\ PointsTo(b) = {c.doc} /\ PointsTo(e) = {c.doc}
  BY <1>4, <1>6, <1>7, CommandKinds
<1>10. /\ BringsType(N, b, P) /\ BringsType(P, c, Q)
  BY <1>4, <1>8 DEF Brings
<1>11. /\ b.old = N.type[c.doc] /\ ~MakesChart(N, b) /\ P.drawn = N.drawn
       /\ \A q \in Docs : /\ P.kids[q] = N.kids[q] /\ P.charts[q] = N.charts[q]
                          /\ q # c.doc => P.type[q] = N.type[q]
  BY <1>3, <1>4, <1>10 DEF BringsType
<1>12. /\ Q.drawn = P.drawn
       /\ \A q \in Docs : /\ Q.kids[q] = P.kids[q] /\ Q.charts[q] = P.charts[q]
                          /\ Q.type[q] = IF q = c.doc THEN c.new ELSE P.type[q]
  BY <1>10 DEF BringsType
<1>13. ~MakesChart(N, e)
  BY <1>6, <1>9, <1>11 DEF MakesChart, IsBare
<1>14. BringsType(N, e, Q)
  <2>1. e.old = N.type[e.doc] /\ (e.made <=> MakesChart(N, e)) /\ Q.drawn = N.drawn
    BY <1>6, <1>11, <1>12, <1>13
  <2>2. \A q \in Docs : /\ Q.kids[q] = N.kids[q] /\ Q.charts[q] = N.charts[q]
                        /\ Q.type[q] = IF q = e.doc THEN e.new ELSE N.type[q]
    BY <1>6, <1>11, <1>12
  <2>. QED  BY <1>13, <2>1, <2>2 DEF BringsType
<1>15. Brings(S, N, e, Q)
  BY <1>7, <1>14 DEF Brings
<1>. DEFINE st == [Done EXCEPT ![index].new = c.new]
<1>16. /\ Supplied(n, known) /\ model' = m /\ stack' = st /\ index' = Len(st)
       /\ (~Misses(n, c) => ~astray') /\ views' = Append(SubSeq(views, 1, Len(st)), View(m))
  BY <1>1, <1>3 DEF Push
<1>17. Len(st) = j /\ st[j] = e /\ \A k \in 1..(j - 1) : st[k] = stack[k]
  <2>1. st = [k \in 1..index |-> IF k = index THEN [Done[k] EXCEPT !.new = c.new] ELSE Done[k]]
    BY <1>2
  <2>2. \A k \in 1..index : st[k] = IF k = index THEN e ELSE stack[k]
    BY <1>2, <1>3, <2>1
  <2>3. DOMAIN st = 1..index
    BY <2>1
  <2>. HIDE DEF st
  <2>4. st \in [1..index -> Commands]
    <3>1. st = [k \in 1..index |-> st[k]]
      BY <2>1, <2>2
    <3>2. \A k \in 1..index : st[k] \in Commands
      BY <1>2, <1>7, <2>2
    <3>. QED  BY <3>1, <3>2
  <2>5. Len(st) = index
    BY <1>2, <2>4
  <2>. QED  BY <1>2, <1>3, <1>4, <2>2, <2>5
<1>. HIDE DEF st
<1>18. Healthy(S, m) /\ Agrees(S, m, Q) /\ m.live = n.live /\ ~Misses(n, c)
  BY <1>3, <1>8, <1>9, <1>16, RedoExact
<1>19. /\ index' = j /\ Len(stack') = j /\ stack'[j] = e /\ \A k \in 1..(j - 1) : stack'[k] = stack[k]
  BY <1>16, <1>17
<1>20. views' = Append(SubSeq(views, 1, j), View(m)) /\ ~astray'
  BY <1>16, <1>17, <1>18
<1>21. Brings(S, vs[j], e, Q) /\ PointsTo(e) \subseteq n.live
  BY <1>3, <1>8, <1>9, <1>15
<1>. QED  BY <1>1, <1>2, <1>4, <1>7, <1>16, <1>18, <1>19, <1>20, <1>21, Pushed

LEMMA ChangeTypeExact ==
  ASSUME TreeInv, ExactInv, ChangeType, session' = session
  PROVE  ExactInv'
<1>. SUFFICES ASSUME Exact  PROVE ExactInv'
  BY DEF ExactInv, Exact
<1>1. PICK d \in InTree(model), t \in Types :
        LET c == [kind |-> "type", doc |-> d, old |-> model.type[d], new |-> t, made |-> FALSE]
        IN  (Merges(c) => ~MakesChart(model, c) /\ ~stack[index].made) /\ Push(Now, c)
  BY DEF ChangeType
<1>2. PICK S, F : S = Start[session].charted /\ F = InTree(Start[session])
  OBVIOUS
<1>3. PICK vs, P : Laid(S, F, Now, vs, index) /\ P = vs[index + 1]
  BY <1>2, NowLaid
<1>4. PICK c, n : /\ c = [kind |-> "type", doc |-> d, old |-> model.type[d], new |-> t, made |-> FALSE]
                  /\ n = Now
  OBVIOUS
<1>5. (Merges(c) => ~MakesChart(model, c) /\ ~stack[index].made) /\ Push(n, c)
  BY <1>1, <1>4
<1>6. /\ P \in States /\ Healthy(S, n) /\ Agrees(S, n, P) /\ d \in Docs /\ d \in n.live
      /\ P.kids[d] = model.kids[d] /\ P.type[d] = model.type[d]
      /\ (P.charts[d] = << >> <=> model.charts[d] = << >>)
  BY <1>2, <1>3, <1>4, NowThere
<1>7. /\ c.kind = "type" /\ c.doc = d /\ c.old = P.type[d] /\ c.new = t /\ ~c.made
  BY <1>4, <1>6
<1>8. c \in [kind : {"type"}, doc : Docs, old : Types, new : Types, made : BOOLEAN]
  <2>1. P.type[d] \in Types
    BY <1>6 DEF States
  <2>. QED  BY <1>4, <1>6, <2>1
<1>9. c \in Commands
  BY <1>8 DEF Commands
<1>10. MakesChart(P, c) <=> MakesChart(model, c)
  BY <1>6, <1>7 DEF MakesChart, IsBare
<1>11. PointsTo(c) \subseteq n.live
  BY <1>6, <1>7, <1>9, CommandKinds
<1>12. Laid(S, F, n, vs, index)
  BY <1>3, <1>4
<1>13. CASE Merges(c)
  <2>1. ~MakesChart(P, c) /\ ~stack[index].made
    BY <1>5, <1>10, <1>13
  <2>2. PICK Q \in States : Brings(S, P, c, Q)
    BY <1>6, <1>7, <1>9, <2>1, TypeLeads
  <2>. QED  BY <1>2, <1>3, <1>5, <1>7, <1>9, <1>12, <1>13, <2>1, <2>2, MergeExact
<1>14. CASE ~Merges(c)
  <2>1. PICK e : e = Noting(n, c)
    OBVIOUS
  <2>2. MakesChart(n, c) <=> MakesChart(P, c)
    <3>1. n.kids[d] = P.kids[d] /\ (n.charts[d] = << >> <=> P.charts[d] = << >>)
      BY <1>6, AgreesThere
    <3>. QED  BY <1>7, <3>1 DEF MakesChart, IsBare
  <2>3. /\ e \in Commands /\ e.kind = "type" /\ e.doc = d /\ e.old = P.type[d] /\ e.new = t
        /\ (e.made <=> MakesChart(P, c))
    <3>1. CASE MakesChart(n, c)
      <4>1. e = [c EXCEPT !.made = TRUE]
        BY <1>7, <2>1, <3>1 DEF Noting
      <4>2. e.kind = "type" /\ e.doc = d /\ e.old = P.type[d] /\ e.new = t /\ e.made = TRUE
        BY <1>7, <1>8, <4>1
      <4>3. e \in Commands
        BY <1>9, <2>1, NotingIs
      <4>. QED  BY <2>2, <3>1, <4>2, <4>3
    <3>2. CASE ~MakesChart(n, c)
      <4>1. e = c
        BY <2>1, <3>2 DEF Noting
      <4>. QED  BY <1>7, <1>9, <2>2, <3>2, <4>1
    <3>. QED  BY <3>1, <3>2
  <2>4. MakesChart(P, e) <=> MakesChart(P, c)
    BY <1>7, <2>3 DEF MakesChart
  <2>5. PICK Q \in States : Brings(S, P, e, Q)
    BY <1>6, <2>3, <2>4, TypeLeads
  <2>. QED  BY <1>2, <1>3, <1>5, <1>9, <1>11, <1>12, <1>14, <2>1, <2>5, PushExact
<1>. QED  BY <1>13, <1>14
-------------------------------------------------------------------------------
(* What the user sees of it.                                                    *)

LEMMA NextExact == TreeInv /\ ExactInv /\ [Next]_vars => ExactInv'
<1>. SUFFICES ASSUME TreeInv, ExactInv, [Next]_vars  PROVE ExactInv'
  OBVIOUS
<1>1. CASE UNCHANGED vars
  <2>1. /\ model' = model /\ stack' = stack /\ index' = index /\ (astray' <=> astray) /\ views' = views
        /\ session' = session
    BY <1>1 DEF vars
  <2>. QED  BY <2>1 DEF ExactInv, Exact, LaidOut, Laid
<1>2. CASE Next
  <2>1. session' = session
    BY <1>2 DEF Next
  <2>2. Create \/ Move \/ Delete \/ ChangeType \/ Paste \/ Draw \/ UndoOne \/ RedoOne
    BY <1>2 DEF Next
  <2>. QED  BY <2>1, <2>2, CreateExact, MoveExact, DeleteExact, ChangeTypeExact, PasteExact, DrawExact,
            UndoOneExact, RedoOneExact
<1>. QED  BY <1>1, <1>2

LEMMA ExactInvRestores == TreeInv /\ ExactInv => UndoRestores /\ NothingDangles
<1>. SUFFICES ASSUME TreeInv, ExactInv, Exact
              PROVE  View(model) = views[index + 1] /\ ~Dangling(model)
  BY DEF UndoRestores, NothingDangles
<1>1. PICK S, F, ws : LaidOut(S, F, ws)
  BY DEF ExactInv
<1>2. model \in Trees /\ index \in Nat /\ index <= Len(stack) /\ Len(stack) \in Nat
  BY LenProperties DEF ExactInv, TreeInv
<1>3. index + 1 \in 1..(Len(stack) + 1) /\ index + 1 \in Nat
  BY <1>2
<1>4. /\ Healthy(S, model) /\ Agrees(S, model, ws[index + 1]) /\ ws[index + 1] \in States
      /\ views[index + 1] = ViewOf(ws[index + 1])
  BY <1>1, <1>3 DEF LaidOut, Laid
<1>5. View(model) = ViewOf(ws[index + 1])
  BY <1>2, <1>4, ViewIs
<1>6. InTree(model) \subseteq Docs
  BY <1>2, NobodyIsNoDoc, UnderIs DEF InTree
<1>7. ~Dangling(model)
  BY <1>4, <1>6 DEF Healthy, Dangling
<1>. QED  BY <1>4, <1>5, <1>7

\* Undo and redo bring back the trees the user had, in every exact session, however many
\* commands are given and however often each is undone and redone.
THEOREM UndoRestoresTrees == Spec => []UndoRestores
<1>1. Init => TreeInv /\ ExactInv
  BY InitTree, InitExact
<1>2. TreeInv /\ ExactInv /\ [Next]_vars => (TreeInv /\ ExactInv)'
  BY NextTree, NextExact
<1>3. TreeInv /\ ExactInv => UndoRestores
  BY ExactInvRestores
<1>. QED  BY <1>1, <1>2, <1>3, PTL DEF Spec

\* No destroyed document or chart is listed, so no step of an exact session is undefined.
THEOREM NothingIsLost == Spec => []NothingDangles
<1>1. Init => TreeInv /\ ExactInv
  BY InitTree, InitExact
<1>2. TreeInv /\ ExactInv /\ [Next]_vars => (TreeInv /\ ExactInv)'
  BY NextTree, NextExact
<1>3. TreeInv /\ ExactInv => NothingDangles
  BY ExactInvRestores
<1>. QED  BY <1>1, <1>2, <1>3, PTL DEF Spec
===============================================================================
