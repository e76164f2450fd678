---------------------------- MODULE MCMscDocuments ----------------------------
(* Small files for TLC: a root with a document that has a chart and one that   *)
(* has none; the one under the other; and a document with both a document and  *)
(* a chart.                                                                     *)
EXTENDS MscDocuments
CONSTANTS root, d1, d2, d3, k1, k2, k3, k4, k5

Tree(kids, charts) ==
  LET in == {root} \cup UNION {Range(kids[d]) : d \in DOMAIN kids}
  IN  [live    |-> in,
       charted |-> UNION {Range(charts[d]) : d \in DOMAIN charts},
       drawn   |-> {},
       type    |-> [d \in Docs |-> IF d = d1 /\ kids[d] = << >> THEN "LEAF" ELSE "AND"],
       owner   |-> [d \in Docs |-> CHOOSE p \in Docs \cup {Nobody} :
                      IF d \in in \ {root} THEN p \in Docs /\ d \in Range(kids[p]) ELSE p = Nobody],
       kids    |-> kids,
       charts  |-> charts]
Kids(r, s) == [d \in Docs |-> IF d = root THEN r ELSE IF d = d1 THEN s ELSE << >>]
ChartIn(p) == [d \in Docs |-> IF d = p THEN <<k1>> ELSE << >>]

Files == [s \in Sessions |-> CASE s = "flat"   -> Tree(Kids(<<d1, d2>>, << >>), ChartIn(d1))
                               [] s = "nested" -> Tree(Kids(<<d1>>, <<d2>>), ChartIn(d2))
                               [] s = "any"    -> Tree(Kids(<<d1, d2>>, << >>), ChartIn(d1))
                               [] s = "mixed"  -> Tree(Kids(<<d1>>, <<d2>>), ChartIn(d1))]
Most == [s \in Sessions |-> IF s = "flat" THEN 3 ELSE 2]
================================================================================
