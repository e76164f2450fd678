------------------------------- MODULE MscLists -------------------------------
(* The QVector operations that the models are built from.  Positions are       *)
(* Qt's: they count from 0, and -1 stands for "not found".                     *)
EXTENDS Integers, Sequences, FiniteSets, Functions, SequencesExt

\* QVector::indexOf
IndexOf(s, e) ==
  IF e \in Range(s)
  THEN (CHOOSE k \in DOMAIN s : s[k] = e /\ \A j \in 1..(k - 1) : s[j] # e) - 1
  ELSE -1

\* The positions of s whose element is in T, and the rank of one among them.
Kept(s, T) == {k \in DOMAIN s : s[k] \in T}
RankIn(K, k) == Cardinality({m \in K : m <= k})

\* The subsequence of the elements of s that are in T.  (SelectSeq computes the
\* same sequence by recursion; MCMscChart checks that they agree.)
KeepOnly(s, T) ==
  [j \in 1..Cardinality(Kept(s, T)) |->
     s[CHOOSE k \in Kept(s, T) : RankIn(Kept(s, T), k) = j]]

\* QVector::removeAll takes every occurrence out, QVector::removeOne the first.
RemoveAll(s, e) == KeepOnly(s, Range(s) \ {e})
RemoveOne(s, e) == IF e \in Range(s) THEN RemoveAt(s, IndexOf(s, e) + 1) ELSE s

\* QVector::insert(pos, e) is defined for 0 <= pos <= size only.
InsertDefined(s, pos) == 0 <= pos /\ pos <= Len(s)
InsertAtPos(s, pos, e) == InsertAt(s, pos + 1, e)

\* The callers that mean "or else at the end" by a position outside the list.
InsertOrAppend(s, pos, e) ==
  IF pos < 0 \/ pos >= Len(s) THEN Append(s, e) ELSE InsertAtPos(s, pos, e)

\* No element occurs twice.
NoRepeat(s) == \A j, k \in DOMAIN s : s[j] = s[k] => j = k
===============================================================================
