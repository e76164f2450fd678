----------------------------- MODULE MCMscChart -------------------------------
(* Small charts for TLC.  Objects of one kind are interchangeable, so the runs *)
(* take instances that differ only in name as one.  A palette is the events    *)
(* that meet in one chart; the runs' palettes are small, so that all charts of *)
(* each can be looked at.  The list operations are evaluated on their own.     *)
EXTENDS MscChart

CONSTANTS m1, k1, k2, a1, s1, t1

Symm == Permutations(Instances)

\* Two create messages, so that a creation chain can be longer than one link, with
\* an ordinary message; and a message, an action, a shared condition and a comment.
Palettes == {{m1, k1, k2}, {m1, a1, s1, t1}}

VARIABLE palette  \* auxiliary: the events of this chart

MCInit == Init /\ palette \in Palettes
MCNext == Next /\ InChart(chart') \subseteq palette /\ UNCHANGED palette
MCSpec == MCInit /\ [][MCNext]_<<chart, palette>>

\* Every list of at most five out of three events.
Lists == BoundedSeq({m1, k1, k2}, 5)

\* KeepOnly, which the removals are built from and whose properties are proved in
\* MscListsProofs, is the library's filter; removeOne takes out the first occurrence,
\* and removeAll every one, which is what applying removeOne until nothing changes
\* comes to.
ASSUME KeepOnlyIsFilter ==
  \A list \in Lists, T \in SUBSET {m1, k1, k2} :
    KeepOnly(list, T) = SelectSeq(list, LAMBDA e : e \in T)
ASSUME RemoveOneIsFirst ==
  \A list \in Lists, e \in {m1, k1, k2} :
    /\ RemoveOne(list, e) = RemoveFirst(list, e)
    /\ RemoveAll(list, e) = RemoveAll(RemoveOne(list, e), e)
===============================================================================
