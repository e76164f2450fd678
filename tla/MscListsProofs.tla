---------------------------- MODULE MscListsProofs ----------------------------
(* What the list operations of MscLists return, for lists of any length.       *)
EXTENDS MscLists, SequenceTheorems, FiniteSetTheorems, WellFoundedInduction, TLAPS

\* A finite set of positive numbers, and its elements up to some number.
UpTo(K, n) == {m \in K : m <= n}

\* The part of a finite set of positions up to n is finite, and its size grows
\* by one exactly at the members of the set.
LEMMA UpToStep ==
  ASSUME NEW K \in SUBSET (Nat \ {0}), IsFiniteSet(K), NEW n \in Nat \ {0}
  PROVE  /\ IsFiniteSet(UpTo(K, n))
         /\ Cardinality(UpTo(K, n)) \in Nat
         /\ Cardinality(UpTo(K, n - 1)) \in Nat
         /\ Cardinality(UpTo(K, n)) =
              Cardinality(UpTo(K, n - 1)) + (IF n \in K THEN 1 ELSE 0)
<1>1. UpTo(K, n) \in SUBSET K /\ UpTo(K, n - 1) \in SUBSET K
  BY DEF UpTo
<1>2. IsFiniteSet(UpTo(K, n)) /\ IsFiniteSet(UpTo(K, n - 1))
  BY <1>1, FS_Subset
<1>3. Cardinality(UpTo(K, n)) \in Nat /\ Cardinality(UpTo(K, n - 1)) \in Nat
  BY <1>2, FS_CardinalityType
<1>4. CASE n \in K
  <2>0. (\A m \in K : m <= n <=> m <= n - 1 \/ m = n) /\ ~(n <= n - 1)
    OBVIOUS
  <2>1. UpTo(K, n) = UpTo(K, n - 1) \cup {n} /\ n \notin UpTo(K, n - 1)
    BY <1>4, <2>0 DEF UpTo
  <2>2. Cardinality(UpTo(K, n)) = Cardinality(UpTo(K, n - 1)) + 1
    BY <1>2, <2>1, FS_AddElement
  <2>. QED  BY <1>2, <1>3, <1>4, <2>2
<1>5. CASE n \notin K
  <2>0. \A m \in K : m <= n <=> m <= n - 1
    BY <1>5
  <2>1. UpTo(K, n) = UpTo(K, n - 1)
    BY <2>0 DEF UpTo
  <2>. QED  BY <1>2, <1>3, <1>5, <2>1
<1>. QED  BY <1>4, <1>5

\* Every non-empty set of natural numbers has a least element.
LEMMA LeastNat ==
  ASSUME NEW T \in SUBSET Nat, T # {}
  PROVE  \E n \in T : \A m \in T : n <= m
<1>1. PICK n \in T : \A m \in T : <<m, n>> \notin OpToRel(<, Nat)
  BY NatLessThanWellFounded, WFMin
<1>2. \A m \in T : ~(m < n)
  BY <1>1 DEF OpToRel
<1>3. \A m \in T : n <= m
  BY <1>2
<1>. QED  BY <1>3

\* And when it is bounded, a greatest one.
LEMMA GreatestNat ==
  ASSUME NEW N \in Nat, NEW T \in SUBSET (0..N), T # {}
  PROVE  \E n \in T : \A m \in T : m <= n
<1>. DEFINE D == {d \in 0..N : N - d \in T}
<1>1. D \in SUBSET Nat /\ D # {}
  <2>1. PICK n \in T : TRUE
    OBVIOUS
  <2>2. N - n \in 0..N /\ N - (N - n) = n
    OBVIOUS
  <2>3. N - n \in D
    BY <2>2
  <2>4. D \in SUBSET Nat
    OBVIOUS
  <2>. HIDE DEF D
  <2>. QED  BY <2>3, <2>4
<1>2. PICK d \in D : \A e \in D : d <= e
  <2>. HIDE DEF D
  <2>. QED  BY <1>1, LeastNat
<1>3. ASSUME NEW m \in T  PROVE m <= N - d
  <2>1. N - m \in D
    OBVIOUS
  <2>2. d <= N - m /\ m \in Int /\ d \in Int
    BY <1>2, <2>1
  <2>. QED  BY <2>2
<1>. QED  BY <1>2, <1>3

\* Each number from 1 to the size of a finite set of positions is the rank of one
\* of its members.
LEMMA RankOnto ==
  ASSUME NEW K \in SUBSET (Nat \ {0}), IsFiniteSet(K), NEW N \in Nat,
         \A k \in K : k <= N,
         NEW j \in 1..Cardinality(K)
  PROVE  \E k \in K : RankIn(K, k) = j
<1>. DEFINE T == {n \in Nat : j <= Cardinality(UpTo(K, n))}
<1>1. UpTo(K, N) = K
  BY DEF UpTo
<1>2. N \in T
  BY <1>1
<1>3. PICK n \in T : \A m \in T : n <= m
  BY <1>2, LeastNat
<1>4. n # 0
  <2>0. \A m \in K : ~(m <= 0)
    OBVIOUS
  <2>1. UpTo(K, 0) = {}
    BY <2>0 DEF UpTo
  <2>. QED  BY <2>1, FS_EmptySet
<1>. HIDE DEF T
<1>5. n \in Nat \ {0} /\ j <= Cardinality(UpTo(K, n)) /\ n - 1 \in Nat
  BY <1>3, <1>4 DEF T
<1>6. ~(j <= Cardinality(UpTo(K, n - 1)))
  BY <1>3, <1>5 DEF T
<1>7. /\ Cardinality(UpTo(K, n - 1)) \in Nat
      /\ Cardinality(UpTo(K, n)) =
           Cardinality(UpTo(K, n - 1)) + (IF n \in K THEN 1 ELSE 0)
  BY <1>5, UpToStep
<1>8. n \in K /\ Cardinality(UpTo(K, n)) = j
  BY <1>5, <1>6, <1>7
<1>. QED  BY <1>8 DEF RankIn, UpTo

\* Two members of a finite set of positions have different ranks, and all ranks
\* are between 1 and the size of the set.
LEMMA RankOneToOne ==
  ASSUME NEW K \in SUBSET (Nat \ {0}), IsFiniteSet(K), NEW k \in K
  PROVE  /\ RankIn(K, k) \in 1..Cardinality(K)
         /\ \A m \in K : RankIn(K, m) = RankIn(K, k) => m = k
<1>1. \A m \in K : IsFiniteSet(UpTo(K, m)) /\ UpTo(K, m) \in SUBSET K
  BY UpToStep DEF UpTo
<1>2. Cardinality(K) \in Nat /\ \A m \in K : Cardinality(UpTo(K, m)) \in Nat
  BY <1>1, FS_CardinalityType
<1>3. \A m \in K : Cardinality(UpTo(K, m)) <= Cardinality(K)
  BY <1>1, FS_Subset
<1>4. Cardinality(UpTo(K, k)) # 0
  <2>1. k \in UpTo(K, k)
    BY DEF UpTo
  <2>. QED  BY <2>1, <1>1, FS_EmptySet
<1>5. ASSUME NEW m \in K, NEW n \in K, m < n
      PROVE  Cardinality(UpTo(K, m)) # Cardinality(UpTo(K, n))
  <2>0. (\A i \in K : i <= m => i <= n) /\ n <= n /\ ~(n <= m)
    BY <1>5
  <2>1. UpTo(K, m) \in SUBSET UpTo(K, n) /\ n \in UpTo(K, n) /\ n \notin UpTo(K, m)
    BY <2>0 DEF UpTo
  <2>. QED  BY <1>1, <2>1, FS_Subset
<1>6. \A m \in K : RankIn(K, m) = Cardinality(UpTo(K, m))
  BY DEF RankIn, UpTo
<1>7. ASSUME NEW m \in K, RankIn(K, m) = RankIn(K, k)
      PROVE  m = k
  BY <1>5, <1>6, <1>7
<1>. QED  BY <1>2, <1>3, <1>4, <1>6, <1>7

\* Each element of KeepOnly(s, T) is from a position of s that is kept, a later one
\* from a later one, and every such position is used.
Picks(s, T, at, N) ==
  /\ DOMAIN KeepOnly(s, T) = 1..N
  /\ \A j \in 1..N : at[j] \in Kept(s, T) /\ KeepOnly(s, T)[j] = s[at[j]]
  /\ \A j, k \in 1..N : j < k => at[j] < at[k]
  /\ \A k \in Kept(s, T) : \E j \in 1..N : at[j] = k
LEMMA KeepOnlyPicks ==
  ASSUME NEW S, NEW s \in Seq(S), NEW T
  PROVE  /\ Kept(s, T) \in SUBSET (1..Len(s))
         /\ \E at, N : N \in Nat /\ Picks(s, T, at, N)
<1>. DEFINE K == Kept(s, T)
            N == Cardinality(K)
            pick(j) == CHOOSE k \in K : RankIn(K, k) = j
            at == [j \in 1..N |-> pick(j)]
<1>1. Len(s) \in Nat /\ DOMAIN s = 1..Len(s)
  BY LenProperties
<1>2. K \in SUBSET (1..Len(s)) /\ K \in SUBSET (Nat \ {0}) /\ \A k \in K : k <= Len(s)
  BY <1>1 DEF Kept
<1>3. IsFiniteSet(K)
  <2>1. IsFiniteSet(1..Len(s))
    BY <1>1, FS_Interval
  <2>. QED  BY <1>2, <2>1, FS_Subset
<1>4. N \in Nat
  BY <1>3, FS_CardinalityType
<1>5. KeepOnly(s, T) = [j \in 1..N |-> s[pick(j)]]
  BY DEF KeepOnly
<1>. HIDE DEF K, N
<1>6. \A j \in 1..N : \E k \in K : RankIn(K, k) = j
  BY <1>1, <1>2, <1>3, RankOnto DEF N
<1>7. \A j \in 1..N : pick(j) \in K /\ RankIn(K, pick(j)) = j
  BY <1>6
<1>8. \A k \in K : RankIn(K, k) \in 1..N /\ pick(RankIn(K, k)) = k
  BY <1>2, <1>3, <1>7, RankOneToOne DEF N
<1>. HIDE DEF pick
<1>9. ASSUME NEW j \in 1..N, NEW k \in 1..N, j < k
      PROVE  pick(j) < pick(k)
  <2>1. pick(j) \in K /\ pick(k) \in K /\ RankIn(K, pick(j)) = j /\ RankIn(K, pick(k)) = k
    BY <1>7
  <2>0. pick(j) \in Nat /\ pick(k) \in Nat /\ \A m \in K : m \in Nat
    BY <1>2, <2>1
  <2>2. SUFFICES ASSUME pick(k) <= pick(j)  PROVE FALSE
    BY <2>0
  <2>3. UpTo(K, pick(k)) \in SUBSET UpTo(K, pick(j))
    <3>1. \A m \in K : m <= pick(k) => m <= pick(j)
      BY <2>0, <2>2
    <3>. QED  BY <3>1 DEF UpTo
  <2>4. IsFiniteSet(UpTo(K, pick(j)))
    BY <1>2, <1>3, <2>1, UpToStep
  <2>5. Cardinality(UpTo(K, pick(k))) <= Cardinality(UpTo(K, pick(j)))
    BY <2>3, <2>4, FS_Subset
  <2>. QED  BY <1>4, <1>9, <2>1, <2>5 DEF RankIn, UpTo
<1>10. Picks(s, T, at, N)
  <2>1. DOMAIN KeepOnly(s, T) = 1..N /\ \A j \in 1..N : at[j] = pick(j) /\ KeepOnly(s, T)[j] = s[pick(j)]
    BY <1>5
  <2>2. \A k \in K : \E j \in 1..N : at[j] = k
    BY <1>8
  <2>. HIDE DEF at
  <2>. QED  BY <1>7, <1>9, <2>1, <2>2 DEF Picks, K
<1>. QED  BY <1>2, <1>4, <1>10 DEF K

\* KeepOnly(s, T) is a list of the elements of s that are in T, all of them, and
\* repeats no element when s repeats none.
LEMMA KeepOnlyProperties ==
  ASSUME NEW S, NEW s \in Seq(S), NEW T
  PROVE  /\ KeepOnly(s, T) \in Seq(S)
         /\ Range(KeepOnly(s, T)) = Range(s) \cap T
         /\ NoRepeat(s) => NoRepeat(KeepOnly(s, T))
<1>1. /\ Len(s) \in Nat /\ DOMAIN s = 1..Len(s)
      /\ \A k \in DOMAIN s : s[k] \in S
  BY LenProperties, ElementOfSeq
<1>2. PICK at, N : N \in Nat /\ Picks(s, T, at, N)
  BY KeepOnlyPicks
<1>3. \A k \in Kept(s, T) : k \in DOMAIN s /\ s[k] \in T
  BY DEF Kept
<1>. DEFINE r == KeepOnly(s, T)
<1>4. /\ DOMAIN r = 1..N
      /\ \A j \in 1..N : at[j] \in Kept(s, T) /\ r[j] = s[at[j]]
      /\ \A j, k \in 1..N : j < k => at[j] < at[k]
      /\ \A k \in Kept(s, T) : \E j \in 1..N : at[j] = k
  BY <1>2 DEF Picks
<1>5. r = [j \in 1..N |-> r[j]]
  BY <1>4 DEF KeepOnly
<1>. HIDE DEF r
<1>6. r \in Seq(S)
  <2>1. \A j \in 1..N : r[j] \in S
    BY <1>1, <1>3, <1>4
  <2>. QED  BY <1>2, <1>5, <2>1, IsASeq
<1>7. Range(r) = Range(s) \cap T
  <2>1. Range(r) \in SUBSET (Range(s) \cap T)
    BY <1>3, <1>4 DEF Range
  <2>2. ASSUME NEW x \in Range(s) \cap T  PROVE x \in Range(r)
    <3>1. PICK k \in DOMAIN s : s[k] = x
      BY DEF Range
    <3>2. k \in Kept(s, T)
      BY <3>1 DEF Kept
    <3>. QED  BY <1>4, <3>1, <3>2 DEF Range
  <2>. QED  BY <2>1, <2>2
<1>8. ASSUME NoRepeat(s)
      PROVE  NoRepeat(r)
  <2>1. SUFFICES ASSUME NEW j \in 1..N, NEW k \in 1..N, r[j] = r[k]
                 PROVE  j = k
    BY <1>4 DEF NoRepeat
  <2>2. at[j] = at[k]
    BY <1>3, <1>4, <1>8, <2>1 DEF NoRepeat
  <2>. QED  BY <1>1, <1>2, <1>3, <1>4, <2>2
<1>. QED  BY <1>6, <1>7, <1>8 DEF r

\* Where the elements are when one was put in at a position the list has.
LEMMA InsertAtPosElements ==
  ASSUME NEW S, NEW s \in Seq(S), NEW e \in S, NEW pos \in Int, InsertDefined(s, pos)
  PROVE  LET r == InsertAtPos(s, pos, e)
         IN  /\ r \in Seq(S) /\ Len(r) = Len(s) + 1
             /\ \A k \in 1..(Len(s) + 1) :
                  r[k] = IF k <= pos THEN s[k] ELSE IF k = pos + 1 THEN e ELSE s[k - 1]
<1>. DEFINE front == SubSeq(s, 1, pos)
            back  == SubSeq(s, pos + 1, Len(s))
            one   == <<e>>
            r     == InsertAtPos(s, pos, e)
<1>1. /\ Len(s) \in Nat /\ DOMAIN s = 1..Len(s)
      /\ \A k \in 1..Len(s) : s[k] \in S
      /\ 0 <= pos /\ pos <= Len(s)
  BY LenProperties, ElementOfSeq DEF InsertDefined
<1>2. r = (front \o one) \o back
  <2>1. (pos + 1) - 1 = pos
    OBVIOUS
  <2>. QED  BY <2>1 DEF InsertAtPos, InsertAt
<1>3. /\ front \in Seq(S) /\ Len(front) = pos
      /\ \A k \in 1..pos : front[k] = s[k]
  <2>1. \A k \in 1..pos : s[k] \in S
    BY <1>1
  <2>2. /\ front \in Seq(S) /\ Len(front) = IF 1 <= pos THEN pos - 1 + 1 ELSE 0
        /\ \A k \in 1..(pos - 1 + 1) : front[k] = s[1 + k - 1]
    BY <2>1, SubSeqProperties
  <2>. QED  BY <1>1, <2>2
<1>4. /\ back \in Seq(S) /\ Len(back) = Len(s) - pos
      /\ \A k \in 1..(Len(s) - pos) : back[k] = s[pos + k]
  <2>1. \A k \in (pos + 1)..Len(s) : s[k] \in S
    BY <1>1
  <2>2. /\ back \in Seq(S)
        /\ Len(back) = IF pos + 1 <= Len(s) THEN Len(s) - (pos + 1) + 1 ELSE 0
        /\ \A k \in 1..(Len(s) - (pos + 1) + 1) : back[k] = s[(pos + 1) + k - 1]
    BY <1>1, <2>1, SubSeqProperties
  <2>. HIDE DEF front, back, one, r
  <2>3. Len(s) - (pos + 1) + 1 = Len(s) - pos /\ \A k \in Int : (pos + 1) + k - 1 = pos + k
    BY <1>1
  <2>4. ASSUME NEW k \in 1..(Len(s) - pos)
        PROVE  back[k] = s[pos + k]
    <3>1. back[k] = s[(pos + 1) + k - 1]
      BY <2>2, <2>3
    <3>2. k \in Int
      OBVIOUS
    <3>. QED  BY <2>3, <3>1, <3>2
  <2>5. Len(back) = Len(s) - pos
    <3>1. pos + 1 <= Len(s) => Len(back) = Len(s) - (pos + 1) + 1
      BY <2>2
    <3>2. ~(pos + 1 <= Len(s)) => Len(back) = 0
      BY <2>2
    <3>3. Len(s) \in Int /\ pos <= Len(s)
      BY <1>1
    <3>4. pos + 1 <= Len(s) \/ Len(s) - pos = 0
      BY <3>3
    <3>. QED  BY <2>3, <3>1, <3>2, <3>4
  <2>6. back \in Seq(S)
    BY <2>2
  <2>. QED  BY <2>4, <2>5, <2>6
<1>5. one \in Seq(S) /\ Len(one) = 1 /\ one[1] = e
  OBVIOUS
<1>. HIDE DEF front, back, one, r
<1>6. /\ front \o one \in Seq(S) /\ Len(front \o one) = pos + 1
      /\ \A k \in 1..(pos + 1) : (front \o one)[k] = IF k <= pos THEN s[k] ELSE e
  <2>1. /\ front \o one \in Seq(S) /\ Len(front \o one) = pos + 1
        /\ \A k \in 1..(pos + 1) :
             (front \o one)[k] = IF k <= pos THEN front[k] ELSE one[k - pos]
    <3>1. /\ front \o one \in Seq(S) /\ Len(front \o one) = Len(front) + Len(one)
          /\ \A k \in 1..(Len(front) + Len(one)) :
               (front \o one)[k] = IF k <= Len(front) THEN front[k] ELSE one[k - Len(front)]
      BY <1>3, <1>5, ConcatProperties
    <3>. QED  BY <1>3, <1>5, <3>1
  <2>. QED  BY <1>1, <1>3, <1>5, <2>1
<1>7. /\ r \in Seq(S) /\ Len(r) = Len(s) + 1
      /\ \A k \in 1..(Len(s) + 1) :
           r[k] = IF k <= pos THEN s[k] ELSE IF k = pos + 1 THEN e ELSE s[k - 1]
  <2>1. /\ r \in Seq(S) /\ Len(r) = (pos + 1) + (Len(s) - pos)
        /\ \A k \in 1..((pos + 1) + (Len(s) - pos)) :
             r[k] = IF k <= pos + 1 THEN (front \o one)[k] ELSE back[k - (pos + 1)]
    <3>. DEFINE head == front \o one
    <3>1. head \in Seq(S) /\ Len(head) = pos + 1 /\ r = head \o back
      BY <1>2, <1>6
    <3>2. back \in Seq(S) /\ Len(back) = Len(s) - pos
      BY <1>4
    <3>. HIDE DEF head
    <3>3. /\ head \o back \in Seq(S) /\ Len(head \o back) = Len(head) + Len(back)
          /\ \A k \in 1..(Len(head) + Len(back)) :
               (head \o back)[k] = IF k <= Len(head) THEN head[k] ELSE back[k - Len(head)]
      BY <3>1, <3>2, ConcatProperties
    <3>4. /\ r \in Seq(S) /\ Len(r) = (pos + 1) + (Len(s) - pos)
          /\ \A k \in 1..((pos + 1) + (Len(s) - pos)) :
               r[k] = IF k <= pos + 1 THEN head[k] ELSE back[k - (pos + 1)]
      BY <3>1, <3>2, <3>3
    <3>. QED  BY <3>4 DEF head
  <2>2. (pos + 1) + (Len(s) - pos) = Len(s) + 1
    BY <1>1
  <2>3. ASSUME NEW k \in 1..(Len(s) + 1)
        PROVE  r[k] = IF k <= pos THEN s[k] ELSE IF k = pos + 1 THEN e ELSE s[k - 1]
    <3>1. CASE k <= pos + 1
      <4>0. k \in 1..(pos + 1)
        BY <1>1, <3>1
      <4>1. r[k] = (front \o one)[k]
        BY <2>1, <2>2, <3>1
      <4>2. r[k] = IF k <= pos THEN s[k] ELSE e
        BY <1>6, <4>0, <4>1
      <4>. QED  BY <1>1, <4>0, <4>2
    <3>2. CASE ~(k <= pos + 1)
      <4>1. k - (pos + 1) \in 1..(Len(s) - pos) /\ pos + (k - (pos + 1)) = k - 1
        BY <1>1, <3>2
      <4>2. r[k] = s[k - 1]
        BY <1>4, <2>1, <2>2, <3>2, <4>1
      <4>. QED  BY <1>1, <3>2, <4>2
    <3>. QED  BY <3>1, <3>2
  <2>. QED  BY <1>1, <2>1, <2>2, <2>3
<1>. QED  BY <1>7 DEF r

\* Putting an element in at a position the list has keeps the others.
LEMMA InsertAtPosProperties ==
  ASSUME NEW S, NEW s \in Seq(S), NEW e \in S, NEW pos \in Int, InsertDefined(s, pos)
  PROVE  /\ InsertAtPos(s, pos, e) \in Seq(S)
         /\ Range(InsertAtPos(s, pos, e)) = Range(s) \cup {e}
         /\ NoRepeat(s) /\ e \notin Range(s) => NoRepeat(InsertAtPos(s, pos, e))
<1>. DEFINE r == InsertAtPos(s, pos, e)
<1>1. /\ Len(s) \in Nat /\ DOMAIN s = 1..Len(s)
      /\ \A k \in 1..Len(s) : s[k] \in S
      /\ 0 <= pos /\ pos <= Len(s)
  BY LenProperties, ElementOfSeq DEF InsertDefined
<1>7. /\ r \in Seq(S) /\ Len(r) = Len(s) + 1
      /\ \A k \in 1..(Len(s) + 1) :
           r[k] = IF k <= pos THEN s[k] ELSE IF k = pos + 1 THEN e ELSE s[k - 1]
  BY InsertAtPosElements
<1>. HIDE DEF r
<1>8. DOMAIN r = 1..(Len(s) + 1)
  BY <1>7, LenProperties
<1>9. Range(r) = Range(s) \cup {e}
  <2>1. ASSUME NEW k \in 1..(Len(s) + 1)
        PROVE  r[k] \in Range(s) \cup {e}
    BY <1>1, <1>7 DEF Range
  <2>2. ASSUME NEW k \in 1..Len(s)
        PROVE  \E j \in 1..(Len(s) + 1) : r[j] = s[k]
    <3>1. CASE k <= pos
      BY <1>1, <1>7, <3>1
    <3>2. CASE ~(k <= pos)
      <4>1. k + 1 \in 1..(Len(s) + 1) /\ r[k + 1] = s[k]
        BY <1>1, <1>7, <3>2
      <4>. QED  BY <4>1
    <3>. QED  BY <3>1, <3>2
  <2>3. pos + 1 \in 1..(Len(s) + 1) /\ r[pos + 1] = e
    BY <1>1, <1>7
  <2>. QED  BY <1>1, <1>8, <2>1, <2>2, <2>3 DEF Range
<1>10. ASSUME NoRepeat(s), e \notin Range(s)
       PROVE  NoRepeat(r)
  <2>1. \A k \in 1..Len(s) : s[k] # e
    BY <1>1, <1>10 DEF Range
  <2>2. \A j, k \in 1..Len(s) : s[j] = s[k] => j = k
    BY <1>1, <1>10 DEF NoRepeat
  <2>3. ASSUME NEW j \in 1..(Len(s) + 1), NEW k \in 1..(Len(s) + 1), r[j] = r[k]
        PROVE  j = k
    BY <1>1, <1>7, <2>1, <2>2, <2>3
  <2>. QED  BY <1>8, <2>3 DEF NoRepeat
<1>. QED  BY <1>7, <1>9, <1>10 DEF r

\* So does putting it at the end.
LEMMA AppendListProperties ==
  ASSUME NEW S, NEW s \in Seq(S), NEW e \in S
  PROVE  /\ Append(s, e) \in Seq(S)
         /\ Range(Append(s, e)) = Range(s) \cup {e}
         /\ NoRepeat(s) /\ e \notin Range(s) => NoRepeat(Append(s, e))
<1>1. Len(s) \in Nat /\ DOMAIN s = 1..Len(s)
  BY LenProperties
<1>2. /\ Append(s, e) \in Seq(S) /\ Len(Append(s, e)) = Len(s) + 1
      /\ \A k \in 1..Len(s) : Append(s, e)[k] = s[k]
      /\ Append(s, e)[Len(s) + 1] = e
  BY AppendProperties
<1>. DEFINE r == Append(s, e)
<1>. HIDE DEF r
<1>3. DOMAIN r = 1..(Len(s) + 1)
  BY <1>2, LenProperties DEF r
<1>4. /\ \A k \in 1..Len(s) : r[k] = s[k] /\ k \in 1..(Len(s) + 1)
      /\ r[Len(s) + 1] = e /\ Len(s) + 1 \in 1..(Len(s) + 1)
      /\ \A k \in 1..(Len(s) + 1) : k \in 1..Len(s) \/ k = Len(s) + 1
  BY <1>1, <1>2 DEF r
<1>5. Range(r) = Range(s) \cup {e}
  BY <1>1, <1>3, <1>4 DEF Range
<1>6. ASSUME NoRepeat(s), e \notin Range(s)
      PROVE  NoRepeat(r)
  BY <1>1, <1>3, <1>4, <1>6 DEF NoRepeat, Range
<1>. QED  BY <1>2, <1>5, <1>6 DEF r

\* InsertOrAppend always has a position to use.
LEMMA InsertOrAppendProperties ==
  ASSUME NEW S, NEW s \in Seq(S), NEW e \in S, NEW pos \in Int
  PROVE  /\ InsertOrAppend(s, pos, e) \in Seq(S)
         /\ Range(InsertOrAppend(s, pos, e)) = Range(s) \cup {e}
         /\ NoRepeat(s) /\ e \notin Range(s) => NoRepeat(InsertOrAppend(s, pos, e))
<1>1. Len(s) \in Nat
  BY LenProperties
<1>2. CASE pos < 0 \/ pos >= Len(s)
  BY <1>2, AppendListProperties DEF InsertOrAppend
<1>3. CASE ~(pos < 0 \/ pos >= Len(s))
  <2>1. InsertDefined(s, pos)
    BY <1>1, <1>3 DEF InsertDefined
  <2>. QED  BY <1>3, <2>1, InsertAtPosProperties DEF InsertOrAppend
<1>. QED  BY <1>2, <1>3

\* The elements of the list with the new one.
LEMMA InsertOrAppendRange ==
  ASSUME NEW S, NEW s \in Seq(S), NEW e \in S, NEW pos \in Int
  PROVE  Range(InsertOrAppend(s, pos, e)) = Range(s) \cup {e}
  BY InsertOrAppendProperties

\* A list that does not have the element yet keeps its elements apart.
LEMMA InsertedNew ==
  ASSUME NEW S, NEW s \in Seq(S), NoRepeat(s), NEW e \in S, e \notin Range(s),
         NEW pos \in Int, NEW r, r = InsertOrAppend(s, pos, e)
  PROVE  r \in Seq(S) /\ Range(r) = Range(s) \cup {e} /\ NoRepeat(r)
<1>1. InsertOrAppend(s, pos, e) \in Seq(S)
  BY InsertOrAppendProperties
<1>2. Range(InsertOrAppend(s, pos, e)) = Range(s) \cup {e}
  BY InsertOrAppendRange, Zenon
<1>3. NoRepeat(InsertOrAppend(s, pos, e))
  BY InsertOrAppendProperties, Zenon
<1>. QED  BY <1>1, <1>2, <1>3, Zenon

\* Where an event of a list without repetitions is.
LEMMA IndexOfProperties ==
  ASSUME NEW S, NEW s \in Seq(S), NoRepeat(s), NEW e \in Range(s)
  PROVE  /\ IndexOf(s, e) \in 0..(Len(s) - 1)
         /\ s[IndexOf(s, e) + 1] = e
<1>1. Len(s) \in Nat /\ DOMAIN s = 1..Len(s)
  BY LenProperties
<1>2. PICK k \in DOMAIN s : s[k] = e
  BY DEF Range
<1>3. s[k] = e /\ \A j \in 1..(k - 1) : s[j] # e
  BY <1>1, <1>2 DEF NoRepeat
<1>. DEFINE first == CHOOSE n \in DOMAIN s : s[n] = e /\ \A j \in 1..(n - 1) : s[j] # e
<1>4. first \in DOMAIN s /\ s[first] = e
  BY <1>2, <1>3
<1>5. IndexOf(s, e) = first - 1
  BY DEF IndexOf
<1>. HIDE DEF first
<1>6. first - 1 \in 0..(Len(s) - 1) /\ first - 1 + 1 = first
  BY <1>1, <1>4
<1>. QED  BY <1>4, <1>5, <1>6

\* What RemoveAt is, with Qt's position.
LEMMA RemoveAtIs ==
  ASSUME NEW s, NEW p \in Int
  PROVE  RemoveAt(s, p + 1) = SubSeq(s, 1, p) \o SubSeq(s, p + 2, Len(s))
<1>. DEFINE q == p + 1
<1>1. q - 1 = p /\ q + 1 = p + 2
  OBVIOUS
<1>. HIDE DEF q
<1>2. RemoveAt(s, q) = SubSeq(s, 1, q - 1) \o SubSeq(s, q + 1, Len(s))
  BY Zenon DEF RemoveAt
<1>3. RemoveAt(s, q) = SubSeq(s, 1, p) \o SubSeq(s, p + 2, Len(s))
  BY <1>1, <1>2, Zenon
<1>. QED  BY <1>3 DEF q

\* Taking one element out of a list without repetitions takes it away altogether.
LEMMA RemoveOneElements ==
  ASSUME NEW S, NEW s \in Seq(S), NoRepeat(s), NEW e \in Range(s)
  PROVE  LET r == RemoveOne(s, e)
             p == IndexOf(s, e)
         IN  /\ r \in Seq(S) /\ Len(r) = Len(s) - 1
             /\ p \in 0..(Len(s) - 1) /\ s[p + 1] = e
             /\ \A k \in 1..(Len(s) - 1) : r[k] = IF k <= p THEN s[k] ELSE s[k + 1]
<1>. DEFINE p     == IndexOf(s, e)
            front == SubSeq(s, 1, p)
            back  == SubSeq(s, p + 2, Len(s))
            r     == front \o back
<1>1. /\ Len(s) \in Nat /\ DOMAIN s = 1..Len(s)
      /\ p \in 0..(Len(s) - 1) /\ s[p + 1] = e
      /\ \A k \in 1..Len(s) : s[k] \in S
  BY IndexOfProperties, LenProperties, ElementOfSeq
<1>3. RemoveOne(s, e) = r
  <2>1. RemoveOne(s, e) = RemoveAt(s, p + 1)
    BY Zenon DEF RemoveOne
  <2>2. p \in Int
    BY <1>1
  <2>. HIDE DEF p
  <2>. QED  BY <2>1, <2>2, RemoveAtIs, Zenon
<1>. HIDE DEF p
<1>4. front \in Seq(S) /\ Len(front) = p /\ \A k \in 1..p : front[k] = s[k]
  <2>1. \A k \in 1..p : s[k] \in S
    BY <1>1
  <2>2. /\ front \in Seq(S) /\ Len(front) = IF 1 <= p THEN p - 1 + 1 ELSE 0
        /\ \A k \in 1..(p - 1 + 1) : front[k] = s[1 + k - 1]
    BY <1>1, <2>1, SubSeqProperties
  <2>. QED  BY <1>1, <2>2
<1>5. /\ back \in Seq(S) /\ Len(back) = Len(s) - (p + 1)
      /\ \A k \in 1..(Len(s) - (p + 1)) : back[k] = s[p + 1 + k]
  <2>1. \A k \in (p + 2)..Len(s) : s[k] \in S
    BY <1>1
  <2>2. /\ back \in Seq(S)
        /\ Len(back) = IF p + 2 <= Len(s) THEN Len(s) - (p + 2) + 1 ELSE 0
        /\ \A k \in 1..(Len(s) - (p + 2) + 1) : back[k] = s[(p + 2) + k - 1]
    BY <1>1, <2>1, SubSeqProperties
  <2>. HIDE DEF front, back, r
  <2>3. /\ Len(s) - (p + 2) + 1 = Len(s) - (p + 1)
        /\ \A k \in Int : (p + 2) + k - 1 = p + 1 + k
        /\ p + 2 <= Len(s) \/ Len(s) - (p + 1) = 0
    <3>1. Len(s) \in Int /\ p \in Int /\ p <= Len(s) - 1
      BY <1>1
    <3>. QED  BY <3>1
  <2>4. Len(back) = Len(s) - (p + 1)
    <3>1. p + 2 <= Len(s) => Len(back) = Len(s) - (p + 2) + 1
      BY <2>2
    <3>2. ~(p + 2 <= Len(s)) => Len(back) = 0
      BY <2>2
    <3>. QED  BY <2>3, <3>1, <3>2
  <2>5. ASSUME NEW k \in 1..(Len(s) - (p + 1))
        PROVE  back[k] = s[p + 1 + k]
    <3>1. back[k] = s[(p + 2) + k - 1]
      BY <2>2, <2>3
    <3>2. k \in Int
      OBVIOUS
    <3>. QED  BY <2>3, <3>1, <3>2
  <2>. QED  BY <2>2, <2>4, <2>5
<1>. HIDE DEF front, back
<1>6. /\ r \in Seq(S) /\ Len(r) = Len(s) - 1
      /\ \A k \in 1..(Len(s) - 1) : r[k] = IF k <= p THEN s[k] ELSE s[k + 1]
  <2>1. /\ r \in Seq(S) /\ Len(r) = Len(front) + Len(back)
        /\ \A k \in 1..(Len(front) + Len(back)) :
             r[k] = IF k <= Len(front) THEN front[k] ELSE back[k - Len(front)]
    BY <1>4, <1>5, ConcatProperties
  <2>. HIDE DEF r
  <2>2. p + (Len(s) - (p + 1)) = Len(s) - 1
    BY <1>1
  <2>3. ASSUME NEW k \in 1..(Len(s) - 1)
        PROVE  r[k] = IF k <= p THEN s[k] ELSE s[k + 1]
    <3>1. CASE k <= p
      <4>1. k \in 1..p
        BY <1>1, <3>1
      <4>. QED  BY <1>4, <2>1, <2>2, <1>5, <3>1, <4>1
    <3>2. CASE ~(k <= p)
      <4>1. k - p \in 1..(Len(s) - (p + 1)) /\ p + 1 + (k - p) = k + 1
        BY <1>1, <3>2
      <4>2. r[k] = back[k - p]
        BY <1>4, <1>5, <2>1, <2>2, <3>2
      <4>. QED  BY <1>5, <3>2, <4>1, <4>2
    <3>. QED  BY <3>1, <3>2
  <2>. QED  BY <1>4, <1>5, <2>1, <2>2, <2>3
<1>. QED  BY <1>1, <1>3, <1>6 DEF r, p

LEMMA RemoveOneProperties ==
  ASSUME NEW S, NEW s \in Seq(S), NoRepeat(s), NEW e
  PROVE  /\ RemoveOne(s, e) \in Seq(S)
         /\ Range(RemoveOne(s, e)) = Range(s) \ {e}
         /\ NoRepeat(RemoveOne(s, e))
<1>1. CASE e \notin Range(s)
  BY <1>1 DEF RemoveOne
<1>2. CASE e \in Range(s)
  <2>. DEFINE p == IndexOf(s, e)
              r == RemoveOne(s, e)
  <2>1. Len(s) \in Nat /\ DOMAIN s = 1..Len(s) /\ p \in 0..(Len(s) - 1) /\ s[p + 1] = e
    BY <1>2, IndexOfProperties, LenProperties
  <2>6. /\ r \in Seq(S) /\ Len(r) = Len(s) - 1
        /\ \A k \in 1..(Len(s) - 1) : r[k] = IF k <= p THEN s[k] ELSE s[k + 1]
    BY <1>2, RemoveOneElements
  <2>. HIDE DEF p
  <2>. HIDE DEF r
  <2>7. DOMAIN r = 1..(Len(s) - 1)
    BY <2>6, LenProperties
  <2>8. \A j, k \in 1..Len(s) : s[j] = s[k] => j = k
    BY <2>1 DEF NoRepeat
  <2>9. Range(r) = Range(s) \ {e}
    <3>1. ASSUME NEW k \in 1..(Len(s) - 1)
          PROVE  r[k] \in Range(s) \ {e}
      <4>1. CASE k <= p
        <5>1. k \in 1..Len(s) /\ k # p + 1 /\ p + 1 \in 1..Len(s) /\ r[k] = s[k]
          BY <2>1, <2>6, <4>1
        <5>. QED  BY <2>1, <2>8, <5>1 DEF Range
      <4>2. CASE ~(k <= p)
        <5>1. k + 1 \in 1..Len(s) /\ k + 1 # p + 1 /\ p + 1 \in 1..Len(s) /\ r[k] = s[k + 1]
          BY <2>1, <2>6, <4>2
        <5>. QED  BY <2>1, <2>8, <5>1 DEF Range
      <4>. QED  BY <4>1, <4>2
    <3>2. ASSUME NEW k \in 1..Len(s), s[k] # e
          PROVE  \E j \in 1..(Len(s) - 1) : r[j] = s[k]
      <4>0. k # p + 1
        BY <2>1, <3>2
      <4>1. CASE k <= p
        <5>1. k \in 1..(Len(s) - 1)
          BY <2>1, <4>1
        <5>. QED  BY <2>6, <4>1, <5>1
      <4>2. CASE ~(k <= p)
        <5>1. k - 1 \in 1..(Len(s) - 1) /\ ~(k - 1 <= p) /\ k - 1 + 1 = k
          BY <2>1, <4>0, <4>2
        <5>. QED  BY <2>6, <5>1
      <4>. QED  BY <4>1, <4>2
    <3>3. \A x \in Range(s) \ {e} : \E k \in 1..Len(s) : s[k] = x
      BY <2>1 DEF Range
    <3>4. \A x \in Range(s) \ {e} : x \in Range(r)
      BY <2>7, <3>2, <3>3 DEF Range
    <3>5. \A x \in Range(r) : x \in Range(s) \ {e}
      BY <2>7, <3>1 DEF Range
    <3>. QED  BY <3>4, <3>5
  <2>10. ASSUME NEW j \in 1..(Len(s) - 1), NEW k \in 1..(Len(s) - 1), r[j] = r[k]
         PROVE  j = k
    <3>1. /\ j \in 1..Len(s) /\ k \in 1..Len(s)
          /\ j + 1 \in 1..Len(s) /\ k + 1 \in 1..Len(s) /\ p \in Int
      BY <2>1
    <3>2. CASE j <= p /\ k <= p
      BY <2>6, <2>8, <2>10, <3>1, <3>2
    <3>3. CASE ~(j <= p) /\ ~(k <= p)
      <4>1. j + 1 = k + 1
        BY <2>6, <2>8, <2>10, <3>1, <3>3
      <4>. QED  BY <4>1
    <3>4. CASE j <= p /\ ~(k <= p)
      <4>1. j = k + 1
        BY <2>6, <2>8, <2>10, <3>1, <3>4
      <4>. QED  BY <3>1, <3>4, <4>1
    <3>5. CASE ~(j <= p) /\ k <= p
      <4>1. j + 1 = k
        BY <2>6, <2>8, <2>10, <3>1, <3>5
      <4>. QED  BY <3>1, <3>5, <4>1
    <3>. QED  BY <3>2, <3>3, <3>4, <3>5
  <2>. QED  BY <2>6, <2>7, <2>9, <2>10 DEF NoRepeat, r
<1>. QED  BY <1>1, <1>2

\* Taking out an element that occurs once makes a list one shorter.
LEMMA RemoveAllLength ==
  ASSUME NEW S, NEW s \in Seq(S), NoRepeat(s), NEW e \in Range(s)
  PROVE  Len(RemoveAll(s, e)) = Len(s) - 1
<1>. DEFINE K == Kept(s, Range(s) \ {e})
<1>1. Len(s) \in Nat /\ DOMAIN s = 1..Len(s)
  BY LenProperties
<1>2. PICK k \in 1..Len(s) : s[k] = e
  BY <1>1 DEF Range
<1>3. K = (1..Len(s)) \ {k}
  BY <1>1, <1>2 DEF Kept, NoRepeat, Range
<1>4. IsFiniteSet(1..Len(s)) /\ Cardinality(1..Len(s)) = Len(s)
  <2>1. /\ IsFiniteSet(1..Len(s))
        /\ Cardinality(1..Len(s)) = IF 1 > Len(s) THEN 0 ELSE Len(s) - 1 + 1
    BY <1>1, FS_Interval
  <2>. QED  BY <1>1, <2>1
<1>5. Cardinality(K) = Len(s) - 1
  BY <1>3, <1>4, FS_RemoveElement
<1>. HIDE DEF K
<1>6. RemoveAll(s, e) =
        [j \in 1..Cardinality(K) |-> s[CHOOSE n \in K : RankIn(K, n) = j]]
  BY Zenon DEF RemoveAll, KeepOnly, K
<1>7. DOMAIN RemoveAll(s, e) = 1..(Len(s) - 1)
  BY <1>5, <1>6
<1>8. RemoveAll(s, e) \in Seq(S)
  BY KeepOnlyProperties DEF RemoveAll
<1>9. Len(RemoveAll(s, e)) \in Nat /\ DOMAIN RemoveAll(s, e) = 1..Len(RemoveAll(s, e))
  BY <1>8, LenProperties
<1>10. Len(s) - 1 \in Nat
  BY <1>1, <1>2
<1>. DEFINE m == Len(RemoveAll(s, e))
<1>11. 1..m = 1..(Len(s) - 1) /\ m \in Nat
  BY <1>7, <1>9
<1>. HIDE DEF m
<1>12. m = Len(s) - 1
  <2>1. Cardinality(1..m) = m /\ Cardinality(1..(Len(s) - 1)) = Len(s) - 1
    <3>1. ASSUME NEW n \in Nat PROVE Cardinality(1..n) = n
      <4>1. Cardinality(1..n) = IF 1 > n THEN 0 ELSE n - 1 + 1
        BY FS_Interval
      <4>. QED  BY <4>1
    <3>. QED  BY <1>10, <1>11, <3>1
  <2>. QED  BY <1>11, <2>1
<1>. QED  BY <1>12 DEF m

\* Taking an element out and putting it at a position of the list, as moves do.
LEMMA MovedElement ==
  ASSUME NEW S, NEW s \in Seq(S), NoRepeat(s), NEW e \in S, NEW pos \in Int,
         InsertDefined(RemoveAll(s, e), pos)
  PROVE  LET r == InsertAtPos(RemoveAll(s, e), pos, e)
         IN  r \in Seq(S) /\ Range(r) = Range(s) \cup {e} /\ NoRepeat(r)
<1>. DEFINE q == RemoveAll(s, e)
<1>1. q \in Seq(S) /\ Range(q) = Range(s) \cap (Range(s) \ {e}) /\ NoRepeat(q)
  BY KeepOnlyProperties DEF RemoveAll
<1>2. InsertDefined(q, pos) /\ e \notin Range(q)
  BY <1>1
<1>. HIDE DEF q
<1>3. InsertAtPos(q, pos, e) \in Seq(S)
  BY <1>1, <1>2, InsertAtPosProperties
<1>4. Range(InsertAtPos(q, pos, e)) = Range(q) \cup {e}
  BY <1>1, <1>2, InsertAtPosProperties
<1>5. NoRepeat(InsertAtPos(q, pos, e))
  BY <1>1, <1>2, InsertAtPosProperties, Zenon
<1>6. Range(InsertAtPos(q, pos, e)) = Range(s) \cup {e}
  BY <1>1, <1>4
<1>. QED  BY <1>3, <1>5, <1>6 DEF q
-------------------------------------------------------------------------------
(* The order of a list.                                                         *)

Precedes(s, x, y) == \E j, k \in DOMAIN s : j < k /\ s[j] = x /\ s[k] = y

\* In a list that repeats nothing one of two elements comes first.
LEMMA PrecedesIsOrder ==
  ASSUME NEW S, NEW s \in Seq(S), NoRepeat(s)
  PROVE  /\ \A x : ~Precedes(s, x, x)
         /\ \A x, y : Precedes(s, x, y) => x \in Range(s) /\ y \in Range(s)
         /\ \A x, y, z : Precedes(s, x, y) /\ Precedes(s, y, z) => Precedes(s, x, z)
         /\ \A x, y \in Range(s) : x = y \/ Precedes(s, x, y) \/ Precedes(s, y, x)
<1>1. Len(s) \in Nat /\ DOMAIN s = 1..Len(s)
  BY LenProperties
<1>2. \A x : ~Precedes(s, x, x)
  BY <1>1 DEF Precedes, NoRepeat
<1>3. \A x, y : Precedes(s, x, y) => x \in Range(s) /\ y \in Range(s)
  BY DEF Precedes, Range
<1>4. \A x, y, z : Precedes(s, x, y) /\ Precedes(s, y, z) => Precedes(s, x, z)
  <2>. SUFFICES ASSUME NEW x, NEW y, NEW z, Precedes(s, x, y), Precedes(s, y, z)
                PROVE  Precedes(s, x, z)
    OBVIOUS
  <2>1. PICK j, k \in DOMAIN s : j < k /\ s[j] = x /\ s[k] = y
    BY DEF Precedes
  <2>2. PICK l, m \in DOMAIN s : l < m /\ s[l] = y /\ s[m] = z
    BY DEF Precedes
  <2>3. k = l
    BY <2>1, <2>2 DEF NoRepeat
  <2>. QED  BY <1>1, <2>1, <2>2, <2>3 DEF Precedes
<1>5. \A x, y \in Range(s) : x = y \/ Precedes(s, x, y) \/ Precedes(s, y, x)
  BY <1>1 DEF Precedes, Range
<1>. QED  BY <1>2, <1>3, <1>4, <1>5

\* The positions say the same.
LEMMA IndexOfOrder ==
  ASSUME NEW S, NEW s \in Seq(S), NoRepeat(s), NEW x \in Range(s), NEW y \in Range(s)
  PROVE  IndexOf(s, x) < IndexOf(s, y) <=> Precedes(s, x, y)
<1>. DEFINE j == IndexOf(s, x) + 1
            k == IndexOf(s, y) + 1
<1>1. Len(s) \in Nat /\ DOMAIN s = 1..Len(s)
  BY LenProperties
<1>2. IndexOf(s, x) \in 0..(Len(s) - 1) /\ IndexOf(s, y) \in 0..(Len(s) - 1) /\ s[j] = x /\ s[k] = y
  BY IndexOfProperties
<1>3. j \in DOMAIN s /\ k \in DOMAIN s
  BY <1>1, <1>2
<1>4. \A m \in DOMAIN s : (s[m] = x => m = j) /\ (s[m] = y => m = k)
  BY <1>2, <1>3 DEF NoRepeat
<1>5. Precedes(s, x, y) <=> j < k
  <2>. HIDE DEF j, k
  <2>. QED  BY <1>2, <1>3, <1>4 DEF Precedes
<1>. QED  BY <1>1, <1>2, <1>5

\* Taking elements out keeps the others in their order.
LEMMA KeepOnlyOrder ==
  ASSUME NEW S, NEW s \in Seq(S), NEW T, NEW x, NEW y
  PROVE  Precedes(KeepOnly(s, T), x, y) <=> x \in T /\ y \in T /\ Precedes(s, x, y)
<1>. DEFINE r == KeepOnly(s, T)
<1>0. Kept(s, T) \in SUBSET Nat
  BY KeepOnlyPicks, LenProperties
<1>1. PICK at, N : N \in Nat /\ Picks(s, T, at, N)
  BY KeepOnlyPicks
<1>2. /\ DOMAIN r = 1..N
      /\ \A j \in 1..N : at[j] \in Kept(s, T) /\ r[j] = s[at[j]]
      /\ \A j, k \in 1..N : j < k => at[j] < at[k]
      /\ \A k \in Kept(s, T) : \E j \in 1..N : at[j] = k
  BY <1>1 DEF Picks
<1>. HIDE DEF r
<1>3. ASSUME Precedes(r, x, y)
      PROVE  x \in T /\ y \in T /\ Precedes(s, x, y)
  BY <1>2, <1>3 DEF Precedes, Kept
<1>4. ASSUME x \in T, y \in T, Precedes(s, x, y)
      PROVE  Precedes(r, x, y)
  <2>1. PICK j, k \in DOMAIN s : j < k /\ s[j] = x /\ s[k] = y
    BY <1>4 DEF Precedes
  <2>2. j \in Kept(s, T) /\ k \in Kept(s, T)
    BY <1>4, <2>1 DEF Kept
  <2>3. PICK m, n \in 1..N : at[m] = j /\ at[n] = k
    BY <1>2, <2>2
  <2>4. m < n
    <3>1. n < m => at[n] < at[m]
      BY <1>2
    <3>2. j \in Nat /\ k \in Nat
      BY <1>0, <2>2
    <3>. QED  BY <1>1, <2>1, <2>3, <3>1, <3>2
  <2>. QED  BY <1>2, <2>1, <2>3, <2>4 DEF Precedes
<1>. QED  BY <1>3, <1>4 DEF r

\* So does putting one in.
LEMMA InsertAtPosOrder ==
  ASSUME NEW S, NEW s \in Seq(S), NEW e \in S, NEW pos \in Int, InsertDefined(s, pos),
         NEW x, NEW y, x # e, y # e
  PROVE  Precedes(InsertAtPos(s, pos, e), x, y) <=> Precedes(s, x, y)
<1>. DEFINE r == InsertAtPos(s, pos, e)
<1>1. Len(s) \in Nat /\ DOMAIN s = 1..Len(s) /\ 0 <= pos /\ pos <= Len(s)
  BY LenProperties DEF InsertDefined
<1>2. /\ r \in Seq(S) /\ Len(r) = Len(s) + 1
      /\ \A k \in 1..(Len(s) + 1) :
           r[k] = IF k <= pos THEN s[k] ELSE IF k = pos + 1 THEN e ELSE s[k - 1]
  BY InsertAtPosElements
<1>. HIDE DEF r
<1>3. DOMAIN r = 1..(Len(s) + 1)
  BY <1>2, LenProperties
<1>4. ASSUME Precedes(r, x, y)
      PROVE  Precedes(s, x, y)
  <2>1. PICK j, k \in 1..(Len(s) + 1) : j < k /\ r[j] = x /\ r[k] = y
    BY <1>3, <1>4 DEF Precedes
  <2>. DEFINE old(n) == IF n <= pos THEN n ELSE n - 1
  <2>2. j # pos + 1 /\ k # pos + 1
    BY <1>1, <1>2, <2>1
  <2>3. old(j) \in 1..Len(s) /\ old(k) \in 1..Len(s) /\ old(j) < old(k)
    BY <1>1, <2>1, <2>2
  <2>4. s[old(j)] = x /\ s[old(k)] = y
    BY <1>2, <2>1, <2>2
  <2>. QED  BY <1>1, <2>3, <2>4 DEF Precedes
<1>5. ASSUME Precedes(s, x, y)
      PROVE  Precedes(r, x, y)
  <2>1. PICK j, k \in 1..Len(s) : j < k /\ s[j] = x /\ s[k] = y
    BY <1>1, <1>5 DEF Precedes
  <2>. DEFINE new(n) == IF n <= pos THEN n ELSE n + 1
  <2>2. new(j) \in 1..(Len(s) + 1) /\ new(k) \in 1..(Len(s) + 1) /\ new(j) < new(k)
    BY <1>1, <2>1
  <2>3. ASSUME NEW n \in 1..Len(s)  PROVE r[new(n)] = s[n]
    <3>1. CASE n <= pos
      BY <1>1, <1>2, <3>1
    <3>2. CASE ~(n <= pos)
      <4>1. n + 1 \in 1..(Len(s) + 1) /\ ~(n + 1 <= pos) /\ n + 1 # pos + 1 /\ (n + 1) - 1 = n
        BY <1>1, <3>2
      <4>2. r[n + 1] = s[(n + 1) - 1]
        BY <1>2, <4>1
      <4>. QED  BY <3>2, <4>1, <4>2
    <3>. QED  BY <3>1, <3>2
  <2>. QED  BY <1>3, <2>1, <2>2, <2>3 DEF Precedes
<1>. QED  BY <1>4, <1>5 DEF r

LEMMA AppendOrder ==
  ASSUME NEW S, NEW s \in Seq(S), NEW e \in S, NEW x, NEW y, x # e, y # e
  PROVE  Precedes(Append(s, e), x, y) <=> Precedes(s, x, y)
<1>. DEFINE r == Append(s, e)
<1>1. Len(s) \in Nat /\ DOMAIN s = 1..Len(s)
  BY LenProperties
<1>2. /\ r \in Seq(S) /\ Len(r) = Len(s) + 1
      /\ \A k \in 1..Len(s) : r[k] = s[k]
      /\ r[Len(s) + 1] = e
  BY AppendProperties
<1>. HIDE DEF r
<1>3. DOMAIN r = 1..(Len(s) + 1)
  BY <1>2, LenProperties
<1>4. \A k \in 1..(Len(s) + 1) : k \in 1..Len(s) \/ k = Len(s) + 1
  BY <1>1
<1>5. \A k \in 1..Len(s) : k \in 1..(Len(s) + 1)
  BY <1>1
<1>6. ASSUME Precedes(r, x, y)  PROVE Precedes(s, x, y)
  BY <1>1, <1>2, <1>3, <1>4, <1>6 DEF Precedes
<1>7. ASSUME Precedes(s, x, y)  PROVE Precedes(r, x, y)
  BY <1>1, <1>2, <1>3, <1>5, <1>7 DEF Precedes
<1>. QED  BY <1>6, <1>7 DEF r

LEMMA InsertOrAppendOrder ==
  ASSUME NEW S, NEW s \in Seq(S), NEW e \in S, NEW pos \in Int, NEW x, NEW y, x # e, y # e
  PROVE  Precedes(InsertOrAppend(s, pos, e), x, y) <=> Precedes(s, x, y)
<1>1. Len(s) \in Nat
  BY LenProperties
<1>2. CASE pos < 0 \/ pos >= Len(s)
  BY <1>2, AppendOrder DEF InsertOrAppend
<1>3. CASE ~(pos < 0 \/ pos >= Len(s))
  <2>1. InsertDefined(s, pos)
    BY <1>1, <1>3 DEF InsertDefined
  <2>. QED  BY <1>3, <2>1, InsertAtPosOrder DEF InsertOrAppend
<1>. QED  BY <1>2, <1>3

LEMMA RemoveOneOrder ==
  ASSUME NEW S, NEW s \in Seq(S), NoRepeat(s), NEW e, NEW x, NEW y, x # e, y # e
  PROVE  Precedes(RemoveOne(s, e), x, y) <=> Precedes(s, x, y)
<1>1. CASE e \notin Range(s)
  BY <1>1 DEF RemoveOne
<1>2. CASE e \in Range(s)
  <2>. DEFINE r == RemoveOne(s, e)
              p == IndexOf(s, e)
  <2>1. /\ Len(s) \in Nat /\ DOMAIN s = 1..Len(s)
        /\ r \in Seq(S) /\ Len(r) = Len(s) - 1 /\ p \in 0..(Len(s) - 1) /\ s[p + 1] = e
        /\ \A k \in 1..(Len(s) - 1) : r[k] = IF k <= p THEN s[k] ELSE s[k + 1]
    BY <1>2, RemoveOneElements, LenProperties
  <2>. HIDE DEF r, p
  <2>2. DOMAIN r = 1..(Len(s) - 1)
    BY <2>1, LenProperties
  <2>3. ASSUME Precedes(r, x, y)  PROVE Precedes(s, x, y)
    <3>1. PICK j, k \in 1..(Len(s) - 1) : j < k /\ r[j] = x /\ r[k] = y
      BY <2>2, <2>3 DEF Precedes
    <3>. DEFINE old(n) == IF n <= p THEN n ELSE n + 1
    <3>2. old(j) \in 1..Len(s) /\ old(k) \in 1..Len(s) /\ old(j) < old(k)
      BY <2>1, <3>1
    <3>3. s[old(j)] = x /\ s[old(k)] = y
      BY <2>1, <3>1
    <3>. QED  BY <2>1, <3>2, <3>3 DEF Precedes
  <2>4. ASSUME Precedes(s, x, y)  PROVE Precedes(r, x, y)
    <3>1. PICK j, k \in 1..Len(s) : j < k /\ s[j] = x /\ s[k] = y
      BY <2>1, <2>4 DEF Precedes
    <3>. DEFINE new(n) == IF n <= p THEN n ELSE n - 1
    <3>2. j # p + 1 /\ k # p + 1
      BY <2>1, <3>1
    <3>3. new(j) \in 1..(Len(s) - 1) /\ new(k) \in 1..(Len(s) - 1) /\ new(j) < new(k)
      BY <2>1, <3>1, <3>2
    <3>4. ASSUME NEW n \in 1..Len(s), n # p + 1  PROVE r[new(n)] = s[n]
      <4>1. CASE n <= p
        BY <2>1, <3>4, <4>1
      <4>2. CASE ~(n <= p)
        <5>1. n - 1 \in 1..(Len(s) - 1) /\ ~(n - 1 <= p) /\ (n - 1) + 1 = n
          BY <2>1, <3>4, <4>2
        <5>2. r[n - 1] = s[(n - 1) + 1]
          BY <2>1, <5>1
        <5>. QED  BY <4>2, <5>1, <5>2
      <4>. QED  BY <4>1, <4>2
    <3>. QED  BY <2>2, <3>1, <3>2, <3>3, <3>4 DEF Precedes
  <2>. QED  BY <2>3, <2>4 DEF r
<1>. QED  BY <1>1, <1>2

\* A list without repetitions is determined by its elements and their order.
LEMMA OrderDetermines ==
  ASSUME NEW S, NEW s \in Seq(S), NEW r \in Seq(S), NoRepeat(s), NoRepeat(r),
         Range(s) = Range(r), \A x, y \in Range(s) : Precedes(s, x, y) <=> Precedes(r, x, y)
  PROVE  s = r
<1>1. /\ Len(s) \in Nat /\ DOMAIN s = 1..Len(s) /\ Len(r) \in Nat /\ DOMAIN r = 1..Len(r)
      /\ \A k \in DOMAIN s : s[k] \in Range(r) /\ \E j \in DOMAIN r : r[j] = s[k]
      /\ \A k \in DOMAIN r : r[k] \in Range(s) /\ \E j \in DOMAIN s : s[j] = r[k]
  BY LenProperties DEF Range
<1>. DEFINE Bad == {k \in Nat : k \in DOMAIN s /\ k \in DOMAIN r /\ s[k] # r[k]}
<1>2. Bad = {}
  <2>1. SUFFICES ASSUME Bad # {}  PROVE FALSE
    OBVIOUS
  <2>2. PICK k \in Bad : \A m \in Bad : k <= m
    BY <2>1, LeastNat
  <2>3. \A m \in 1..(k - 1) : s[m] = r[m] /\ m \in DOMAIN s /\ m \in DOMAIN r
    BY <1>1, <2>2
  <2>4. PICK j \in DOMAIN r : r[j] = s[k]
    BY <1>1, <2>2
  <2>5. PICK l \in DOMAIN s : s[l] = r[k]
    BY <1>1, <2>2
  <2>k. k \in DOMAIN s /\ k \in DOMAIN r /\ s[k] # r[k] /\ k \in Nat
    BY <2>2
  <2>6. k < j
    <3>1. j \in 1..Len(r) /\ Len(r) \in Nat
      BY LenProperties, <2>4
    <3>0. j # k
      BY <2>k, <2>4
    <3>2. j \notin 1..(k - 1)
      BY <2>k, <2>3, <2>4, <3>1 DEF NoRepeat
    <3>. QED  BY <2>k, <3>0, <3>1, <3>2
  <2>7. k < l
    <3>1. l \in 1..Len(s) /\ Len(s) \in Nat
      BY LenProperties, <2>5
    <3>0. l # k
      BY <2>k, <2>5
    <3>2. l \notin 1..(k - 1)
      BY <2>k, <2>3, <2>5, <3>1 DEF NoRepeat
    <3>. QED  BY <2>k, <3>0, <3>1, <3>2
  <2>8. Precedes(r, r[k], s[k]) /\ Precedes(s, s[k], r[k])
    BY <2>2, <2>4, <2>5, <2>6, <2>7 DEF Precedes
  <2>9. Precedes(r, s[k], r[k])
    BY <1>1, <2>2, <2>8
  <2>. QED  BY <2>8, <2>9, PrecedesIsOrder
<1>. HIDE DEF Bad
<1>3. \A k \in Nat : k \in DOMAIN s /\ k \in DOMAIN r => s[k] = r[k]
  BY <1>2 DEF Bad
<1>4. Len(s) \in Nat /\ Len(r) \in Nat /\ DOMAIN s = 1..Len(s) /\ DOMAIN r = 1..Len(r)
  BY <1>1
<1>5. Len(s) = Len(r)
  <2>1. CASE Len(s) < Len(r)
    <3>1. Len(s) + 1 \in DOMAIN r
      BY <1>1, <2>1
    <3>2. PICK j \in DOMAIN s : s[j] = r[Len(s) + 1]
      BY <1>1, <3>1
    <3>3. j \in DOMAIN r /\ r[j] = s[j] /\ j # Len(s) + 1
      BY <1>3, <1>4, <2>1
    <3>. QED  BY <3>1, <3>2, <3>3 DEF NoRepeat
  <2>2. CASE Len(r) < Len(s)
    <3>1. Len(r) + 1 \in DOMAIN s
      BY <1>1, <2>2
    <3>2. PICK j \in DOMAIN r : r[j] = s[Len(r) + 1]
      BY <1>1, <3>1
    <3>3. j \in DOMAIN s /\ r[j] = s[j] /\ j # Len(r) + 1
      BY <1>3, <1>4, <2>2
    <3>. QED  BY <3>1, <3>2, <3>3 DEF NoRepeat
  <2>3. \A m, n \in Nat : m < n \/ n < m \/ m = n
    OBVIOUS
  <2>. QED  BY <1>4, <2>1, <2>2, <2>3
<1>6. \A k \in 1..Len(s) : s[k] = r[k]
  BY <1>3, <1>4, <1>5
<1>. QED  BY <1>5, <1>6, SeqEqual
-------------------------------------------------------------------------------
(* What is taken out and put back.                                             *)

\* Nothing is taken out of a list of what is kept.
LEMMA KeepAll ==
  ASSUME NEW S, NEW s \in Seq(S), NoRepeat(s), NEW T, Range(s) \subseteq T
  PROVE  KeepOnly(s, T) = s
<1>. DEFINE r == KeepOnly(s, T)
<1>1. r \in Seq(S) /\ Range(r) = Range(s) /\ NoRepeat(r)
  <2>1. r \in Seq(S) /\ Range(r) = Range(s) \cap T /\ NoRepeat(r)
    BY KeepOnlyProperties
  <2>. QED  BY <2>1
<1>2. \A x, y \in Range(s) : Precedes(s, x, y) <=> Precedes(r, x, y)
  BY KeepOnlyOrder
<1>. HIDE DEF r
<1>3. s = r
  BY <1>1, <1>2, OrderDetermines
<1>. QED  BY <1>3 DEF r

\* An element that was put into a list can be taken out of it again.
LEMMA InsertedTakenOut ==
  ASSUME NEW S, NEW s \in Seq(S), NoRepeat(s), NEW e \in S, e \notin Range(s),
         NEW pos \in Int, NEW T, Range(s) \subseteq T, e \notin T
  PROVE  KeepOnly(InsertOrAppend(s, pos, e), T) = s
<1>. DEFINE q == InsertOrAppend(s, pos, e)
            r == KeepOnly(q, T)
<1>1. q \in Seq(S) /\ Range(q) = Range(s) \cup {e} /\ NoRepeat(q)
  BY InsertedNew
<1>2. \A x, y : x # e /\ y # e => (Precedes(q, x, y) <=> Precedes(s, x, y))
  BY InsertOrAppendOrder
<1>. HIDE DEF q
<1>3. r \in Seq(S) /\ Range(r) = Range(s) /\ NoRepeat(r)
  <2>1. r \in Seq(S) /\ Range(r) = Range(q) \cap T /\ NoRepeat(r)
    BY <1>1, KeepOnlyProperties
  <2>. QED  BY <1>1, <2>1
<1>4. \A x, y \in Range(s) : Precedes(s, x, y) <=> Precedes(r, x, y)
  BY <1>1, <1>2, KeepOnlyOrder
<1>. HIDE DEF r
<1>5. s = r
  BY <1>3, <1>4, OrderDetermines
<1>. QED  BY <1>5 DEF r, q

LEMMA InsertedRemoved ==
  ASSUME NEW S, NEW s \in Seq(S), NoRepeat(s), NEW e \in S, e \notin Range(s), NEW pos \in Int
  PROVE  RemoveAll(InsertOrAppend(s, pos, e), e) = s
<1>1. Range(InsertOrAppend(s, pos, e)) = Range(s) \cup {e}
  BY InsertOrAppendRange
<1>. DEFINE T == Range(InsertOrAppend(s, pos, e)) \ {e}
<1>2. Range(s) \subseteq T /\ e \notin T
  BY <1>1
<1>. HIDE DEF T
<1>3. KeepOnly(InsertOrAppend(s, pos, e), T) = s
  BY <1>2, InsertedTakenOut
<1>. QED  BY <1>3 DEF T, RemoveAll

\* Inside a list, InsertOrAppend is an insertion.
LEMMA InsertIsInsertOrAppend ==
  ASSUME NEW S, NEW s \in Seq(S), NEW e \in S, NEW pos \in Int, InsertDefined(s, pos)
  PROVE  InsertAtPos(s, pos, e) = InsertOrAppend(s, pos, e)
<1>1. Len(s) \in Nat /\ pos \in 0..Len(s)
  BY LenProperties DEF InsertDefined
<1>2. CASE pos < Len(s)
  BY <1>1, <1>2 DEF InsertOrAppend
<1>3. CASE pos = Len(s)
  <2>. DEFINE r == InsertAtPos(s, pos, e)
              q == Append(s, e)
  <2>1. /\ r \in Seq(S) /\ Len(r) = Len(s) + 1
        /\ \A k \in 1..(Len(s) + 1) :
             r[k] = IF k <= pos THEN s[k] ELSE IF k = pos + 1 THEN e ELSE s[k - 1]
    BY InsertAtPosElements
  <2>2. q \in Seq(S) /\ Len(q) = Len(s) + 1 /\ q[Len(s) + 1] = e /\ \A k \in 1..Len(s) : q[k] = s[k]
    BY AppendProperties
  <2>. HIDE DEF r, q
  <2>3. \A k \in 1..(Len(s) + 1) : r[k] = q[k]
    BY <1>1, <1>3, <2>1, <2>2
  <2>4. r = q
    BY <2>1, <2>2, <2>3, SeqEqual
  <2>. QED  BY <1>1, <1>3, <2>4 DEF InsertOrAppend, r, q
<1>. QED  BY <1>1, <1>2, <1>3

\* An element that was taken out can be put back where it was.
LEMMA PutBack ==
  ASSUME NEW S, NEW s \in Seq(S), NoRepeat(s), NEW e \in Range(s)
  PROVE  /\ InsertDefined(RemoveAll(s, e), IndexOf(s, e))
         /\ InsertAtPos(RemoveAll(s, e), IndexOf(s, e), e) = s
         /\ InsertOrAppend(RemoveAll(s, e), IndexOf(s, e), e) = s
<1>. DEFINE r == RemoveAll(s, e)
            q == RemoveOne(s, e)
            p == IndexOf(s, e)
<1>1. r \in Seq(S) /\ Range(r) = Range(s) \ {e} /\ NoRepeat(r) /\ Len(r) = Len(s) - 1
  <2>1. r \in Seq(S) /\ Range(r) = Range(s) \cap (Range(s) \ {e}) /\ NoRepeat(r)
    BY KeepOnlyProperties DEF RemoveAll
  <2>. QED  BY <2>1, RemoveAllLength
<1>2. q \in Seq(S) /\ Range(q) = Range(s) \ {e} /\ NoRepeat(q)
  BY RemoveOneProperties
<1>3. \A x, y \in Range(r) : Precedes(r, x, y) <=> Precedes(q, x, y)
  <2>. SUFFICES ASSUME NEW x \in Range(r), NEW y \in Range(r)
                PROVE  Precedes(r, x, y) <=> Precedes(q, x, y)
    OBVIOUS
  <2>1. x # e /\ y # e /\ x \in Range(s) /\ y \in Range(s)
    BY <1>1
  <2>2. Precedes(r, x, y) <=> Precedes(s, x, y)
    BY <2>1, KeepOnlyOrder DEF RemoveAll
  <2>. QED  BY <2>1, <2>2, RemoveOneOrder
<1>4. /\ Len(q) = Len(s) - 1 /\ p \in 0..(Len(s) - 1) /\ s[p + 1] = e
      /\ \A k \in 1..(Len(s) - 1) : q[k] = IF k <= p THEN s[k] ELSE s[k + 1]
  BY RemoveOneElements
<1>. HIDE DEF r, q, p
<1>5. r = q
  BY <1>1, <1>2, <1>3, OrderDetermines
<1>6. Len(s) \in Nat /\ p \in Int /\ InsertDefined(r, p) /\ e \in S
  BY <1>1, <1>4, LenProperties, RangeOfSeq DEF InsertDefined
<1>. DEFINE t == InsertAtPos(r, p, e)
<1>7. /\ t \in Seq(S) /\ Len(t) = Len(r) + 1
      /\ \A k \in 1..(Len(r) + 1) :
           t[k] = IF k <= p THEN r[k] ELSE IF k = p + 1 THEN e ELSE r[k - 1]
  BY <1>1, <1>6, InsertAtPosElements
<1>8. t = InsertOrAppend(r, p, e)
  BY <1>1, <1>6, InsertIsInsertOrAppend
<1>. HIDE DEF t
<1>9. Len(t) = Len(s) /\ \A k \in 1..Len(s) : t[k] = s[k]
  <2>1. Len(t) = Len(s)
    BY <1>1, <1>6, <1>7
  <2>. SUFFICES ASSUME NEW k \in 1..Len(s)  PROVE t[k] = s[k]
    BY <2>1
  <2>2. CASE k <= p
    <3>1. k \in 1..(Len(s) - 1)
      BY <1>4, <1>6, <2>2
    <3>. QED  BY <1>1, <1>4, <1>5, <1>6, <1>7, <2>2, <3>1
  <2>3. CASE k = p + 1
    BY <1>1, <1>4, <1>6, <1>7, <2>3
  <2>4. CASE k > p + 1
    <3>1. k - 1 \in 1..(Len(s) - 1) /\ ~(k - 1 <= p) /\ (k - 1) + 1 = k /\ ~(k <= p) /\ k # p + 1
      BY <1>4, <1>6, <2>4
    <3>2. t[k] = r[k - 1]
      BY <1>1, <1>6, <1>7, <3>1
    <3>3. q[k - 1] = s[(k - 1) + 1]
      BY <1>4, <3>1
    <3>. QED  BY <1>5, <3>1, <3>2, <3>3
  <2>. QED  BY <1>4, <1>6, <2>2, <2>3, <2>4
<1>10. t = s
  BY <1>7, <1>9, SeqEqual
<1>. QED  BY <1>6, <1>8, <1>10 DEF r, p, t

\* What a list holds besides an element, counted.
LEMMA OthersCounted ==
  ASSUME NEW S, NEW s \in Seq(S), NoRepeat(s), NEW e
  PROVE  Len(RemoveAll(s, e)) = Cardinality(Range(s) \ {e})
<1>. DEFINE r == RemoveAll(s, e)
<1>1. r \in Seq(S) /\ Range(r) = Range(s) \ {e} /\ NoRepeat(r)
  <2>1. r \in Seq(S) /\ Range(r) = Range(s) \cap (Range(s) \ {e}) /\ NoRepeat(r)
    BY KeepOnlyProperties DEF RemoveAll
  <2>. QED  BY <2>1
<1>2. Len(r) \in Nat /\ DOMAIN r = 1..Len(r)
  BY <1>1, LenProperties
<1>. HIDE DEF r
<1>3. IsFiniteSet(1..Len(r)) /\ Cardinality(1..Len(r)) = Len(r)
  <2>. DEFINE n == Len(r)
  <2>1. n \in Nat
    BY <1>2
  <2>. HIDE DEF n
  <2>2. IsFiniteSet(1..n) /\ Cardinality(1..n) = IF 1 > n THEN 0 ELSE n - 1 + 1
    BY <2>1, FS_Interval
  <2>3. (IF 1 > n THEN 0 ELSE n - 1 + 1) = n
    BY <2>1
  <2>. QED  BY <2>2, <2>3 DEF n
<1>4. r \in Bijection(1..Len(r), Range(r))
  <2>1. r \in [1..Len(r) -> Range(r)]
    BY <1>1, <1>2, SeqDef DEF Range
  <2>2. \A j, k \in 1..Len(r) : r[j] = r[k] => j = k
    BY <1>1, <1>2 DEF NoRepeat
  <2>3. \A x \in Range(r) : \E k \in 1..Len(r) : r[k] = x
    BY <1>2 DEF Range
  <2>. QED  BY <2>1, <2>2, <2>3 DEF Bijection, Injection, Surjection, IsInjective
<1>5. Cardinality(Range(r)) = Len(r)
  BY <1>3, <1>4, FS_Bijection DEF ExistsBijection
<1>. QED  BY <1>1, <1>5 DEF r

\* Taking an element out is to keep all that is not the element.
LEMMA RemovedIsKept ==
  ASSUME NEW S, NEW s \in Seq(S), NoRepeat(s), NEW e, NEW T, Range(s) \subseteq T
  PROVE  KeepOnly(s, T \ {e}) = RemoveAll(s, e)
<1>. DEFINE q == KeepOnly(s, T \ {e})
            r == RemoveAll(s, e)
<1>1. q \in Seq(S) /\ Range(q) = Range(s) \cap (T \ {e}) /\ NoRepeat(q)
  BY KeepOnlyProperties
<1>2. r \in Seq(S) /\ Range(r) = Range(s) \cap (Range(s) \ {e}) /\ NoRepeat(r)
  BY KeepOnlyProperties DEF RemoveAll
<1>3. \A x, y : Precedes(q, x, y) <=> x \in T \ {e} /\ y \in T \ {e} /\ Precedes(s, x, y)
  BY KeepOnlyOrder
<1>4. \A x, y : Precedes(r, x, y) <=> x \in Range(s) \ {e} /\ y \in Range(s) \ {e} /\ Precedes(s, x, y)
  BY KeepOnlyOrder DEF RemoveAll
<1>. HIDE DEF q, r
<1>5. Range(q) = Range(r)
  BY <1>1, <1>2
<1>6. \A x, y \in Range(q) : Precedes(q, x, y) <=> Precedes(r, x, y)
  BY <1>1, <1>3, <1>4
<1>. QED  BY <1>1, <1>2, <1>5, <1>6, OrderDetermines DEF q, r

\* Once out, an element is out.
LEMMA RemovedTwice ==
  ASSUME NEW S, NEW s \in Seq(S), NoRepeat(s), NEW e
  PROVE  RemoveAll(RemoveAll(s, e), e) = RemoveAll(s, e)
<1>. DEFINE r == RemoveAll(s, e)
<1>1. r \in Seq(S) /\ Range(r) = Range(s) \cap (Range(s) \ {e}) /\ NoRepeat(r)
  BY KeepOnlyProperties DEF RemoveAll
<1>. HIDE DEF r
<1>2. KeepOnly(r, Range(r) \ {e}) = r
  BY <1>1, KeepAll
<1>. QED  BY <1>2 DEF RemoveAll, r

\* A list without the element is not changed by taking it out.
LEMMA RemovedNone ==
  ASSUME NEW S, NEW s \in Seq(S), NoRepeat(s), NEW e, e \notin Range(s)
  PROVE  RemoveAll(s, e) = s
<1>1. Range(s) \subseteq Range(s) \ {e}
  OBVIOUS
<1>. QED  BY <1>1, KeepAll DEF RemoveAll

\* Where an element was moved to does not matter once it is out.
LEMMA MovedRemoved ==
  ASSUME NEW S, NEW s \in Seq(S), NoRepeat(s), NEW e \in S, NEW pos \in Int,
         InsertDefined(RemoveAll(s, e), pos)
  PROVE  RemoveAll(InsertAtPos(RemoveAll(s, e), pos, e), e) = RemoveAll(s, e)
<1>. DEFINE r == RemoveAll(s, e)
<1>1. r \in Seq(S) /\ Range(r) = Range(s) \cap (Range(s) \ {e}) /\ NoRepeat(r)
  BY KeepOnlyProperties DEF RemoveAll
<1>2. InsertDefined(r, pos) /\ e \notin Range(r)
  BY <1>1
<1>. HIDE DEF r
<1>3. InsertAtPos(r, pos, e) = InsertOrAppend(r, pos, e)
  BY <1>1, <1>2, InsertIsInsertOrAppend
<1>4. RemoveAll(InsertOrAppend(r, pos, e), e) = r
  BY <1>1, <1>2, InsertedRemoved
<1>. QED  BY <1>3, <1>4 DEF r

\* A list that is cut after n and has one more.
Extended(s, n, x, r) ==
  /\ \E S : r \in Seq(S)
  /\ Len(r) = n + 1 /\ (\A k \in 1..n : r[k] = s[k]) /\ r[n + 1] = x

LEMMA CutAndExtended ==
  ASSUME NEW s, \E S : s \in Seq(S), NEW n \in 0..Len(s), NEW x
  PROVE  Extended(s, n, x, Append(SubSeq(s, 1, n), x))
<1>. DEFINE q == SubSeq(s, 1, n)
            r == Append(q, x)
<1>1. PICK S : s \in Seq(S)
  OBVIOUS
<1>. DEFINE T == S \cup {x}
<1>2. s \in Seq(T) /\ x \in T /\ Len(s) \in Nat
  <2>1. \A k \in 1..Len(s) : s[k] \in S
    BY <1>1, ElementOfSeq
  <2>2. Len(s) \in Nat /\ s \in [1..Len(s) -> T]
    BY <1>1, <2>1, LenProperties
  <2>. QED  BY <2>2, SeqDef
<1>. HIDE DEF T
<1>3. q \in Seq(T) /\ Len(q) = n /\ \A k \in 1..n : q[k] = s[k]
  <2>1. CASE n = 0
    <3>1. q = << >>
      BY <1>2, <2>1, SubSeqProperties
    <3>. QED  BY <2>1, <3>1
  <2>2. CASE n # 0
    <3>1. \A k \in 1..n : s[k] \in T
      BY <1>2, ElementOfSeq
    <3>2. /\ q \in Seq(T) /\ Len(q) = IF 1 <= n THEN n - 1 + 1 ELSE 0
          /\ \A k \in 1..(n - 1 + 1) : q[k] = s[1 + k - 1]
      BY <1>2, <3>1, SubSeqProperties
    <3>. HIDE DEF q
    <3>. QED  BY <1>2, <2>2, <3>2
  <2>. QED  BY <2>1, <2>2
<1>. HIDE DEF q
<1>4. r \in Seq(T) /\ Len(r) = n + 1 /\ (\A k \in 1..n : r[k] = q[k]) /\ r[n + 1] = x
  BY <1>2, <1>3, AppendProperties
<1>. QED  BY <1>3, <1>4 DEF Extended, q
===============================================================================
