---------------------------- MODULE IVInheritProofs ----------------------------
(* Any number of interfaces, connections and commands: a prototype is never one *)
(* that no connection leads to.                                                 *)
EXTENDS IVInherit, MscListsProofs

\* The interfaces of the session and the connections there can be between them.
Required == RIs \cap session.ifaces
Provided == PIs \cap session.ifaces
Conns    == Required \X Provided \X {1}


ListeningTo(m, r) == Range(m.listens[r])

Kinds    == RIKinds \cup PIKinds \cup {"Sporadic"}
PutAside == {Unset} \cup [data : ParamLists \X Kinds, flag : BOOLEAN]

\* A model is a record of functions on its interfaces.
Models ==
  [flag : [Required -> BOOLEAN], params : [session.ifaces -> ParamLists],
   kind : [session.ifaces -> Kinds], protos : [Required -> SUBSET Provided],
   original : [Required -> PutAside], hears : [Required -> SUBSET Provided],
   links : SUBSET Conns, listens : [Required -> Seq(Conns)]]

\* What an RI put aside was put aside by an RI that inherits.
AsideInherits(m) ==
  \A r \in Required : m.original[r] # Unset => m.original[r].flag = TRUE

\* The connections that listen to an RI start there and are among K, and its
\* prototypes are what they lead to.
Listened(m, K) ==
  \A r \in Required :
    /\ \A c \in ListeningTo(m, r) : c \in K /\ From(c) = r
    /\ m.protos[r] = {To(c) : c \in ListeningTo(m, r)}

\* An RI that does not inherit has no prototype.
NoneWithoutFlag(m, R) == \A r \in R : ~m.flag[r] => m.protos[r] = {}

Good(m) ==
  m \in Models /\ AsideInherits(m) /\ Listened(m, m.links) /\ NoneWithoutFlag(m, Required)

\* The commands that can be given.
Given ==
  [kind : {"connect"}, c : Conns] \cup [kind : {"remove"}, C : Seq(Conns)]
  \cup [kind : {"params"}, i : session.ifaces, new : ParamLists, old : ParamLists,
        parted : Seq(Conns)]
  \cup [kind : {"kind"}, i : session.ifaces, new : Kinds, old : Kinds]
  \cup [kind : {"inherit"}, i : Required, new : BOOLEAN, old : BOOLEAN]
  \cup [kind : {"rename"}, i : Provided]

InheritInv ==
  /\ session \in Sessions
  /\ session.copies <= 1 => Good(view) /\ stack \in Seq(Given) /\ index \in 0..Len(stack)
-------------------------------------------------------------------------------
(* Sequences.                                                                   *)

\* What is in S before the first element and stays in it is there after the last.
LEMMA Carried ==
  ASSUME NEW N \in Nat, NEW f, NEW S, f[0] \in S[0],
         \A k \in 1..N : f[k - 1] \in S[k - 1] => f[k] \in S[k]
  PROVE  \A k \in 0..N : f[k] \in S[k]
<1>. DEFINE Bad == {k \in 0..N : f[k] \notin S[k]}
<1>1. SUFFICES Bad = {}
  OBVIOUS
<1>2. SUFFICES ASSUME Bad # {}  PROVE FALSE
  OBVIOUS
<1>3. Bad \in SUBSET Nat
  OBVIOUS
<1>4. PICK k \in Bad : \A m \in Bad : k <= m
  <2>. HIDE DEF Bad
  <2>. QED  BY <1>2, <1>3, LeastNat
<1>5. k \in 1..N /\ f[k] \notin S[k] /\ k - 1 \in 0..N /\ ~(k <= k - 1)
  OBVIOUS
<1>6. f[k - 1] \in S[k - 1]
  BY <1>4, <1>5
<1>. QED  BY <1>5, <1>6

\* A finite set as a sequence.
LEMMA SetToSeqElements ==
  ASSUME NEW S, IsFiniteSet(S)
  PROVE  SetToSeq(S) \in Seq(S)
<1>1. Cardinality(S) \in Nat /\ ExistsBijection(1..Cardinality(S), S)
  BY FS_CardinalityType
<1>2. PICK f \in Bijection(1..Cardinality(S), S) : TRUE
  BY <1>1 DEF ExistsBijection
<1>3. f \in [1..Cardinality(S) -> S] /\ IsInjective(f)
  BY <1>2 DEF Bijection, Injection, IsInjective
<1>4. SetToSeq(S) \in [1..Cardinality(S) -> S]
  BY <1>3, Zenon DEF SetToSeq
<1>. QED  BY <1>1, <1>4, SeqDef

LEMMA RemoveAllElements ==
  ASSUME NEW S, NEW s \in Seq(S), NEW e
  PROVE  RemoveAll(s, e) \in Seq(S) /\ Range(RemoveAll(s, e)) = Range(s) \ {e}
<1>1. KeepOnly(s, Range(s) \ {e}) \in Seq(S)
  BY KeepOnlyProperties
<1>2. Range(KeepOnly(s, Range(s) \ {e})) = Range(s) \cap (Range(s) \ {e})
  BY KeepOnlyProperties, Zenon
<1>3. Range(s) \cap (Range(s) \ {e}) = Range(s) \ {e}
  OBVIOUS
<1>. QED  BY <1>1, <1>2, <1>3 DEF RemoveAll
-------------------------------------------------------------------------------
(* One connection and one RI.                                                   *)

\* n differs from m in what concerns r, if at all.
Concerns(m, n, r) ==
  /\ n.links = m.links
  /\ \A q \in Required \ {r} :
       /\ n.flag[q] = m.flag[q] /\ n.protos[q] = m.protos[q]
       /\ n.original[q] = m.original[q] /\ n.listens[q] = m.listens[q]

LEMMA ConnEnds ==
  ASSUME NEW c \in Conns
  PROVE  From(c) \in Required /\ To(c) \in Provided
  BY DEF Conns, From, To

\* With one connection between two interfaces, its ends tell which it is.
LEMMA ConnIsItsEnds ==
  ASSUME NEW c \in Conns, NEW d \in Conns, From(c) = From(d), To(c) = To(d)
  PROVE  c = d
  BY DEF Conns, From, To

\* SetPrototype on an RI that inherits.
LEMMA SetPrototypeIs ==
  ASSUME NEW m \in Models, AsideInherits(m), NEW r \in Required, NEW p \in Provided, m.flag[r]
  PROVE  LET n == SetPrototype(m, r, p)
         IN  /\ n \in Models /\ AsideInherits(n) /\ Concerns(m, n, r)
             /\ n.flag = m.flag /\ n.listens = m.listens
             /\ n.protos[r] = m.protos[r] \cup {p}
<1>. DEFINE n == SetPrototype(m, r, p)
            o == IF m.original[r] = Unset THEN [data |-> Data(m, r), flag |-> m.flag[r]]
                 ELSE m.original[r]
<1>0. {r, p} \subseteq session.ifaces
  BY DEF Required, Provided
<1>1. n = [m EXCEPT !.protos[r] = @ \cup {p}, !.original[r] = o, !.kind[r] = m.kind[p],
                    !.params[r] = m.params[p], !.hears[r] = @ \cup {p}]
  BY DEF SetPrototype, CloneInternals, Models, Data
<1>2. o \in PutAside /\ (o # Unset => o.flag = TRUE)
  <2>1. Data(m, r) \in ParamLists \X Kinds
    BY <1>0 DEF Data, Models
  <2>. QED  BY <2>1 DEF AsideInherits, Models, PutAside
<1>. HIDE DEF n, o
<1>3. n \in Models
  <2>1. /\ m.protos[r] \cup {p} \in SUBSET Provided /\ m.hears[r] \cup {p} \in SUBSET Provided
        /\ m.kind[p] \in Kinds /\ m.params[p] \in ParamLists
    BY <1>0 DEF Models
  <2>2. /\ [m.protos EXCEPT ![r] = m.protos[r] \cup {p}] \in [Required -> SUBSET Provided]
        /\ [m.hears EXCEPT ![r] = m.hears[r] \cup {p}] \in [Required -> SUBSET Provided]
        /\ [m.kind EXCEPT ![r] = m.kind[p]] \in [session.ifaces -> Kinds]
        /\ [m.params EXCEPT ![r] = m.params[p]] \in [session.ifaces -> ParamLists]
        /\ [m.original EXCEPT ![r] = o] \in [Required -> PutAside]
    BY <1>2, <2>1 DEF Models
  <2>. QED  BY <1>1, <2>2 DEF Models
<1>4. AsideInherits(n)
  BY <1>1, <1>2 DEF AsideInherits, Models
<1>5. Concerns(m, n, r)
  BY <1>1 DEF Concerns, Models
<1>. QED  BY <1>1, <1>3, <1>4, <1>5 DEF n, Models

\* n is m where r no longer has the prototype p.
PrototypeUnset(m, n, r, p) ==
  /\ n \in Models /\ AsideInherits(n) /\ Concerns(m, n, r)
  /\ n.flag[r] = m.flag[r] \/ n.flag[r] = TRUE
  /\ n.listens = m.listens
  /\ n.protos[r] = m.protos[r] \ {p}

LEMMA UnsetPrototypeIs ==
  ASSUME NEW m \in Models, AsideInherits(m), NEW r \in Required, NEW p \in Provided
  PROVE  PrototypeUnset(m, UnsetPrototype(m, r, p), r, p)
<1>. DEFINE n == UnsetPrototype(m, r, p)
            a == [m EXCEPT !.protos[r] = @ \ {p}]
            b == [a EXCEPT !.hears[r] = @ \ {p}]
            d == [b EXCEPT !.params[r] = a.original[r].data[1], !.kind[r] = a.original[r].data[2],
                           !.flag[r] = a.original[r].flag, !.original[r] = Unset]
<1>0. r \in session.ifaces
  BY DEF Required
<1>1. a \in Models
  BY DEF Models
<1>2. b \in Models
  <2>. HIDE DEF a
  <2>. QED  BY <1>1 DEF Models
<1>3. a.original[r] # Unset => d \in Models
  <2>. HIDE DEF a, b
  <2>. SUFFICES ASSUME a.original[r] # Unset  PROVE d \in Models
    OBVIOUS
  <2>1. a.original[r] \in [data : ParamLists \X Kinds, flag : BOOLEAN]
    BY <1>1 DEF Models, PutAside
  <2>2. /\ a.original[r].data[1] \in ParamLists /\ a.original[r].data[2] \in Kinds
        /\ a.original[r].flag \in BOOLEAN /\ Unset \in PutAside
    BY <2>1 DEF PutAside
  <2>3. /\ [b.kind EXCEPT ![r] = a.original[r].data[2]] \in [session.ifaces -> Kinds]
        /\ [b.params EXCEPT ![r] = a.original[r].data[1]] \in [session.ifaces -> ParamLists]
        /\ [b.original EXCEPT ![r] = Unset] \in [Required -> PutAside]
        /\ [b.flag EXCEPT ![r] = a.original[r].flag] \in [Required -> BOOLEAN]
    BY <1>2, <2>2 DEF Models
  <2>. QED  BY <1>2, <2>3 DEF Models
<1>6. b.original = m.original /\ a.original = m.original
  BY DEF Models
<1>7. n = a \/ n = b \/ (n = d /\ m.original[r] # Unset)
  <2>1. CASE a.protos[r] = {} \/ ~a.flag[r]
    <3>1. n = RestoreInternals(a, r, p)
      BY <2>1 DEF UnsetPrototype
    <3>2. RestoreInternals(a, r, p) = IF a.original[r] = Unset THEN b ELSE d
      BY Zenon DEF RestoreInternals
    <3>. HIDE DEF n, a, b, d
    <3>. QED  BY <1>6, <3>1, <3>2
  <2>2. CASE ~(a.protos[r] = {} \/ ~a.flag[r])
    <3>1. n = a
      BY <2>2 DEF UnsetPrototype
    <3>. HIDE DEF n, a, b, d
    <3>. QED  BY <3>1
  <2>. HIDE DEF n, a, b, d
  <2>. QED  BY <2>1, <2>2
<1>4. PrototypeUnset(m, a, r, p)
  BY <1>1 DEF PrototypeUnset, Models, AsideInherits, Concerns
<1>8. PrototypeUnset(m, b, r, p)
  BY <1>2 DEF PrototypeUnset, Models, AsideInherits, Concerns
<1>5. ASSUME m.original[r] # Unset  PROVE PrototypeUnset(m, d, r, p)
  <2>1. m.original[r].flag = TRUE
    BY <1>5, <1>7 DEF AsideInherits
  <2>2. /\ d.links = b.links /\ d.listens = b.listens /\ d.protos = b.protos
        /\ d.original = [b.original EXCEPT ![r] = Unset]
        /\ d.flag = [b.flag EXCEPT ![r] = a.original[r].flag]
    BY <1>2 DEF Models
  <2>3. d \in Models
    BY <1>3, <1>5, <1>6, <1>7
  <2>. HIDE DEF n, a, b, d
  <2>4. AsideInherits(d)
    BY <1>8, <2>2 DEF PrototypeUnset, AsideInherits
  <2>5. Concerns(m, d, r)
    BY <1>8, <2>2 DEF PrototypeUnset, Concerns, Models
  <2>6. /\ d.flag[r] = m.flag[r] \/ d.flag[r] = TRUE
        /\ d.listens = m.listens
        /\ d.protos[r] = m.protos[r] \ {p}
    <3>1. r \in DOMAIN b.flag
      BY <1>2 DEF Models
    <3>. QED  BY <1>6, <1>8, <2>1, <2>2, <3>1 DEF PrototypeUnset
  <2>. QED  BY <1>5, <2>3, <2>4, <2>5, <2>6 DEF PrototypeUnset
<1>9. PrototypeUnset(m, n, r, p)
  <2>. HIDE DEF n, a, b, d
  <2>. QED  BY <1>4, <1>5, <1>7, <1>8
<1>. QED  BY <1>9

\* Who listens and who has prototypes agree for an RI that is told to inherit.
LEMMA InheritKeeps ==
  ASSUME NEW m \in Models, NEW K, NEW c \in Conns, c \in K,
         AsideInherits(m), Listened(m, K), NoneWithoutFlag(m, Required)
  PROVE  LET n == Inherit(m, c)
         IN  /\ n \in Models /\ AsideInherits(n) /\ Listened(n, K) /\ NoneWithoutFlag(n, Required)
             /\ n.links = m.links
<1>. DEFINE r == From(c)
            p == To(c)
            a == SetPrototype(m, r, p)
            l == IF c \in Range(m.listens[r]) THEN m.listens[r] ELSE Append(m.listens[r], c)
            n == Inherit(m, c)
<1>0. r \in Required /\ p \in Provided
  BY ConnEnds
<1>1. CASE ~m.flag[r]
  <2>1. n = m
    BY <1>0, <1>1 DEF Inherit, Concerned, NoneWithoutFlag
  <2>. QED  BY <2>1
<1>2. CASE m.flag[r]
  <2>1. /\ a \in Models /\ AsideInherits(a) /\ Concerns(m, a, r)
        /\ a.flag = m.flag /\ a.listens = m.listens
        /\ a.protos[r] = m.protos[r] \cup {p}
    BY <1>0, <1>2, SetPrototypeIs
  <2>2. n = [a EXCEPT !.listens[r] = l]
    BY <1>2, <2>1 DEF Inherit, Concerned
  <2>3. m.listens[r] \in Seq(Conns)
    BY <1>0 DEF Models
  <2>4. l \in Seq(Conns) /\ Range(l) = Range(m.listens[r]) \cup {c}
    BY <2>3, AppendListProperties
  <2>. HIDE DEF a, l, n, r, p
  <2>5. n = [flag |-> a.flag, params |-> a.params, kind |-> a.kind, protos |-> a.protos,
             original |-> a.original, hears |-> a.hears, links |-> a.links,
             listens |-> [a.listens EXCEPT ![r] = l]]
    BY <2>1, <2>2 DEF Models
  <2>6. n \in Models /\ AsideInherits(n) /\ n.links = m.links
    BY <1>0, <2>1, <2>4, <2>5 DEF Models, AsideInherits, Concerns
  <2>7. Listened(n, K)
    <3>1. \A q \in Required \ {r} : n.listens[q] = m.listens[q] /\ n.protos[q] = m.protos[q]
      BY <2>1, <2>5 DEF Concerns, Models
    <3>2. n.listens[r] = l /\ n.protos[r] = m.protos[r] \cup {p}
      BY <1>0, <2>1, <2>5 DEF Models
    <3>3. From(c) = r /\ To(c) = p
      BY DEF r, p
    <3>4. {To(d) : d \in Range(l)} = {To(d) : d \in Range(m.listens[r])} \cup {p}
      BY <2>4, <3>3
    <3>. QED  BY <1>0, <2>4, <3>1, <3>2, <3>3, <3>4 DEF Listened, ListeningTo
  <2>8. NoneWithoutFlag(n, Required)
    BY <1>2, <2>1, <2>5 DEF NoneWithoutFlag, Concerns
  <2>. QED  BY <2>6, <2>7, <2>8 DEF n
<1>. QED  BY <1>1, <1>2

\* A connection that is told not to inherit no longer listens, and what it led to is
\* no prototype.  The flag can come back on, and does not go.
NotInherited(m, n, K, c) ==
  /\ n \in Models /\ AsideInherits(n) /\ Listened(n, K)
  /\ n.links = m.links
  /\ \A q \in Required : /\ n.flag[q] = m.flag[q] \/ n.flag[q] = TRUE
                         /\ n.protos[q] \subseteq m.protos[q]
  /\ ListeningTo(n, From(c)) = ListeningTo(m, From(c)) \ {c}
  /\ \A q \in Required \ {From(c)} : n.listens[q] = m.listens[q]

LEMMA NotInheritKeeps ==
  ASSUME NEW m \in Models, NEW K, NEW c \in Conns, AsideInherits(m), Listened(m, K)
  PROVE  NotInherited(m, NotInherit(m, c), K, c)
<1>. DEFINE r == From(c)
            p == To(c)
            l == RemoveAll(m.listens[r], c)
            b == [m EXCEPT !.listens[r] = RemoveAll(@, c)]
            n == NotInherit(m, c)
<1>0. r \in Required /\ p \in Provided
  BY ConnEnds
<1>1. CASE ~Concerned(m, c)
  <2>1. n = m /\ m.protos[r] = {}
    BY <1>1 DEF NotInherit, Concerned
  <2>2. ListeningTo(m, r) = {}
    BY <1>0, <2>1 DEF Listened
  <2>3. ListeningTo(m, r) \ {c} = ListeningTo(m, r)
    BY <2>2
  <2>. QED  BY <2>1, <2>3 DEF NotInherited
<1>2. CASE Concerned(m, c)
  <2>1. /\ b.flag = m.flag /\ b.protos = m.protos /\ b.original = m.original /\ b.links = m.links
        /\ b.listens = [m.listens EXCEPT ![r] = l]
    BY <1>0 DEF Models
  <2>2. m.listens[r] \in Seq(Conns)
    BY <1>0 DEF Models
  <2>3. l \in Seq(Conns) /\ Range(l) = Range(m.listens[r]) \ {c}
    BY <2>2, RemoveAllElements
  <2>4. n = UnsetPrototype(b, r, p)
    BY <1>2 DEF NotInherit
  <2>5. b \in Models
    <3>1. [m.listens EXCEPT ![r] = l] \in [Required -> Seq(Conns)]
      BY <1>0, <2>3 DEF Models
    <3>. QED  BY <3>1 DEF Models
  <2>. HIDE DEF l, b, n, r, p
  <2>13. AsideInherits(b)
    BY <2>1 DEF AsideInherits
  <2>6. /\ n \in Models /\ AsideInherits(n) /\ Concerns(b, n, r)
        /\ n.flag[r] = b.flag[r] \/ n.flag[r] = TRUE
        /\ n.listens = b.listens
        /\ n.protos[r] = b.protos[r] \ {p}
    <3>1. PrototypeUnset(b, n, r, p)
      BY <1>0, <2>4, <2>5, <2>13, UnsetPrototypeIs
    <3>. QED  BY <3>1 DEF PrototypeUnset
  <2>7. n.links = m.links
    BY <2>1, <2>6 DEF Concerns
  <2>8. \A q \in Required \ {r} : /\ n.listens[q] = m.listens[q] /\ n.protos[q] = m.protos[q]
                                  /\ n.flag[q] = m.flag[q]
    BY <2>1, <2>6 DEF Concerns, Models
  <2>9. n.listens[r] = l /\ n.protos[r] = m.protos[r] \ {p} /\ (n.flag[r] = m.flag[r] \/ n.flag[r] = TRUE)
    BY <1>0, <2>1, <2>6 DEF Models
  <2>10. From(c) = r /\ To(c) = p
    BY DEF r, p
  <2>11. Listened(n, K)
    <3>1. {To(d) : d \in Range(l)} = {To(d) : d \in Range(m.listens[r])} \ {p}
      <4>1. ASSUME NEW d \in Range(m.listens[r]), d # c  PROVE To(d) # p
        <5>1. d \in Conns
          BY <2>2 DEF Range
        <5>2. From(d) = r
          BY <1>0 DEF Listened, ListeningTo
        <5>. QED  BY <2>10, <4>1, <5>1, <5>2, ConnIsItsEnds
      <4>. QED  BY <2>3, <2>10, <4>1
    <3>. QED  BY <1>0, <2>3, <2>8, <2>9, <3>1 DEF Listened, ListeningTo
  <2>12. ListeningTo(n, r) = ListeningTo(m, r) \ {c}
    BY <2>3, <2>9 DEF ListeningTo
  <2>14. \A q \in Required : /\ n.flag[q] = m.flag[q] \/ n.flag[q] = TRUE
                             /\ n.protos[q] \subseteq m.protos[q]
    BY <2>8, <2>9
  <2>. QED  BY <2>6, <2>7, <2>8, <2>10, <2>11, <2>12, <2>14 DEF NotInherited, n, r
<1>. QED  BY <1>1, <1>2
-------------------------------------------------------------------------------
(* Whole operations.                                                            *)

LEMMA RemoveLinkGood ==
  ASSUME NEW m, Good(m), NEW c \in Conns
  PROVE  Good(RemoveLink(m, c))
<1>. DEFINE a == NotInherit(m, c)
            n == RemoveLink(m, c)
<1>1. /\ a \in Models /\ AsideInherits(a) /\ Listened(a, m.links)
      /\ a.links = m.links
      /\ \A q \in Required : /\ a.flag[q] = m.flag[q] \/ a.flag[q] = TRUE
                             /\ a.protos[q] \subseteq m.protos[q]
      /\ ListeningTo(a, From(c)) = ListeningTo(m, From(c)) \ {c}
      /\ \A q \in Required \ {From(c)} : a.listens[q] = m.listens[q]
  <2>1. NotInherited(m, a, m.links, c)
    BY NotInheritKeeps DEF Good
  <2>. QED  BY <2>1 DEF NotInherited
<1>. HIDE DEF a
<1>2. n = [a EXCEPT !.links = @ \ {c}]
  BY DEF RemoveLink, a
<1>. HIDE DEF n
<1>3. /\ n \in Models /\ n.links = m.links \ {c} /\ n.listens = a.listens /\ n.protos = a.protos
      /\ n.flag = a.flag /\ n.original = a.original
  BY <1>1, <1>2 DEF Models
<1>4. AsideInherits(n) /\ NoneWithoutFlag(n, Required)
  BY <1>1, <1>3 DEF Good, AsideInherits, NoneWithoutFlag
<1>5. \A q \in Required : c \notin ListeningTo(a, q)
  <2>1. \A q \in Required \ {From(c)} : \A d \in ListeningTo(a, q) : From(d) = q
    BY <1>1 DEF Listened
  <2>. QED  BY <1>1, <2>1
<1>6. Listened(n, n.links)
  BY <1>1, <1>3, <1>5 DEF Listened, ListeningTo
<1>. QED  BY <1>3, <1>4, <1>6 DEF Good, n

LEMMA RestoreLinkGood ==
  ASSUME NEW m, Good(m), NEW c \in Conns
  PROVE  Good(AddLink(m, c)) /\ Good(RestoreLink(m, c))
<1>1. ASSUME NEW x, x \in Models, AsideInherits(x), Listened(x, x.links \cup {c}),
             NoneWithoutFlag(x, Required)
      PROVE  Good(AddLink(x, c))
  <2>. DEFINE a == [x EXCEPT !.links = @ \cup {c}]
              n == Inherit(a, c)
  <2>1. /\ a \in Models /\ a.links = x.links \cup {c} /\ a.listens = x.listens /\ a.protos = x.protos
        /\ a.flag = x.flag /\ a.original = x.original
    BY <1>1 DEF Models
  <2>2. AddLink(x, c) = n
    BY DEF AddLink
  <2>. HIDE DEF a
  <2>3. AsideInherits(a) /\ Listened(a, a.links) /\ NoneWithoutFlag(a, Required)
    BY <1>1, <2>1 DEF AsideInherits, Listened, ListeningTo, NoneWithoutFlag
  <2>4. /\ n \in Models /\ AsideInherits(n) /\ Listened(n, a.links) /\ NoneWithoutFlag(n, Required)
        /\ n.links = a.links
    BY <2>1, <2>3, InheritKeeps
  <2>. HIDE DEF n
  <2>. QED  BY <2>2, <2>4 DEF Good
<1>2. Listened(m, m.links \cup {c})
  BY DEF Good, Listened
<1>3. Good(AddLink(m, c))
  BY <1>1, <1>2 DEF Good
<1>4. Good(RestoreLink(m, c))
  <2>. DEFINE b == Inherit(m, c)
  <2>1. /\ b \in Models /\ AsideInherits(b) /\ Listened(b, m.links \cup {c})
        /\ NoneWithoutFlag(b, Required) /\ b.links = m.links
    BY <1>2, InheritKeeps DEF Good
  <2>. HIDE DEF b
  <2>2. Good(AddLink(b, c))
    BY <1>1, <2>1
  <2>. QED  BY <2>2 DEF RestoreLink, b
<1>. QED  BY <1>3, <1>4

\* The folds are written as recursive functions, and some function is as they say.
RecursionOf(f, m, step, N) == f = [k \in 0..N |-> IF k = 0 THEN m ELSE step[k][f[k - 1]]]

LEMMA RecursionExists ==
  ASSUME NEW N \in Nat, NEW m, NEW step
  PROVE  \E f : RecursionOf(f, m, step, N)
<1>. DEFINE Bad == {n \in Nat : ~\E f : RecursionOf(f, m, step, n)}
<1>1. SUFFICES ASSUME Bad # {}  PROVE FALSE
  OBVIOUS
<1>2. PICK n \in Bad : \A k \in Bad : n <= k
  <2>1. Bad \in SUBSET Nat
    OBVIOUS
  <2>. HIDE DEF Bad
  <2>. QED  BY <1>1, <2>1, LeastNat
<1>3. n # 0
  <2>. DEFINE w == [k \in 0..0 |-> m]
  <2>1. RecursionOf(w, m, step, 0)
    BY DEF RecursionOf
  <2>. QED  BY <2>1
<1>4. n - 1 \in Nat /\ n - 1 \notin Bad
  BY <1>2, <1>3
<1>5. PICK v : RecursionOf(v, m, step, n - 1)
  BY <1>4
<1>. DEFINE w == [k \in 0..n |-> IF k = 0 THEN m ELSE IF k < n THEN v[k] ELSE step[n][v[n - 1]]]
<1>6. \A k \in 0..n : w[k] = IF k = 0 THEN m ELSE step[k][w[k - 1]]
  <2>. SUFFICES ASSUME NEW k \in 0..n, k # 0  PROVE w[k] = step[k][w[k - 1]]
    OBVIOUS
  <2>0. v[0] = m /\ k - 1 \in 0..(n - 1)
    BY <1>3, <1>5 DEF RecursionOf
  <2>1. w[k - 1] = v[k - 1]
    BY <2>0
  <2>2. CASE k < n
    <3>1. k \in 0..(n - 1) /\ w[k] = v[k]
      BY <2>2
    <3>. HIDE DEF w
    <3>2. v[k] = step[k][v[k - 1]]
      BY <1>5, <3>1, Zenon DEF RecursionOf
    <3>. QED  BY <2>1, <3>1, <3>2
  <2>3. CASE k = n
    BY <2>1, <2>3
  <2>. QED  BY <2>2, <2>3
<1>7. RecursionOf(w, m, step, n)
  <2>1. w = [k \in 0..n |-> w[k]]
    OBVIOUS
  <2>. HIDE DEF w
  <2>2. w = [k \in 0..n |-> IF k = 0 THEN m ELSE step[k][w[k - 1]]]
    BY <1>6, <2>1
  <2>. QED  BY <2>2 DEF RecursionOf
<1>. QED  BY <1>2, <1>7

\* And with steps that lead from one set to the next, it stays in them.
LEMMA RecursionStays ==
  ASSUME NEW N \in Nat, NEW m, NEW step, NEW S, m \in S[0],
         \A k \in 1..N : \A x \in S[k - 1] : step[k][x] \in S[k]
  PROVE  \E f : RecursionOf(f, m, step, N) /\ \A k \in 0..N : f[k] \in S[k]
<1>1. PICK f : RecursionOf(f, m, step, N)
  BY RecursionExists
<1>2. f[0] = m
  BY <1>1 DEF RecursionOf
<1>3. \A k \in 1..N : k \in 0..N /\ k # 0
  OBVIOUS
<1>4. \A k \in 1..N : f[k] = step[k][f[k - 1]]
  BY <1>1, <1>3, Zenon DEF RecursionOf
<1>5. \A k \in 0..N : f[k] \in S[k]
  BY <1>2, <1>4, Carried
<1>. QED  BY <1>1, <1>5

\* Operations on one connection after the other.
GoodModels == {x \in Models : Good(x)}

LEMMA RemoveLinksGood ==
  ASSUME NEW m, Good(m), NEW C \in Seq(Conns)
  PROVE  Good(RemoveLinks(m, C))
<1>. DEFINE N == Len(C)
            Rec(f) == f = [k \in 0..N |-> IF k = 0 THEN m ELSE RemoveLink(f[k - 1], C[k])]
            after == CHOOSE f : Rec(f)
            step == [k \in 1..N |-> [x \in GoodModels |-> RemoveLink(x, C[k])]]
            S == [k \in 0..N |-> GoodModels]
<1>1. N \in Nat /\ \A k \in 1..N : C[k] \in Conns /\ k \in 0..N /\ k - 1 \in 0..N /\ k # 0
  OBVIOUS
<1>2. RemoveLinks(m, C) = after[N]
  BY DEF RemoveLinks
<1>. HIDE DEF N
<1>3. \A c \in Conns, x \in GoodModels : RemoveLink(x, c) \in GoodModels
  BY RemoveLinkGood DEF GoodModels, Good
<1>4. m \in GoodModels
  BY DEF GoodModels, Good
<1>15. \A k \in 0..N : S[k] = GoodModels
  OBVIOUS
<1>16. \A k \in 1..N : \A x \in GoodModels : step[k][x] = RemoveLink(x, C[k])
  OBVIOUS
<1>. HIDE DEF S, step
<1>5. PICK w : RecursionOf(w, m, step, N) /\ \A k \in 0..N : w[k] \in S[k]
  <2>1. m \in S[0]
    BY <1>1, <1>4, <1>15
  <2>2. \A k \in 1..N : \A x \in S[k - 1] : step[k][x] \in S[k]
    BY <1>1, <1>3, <1>15, <1>16
  <2>. QED  BY <1>1, <2>1, <2>2, RecursionStays
<1>6. Rec(w)
  <2>1. \A k \in 1..N : step[k][w[k - 1]] = RemoveLink(w[k - 1], C[k])
    BY <1>1, <1>5, <1>15, <1>16
  <2>2. w = [k \in 0..N |-> IF k = 0 THEN m ELSE step[k][w[k - 1]]]
    BY <1>5 DEF RecursionOf
  <2>3. \A k \in 0..N : k # 0 => k \in 1..N
    OBVIOUS
  <2>4. \A k \in 0..N : (IF k = 0 THEN m ELSE step[k][w[k - 1]])
                          = (IF k = 0 THEN m ELSE RemoveLink(w[k - 1], C[k]))
    BY <2>1, <2>3, Zenon
  <2>. QED  BY <2>2, <2>4
<1>7. Rec(after)
  BY <1>6, Zenon
<1>. HIDE DEF after
<1>8. after[0] = m
  BY <1>1, <1>7
<1>9. \A k \in 1..N : after[k] = RemoveLink(after[k - 1], C[k])
  BY <1>1, <1>7, Zenon
<1>10. after[N] \in S[N]
  <2>1. after[0] \in S[0] /\ N \in 0..N
    BY <1>1, <1>4, <1>8, <1>15
  <2>2. ASSUME NEW k \in 1..N, after[k - 1] \in S[k - 1]  PROVE after[k] \in S[k]
    BY <1>1, <1>3, <1>9, <1>15, <2>2
  <2>. QED  BY <1>1, <2>1, <2>2, Carried
<1>11. after[N] \in GoodModels
  BY <1>1, <1>10, <1>15
<1>. QED  BY <1>2, <1>11 DEF GoodModels

LEMMA RestoreLinksGood ==
  ASSUME NEW m, Good(m), NEW C \in Seq(Conns)
  PROVE  Good(RestoreLinks(m, C))
<1>. DEFINE N == Len(C)
            Rec(f) == f = [k \in 0..N |-> IF k = 0 THEN m ELSE RestoreLink(f[k - 1], C[N - k + 1])]
            after == CHOOSE f : Rec(f)
            step == [k \in 1..N |-> [x \in GoodModels |-> RestoreLink(x, C[N - k + 1])]]
            S == [k \in 0..N |-> GoodModels]
<1>1. N \in Nat /\ \A k \in 1..N : C[N - k + 1] \in Conns /\ k \in 0..N /\ k - 1 \in 0..N /\ k # 0
  <2>1. \A k \in 1..N : N - k + 1 \in 1..N
    OBVIOUS
  <2>. QED  BY <2>1
<1>2. RestoreLinks(m, C) = after[N]
  BY DEF RestoreLinks
<1>. HIDE DEF N
<1>3. \A c \in Conns, x \in GoodModels : RestoreLink(x, c) \in GoodModels
  BY RestoreLinkGood DEF GoodModels, Good
<1>4. m \in GoodModels
  BY DEF GoodModels, Good
<1>15. \A k \in 0..N : S[k] = GoodModels
  OBVIOUS
<1>16. \A k \in 1..N : \A x \in GoodModels : step[k][x] = RestoreLink(x, C[N - k + 1])
  OBVIOUS
<1>. HIDE DEF S, step
<1>5. PICK w : RecursionOf(w, m, step, N) /\ \A k \in 0..N : w[k] \in S[k]
  <2>1. m \in S[0]
    BY <1>1, <1>4, <1>15
  <2>2. \A k \in 1..N : \A x \in S[k - 1] : step[k][x] \in S[k]
    BY <1>1, <1>3, <1>15, <1>16
  <2>. QED  BY <1>1, <2>1, <2>2, RecursionStays
<1>6. Rec(w)
  <2>1. \A k \in 1..N : step[k][w[k - 1]] = RestoreLink(w[k - 1], C[N - k + 1])
    BY <1>1, <1>5, <1>15, <1>16
  <2>2. w = [k \in 0..N |-> IF k = 0 THEN m ELSE step[k][w[k - 1]]]
    BY <1>5 DEF RecursionOf
  <2>3. \A k \in 0..N : k # 0 => k \in 1..N
    OBVIOUS
  <2>4. \A k \in 0..N : (IF k = 0 THEN m ELSE step[k][w[k - 1]])
                          = (IF k = 0 THEN m ELSE RestoreLink(w[k - 1], C[N - k + 1]))
    BY <2>1, <2>3, Zenon
  <2>. QED  BY <2>2, <2>4
<1>7. Rec(after)
  BY <1>6, Zenon
<1>. HIDE DEF after
<1>8. after[0] = m
  BY <1>1, <1>7
<1>9. \A k \in 1..N : after[k] = RestoreLink(after[k - 1], C[N - k + 1])
  BY <1>1, <1>7, Zenon
<1>10. after[N] \in S[N]
  <2>1. after[0] \in S[0] /\ N \in 0..N
    BY <1>1, <1>4, <1>8, <1>15
  <2>2. ASSUME NEW k \in 1..N, after[k - 1] \in S[k - 1]  PROVE after[k] \in S[k]
    <3>1. after[k - 1] \in GoodModels /\ S[k] = GoodModels /\ C[N - k + 1] \in Conns
      BY <1>1, <1>15, <2>2
    <3>. QED  BY <1>3, <1>9, <3>1
  <2>. QED  BY <1>1, <2>1, <2>2, Carried
<1>11. after[N] \in GoodModels
  BY <1>1, <1>10, <1>15
<1>. QED  BY <1>2, <1>11 DEF GoodModels

LEMMA NotifyOnGood ==
  ASSUME NEW m, Good(m), NEW r \in Required
  PROVE  Good(Notify(m, r, TRUE))
<1>. DEFINE L == m.listens[r]
            N == Len(L)
            Rec(f) == f = [k \in 0..N |-> IF k = 0 THEN m ELSE HandleInheritPI(f[k - 1], L[k], TRUE)]
            after == CHOOSE f : Rec(f)
            T == {x \in GoodModels : x.links = m.links}
            step == [k \in 1..N |-> [x \in T |-> HandleInheritPI(x, L[k], TRUE)]]
            S == [k \in 0..N |-> T]
<1>0. L \in Seq(Conns) /\ m \in Models
  BY DEF Good, Models
<1>1. N \in Nat /\ \A k \in 1..N : /\ L[k] \in Conns /\ L[k] \in m.links
                                   /\ k \in 0..N /\ k - 1 \in 0..N /\ k # 0
  <2>1. \A k \in 1..N : L[k] \in Range(L)
    BY <1>0 DEF Range
  <2>2. \A d \in Range(L) : d \in m.links
    BY DEF Good, Listened, ListeningTo
  <2>. HIDE DEF L
  <2>. QED  BY <1>0, <2>1, <2>2
<1>2. Notify(m, r, TRUE) = after[N]
  BY DEF Notify
<1>. HIDE DEF L, N
<1>3. \A c \in m.links, x \in T : c \in Conns => HandleInheritPI(x, c, TRUE) \in T
  <2>. SUFFICES ASSUME NEW c \in m.links, NEW x \in T, c \in Conns
                PROVE  HandleInheritPI(x, c, TRUE) \in T
    OBVIOUS
  <2>. DEFINE y == Inherit(x, c)
  <2>1. /\ y \in Models /\ AsideInherits(y) /\ Listened(y, x.links) /\ NoneWithoutFlag(y, Required)
        /\ y.links = x.links
    BY InheritKeeps DEF GoodModels, Good
  <2>2. HandleInheritPI(x, c, TRUE) = y
    BY DEF HandleInheritPI
  <2>. HIDE DEF y
  <2>. QED  BY <2>1, <2>2 DEF GoodModels, Good
<1>4. m \in T
  BY DEF GoodModels, Good
<1>. HIDE DEF T
<1>15. \A k \in 0..N : S[k] = T
  OBVIOUS
<1>16. \A k \in 1..N : \A x \in T : step[k][x] = HandleInheritPI(x, L[k], TRUE)
  OBVIOUS
<1>. HIDE DEF S, step
<1>5. PICK w : RecursionOf(w, m, step, N) /\ \A k \in 0..N : w[k] \in S[k]
  <2>1. m \in S[0]
    BY <1>1, <1>4, <1>15
  <2>2. ASSUME NEW k \in 1..N, NEW x \in S[k - 1]  PROVE step[k][x] \in S[k]
    <3>1. k \in 0..N /\ k - 1 \in 0..N /\ L[k] \in Conns
      BY <1>1
    <3>2. x \in T /\ S[k] = T
      BY <1>15, <3>1
    <3>3. step[k][x] \in T
      BY <1>1, <1>3, <1>16, <3>1, <3>2
    <3>. QED  BY <3>2, <3>3
  <2>. QED  BY <1>1, <2>1, <2>2, RecursionStays
<1>6. Rec(w)
  <2>1. \A k \in 1..N : step[k][w[k - 1]] = HandleInheritPI(w[k - 1], L[k], TRUE)
    BY <1>1, <1>5, <1>15, <1>16
  <2>2. w = [k \in 0..N |-> IF k = 0 THEN m ELSE step[k][w[k - 1]]]
    BY <1>5 DEF RecursionOf
  <2>3. \A k \in 0..N : k # 0 => k \in 1..N
    OBVIOUS
  <2>4. \A k \in 0..N : (IF k = 0 THEN m ELSE step[k][w[k - 1]])
                          = (IF k = 0 THEN m ELSE HandleInheritPI(w[k - 1], L[k], TRUE))
    BY <2>1, <2>3, Zenon
  <2>. QED  BY <2>2, <2>4
<1>7. Rec(after)
  BY <1>6, Zenon
<1>. HIDE DEF after
<1>8. after[0] = m
  BY <1>1, <1>7
<1>9. \A k \in 1..N : after[k] = HandleInheritPI(after[k - 1], L[k], TRUE)
  BY <1>1, <1>7, Zenon
<1>10. after[N] \in S[N]
  <2>1. after[0] \in S[0] /\ N \in 0..N
    BY <1>1, <1>4, <1>8, <1>15
  <2>2. ASSUME NEW k \in 1..N, after[k - 1] \in S[k - 1]  PROVE after[k] \in S[k]
    BY <1>1, <1>3, <1>9, <1>15, <2>2
  <2>. QED  BY <1>1, <2>1, <2>2, Carried
<1>11. after[N] \in T
  BY <1>1, <1>10, <1>15
<1>. QED  BY <1>2, <1>11 DEF T, GoodModels

\* An RI that is switched off has prototypes until all its connections were told.
LEMMA NotifyOffGood ==
  ASSUME NEW m \in Models, AsideInherits(m), Listened(m, m.links), NEW r \in Required,
         NoneWithoutFlag(m, Required \ {r})
  PROVE  Good(Notify(m, r, FALSE))
<1>. DEFINE L == m.listens[r]
            N == Len(L)
            Rec(f) == f = [k \in 0..N |-> IF k = 0 THEN m ELSE HandleInheritPI(f[k - 1], L[k], FALSE)]
            after == CHOOSE f : Rec(f)
            T(k) == {x \in Models : /\ AsideInherits(x) /\ Listened(x, m.links) /\ x.links = m.links
                                    /\ NoneWithoutFlag(x, Required \ {r})
                                    /\ ListeningTo(x, r) \subseteq {L[j] : j \in (k + 1)..N}}
            step == [k \in 1..N |-> [x \in T(k - 1) |-> HandleInheritPI(x, L[k], FALSE)]]
            S == [k \in 0..N |-> T(k)]
<1>0. L \in Seq(Conns)
  BY DEF Models
<1>1. N \in Nat /\ \A k \in 1..N : /\ L[k] \in Conns /\ From(L[k]) = r
                                   /\ k \in 0..N /\ k - 1 \in 0..N /\ k # 0
  <2>1. \A k \in 1..N : L[k] \in Range(L)
    BY <1>0 DEF Range
  <2>2. \A d \in Range(L) : From(d) = r
    BY DEF Listened, ListeningTo
  <2>. HIDE DEF L
  <2>. QED  BY <1>0, <2>1, <2>2
<1>2. Notify(m, r, FALSE) = after[N]
  BY DEF Notify
<1>12. ListeningTo(m, r) \subseteq {L[j] : j \in 1..N}
  BY <1>0 DEF ListeningTo, Range
<1>. HIDE DEF L, N
<1>3. \A k \in 1..N : \A x \in T(k - 1) : HandleInheritPI(x, L[k], FALSE) \in T(k)
  <2>. SUFFICES ASSUME NEW k \in 1..N, NEW x \in T(k - 1)
                PROVE  HandleInheritPI(x, L[k], FALSE) \in T(k)
    OBVIOUS
  <2>. DEFINE c == L[k]
              y == NotInherit(x, c)
  <2>1. NotInherited(x, y, m.links, c)
    BY <1>1, NotInheritKeeps
  <2>2. HandleInheritPI(x, c, FALSE) = y
    BY DEF HandleInheritPI
  <2>3. From(c) = r
    BY <1>1
  <2>. HIDE DEF y
  <2>4. ListeningTo(y, r) = ListeningTo(x, r) \ {c}
    BY <2>1, <2>3 DEF NotInherited
  <2>5. ListeningTo(y, r) \subseteq {L[j] : j \in (k + 1)..N}
    <3>1. \A j \in ((k - 1) + 1)..N : j = k \/ j \in (k + 1)..N
      BY <1>1
    <3>. QED  BY <2>4, <3>1
  <2>6. NoneWithoutFlag(y, Required \ {r})
    BY <2>1 DEF NotInherited, NoneWithoutFlag
  <2>. QED  BY <2>1, <2>2, <2>5, <2>6 DEF NotInherited
<1>4. m \in T(0)
  BY <1>1, <1>12
<1>. HIDE DEF T
<1>15. \A k \in 0..N : S[k] = T(k)
  OBVIOUS
<1>16. \A k \in 1..N : \A x \in T(k - 1) : step[k][x] = HandleInheritPI(x, L[k], FALSE)
  OBVIOUS
<1>. HIDE DEF S, step
<1>5. PICK w : RecursionOf(w, m, step, N) /\ \A k \in 0..N : w[k] \in S[k]
  <2>1. m \in S[0]
    BY <1>1, <1>4, <1>15
  <2>2. ASSUME NEW k \in 1..N, NEW x \in S[k - 1]  PROVE step[k][x] \in S[k]
    <3>1. k \in 0..N /\ k - 1 \in 0..N /\ L[k] \in Conns
      BY <1>1
    <3>2. x \in T(k - 1) /\ S[k] = T(k)
      BY <1>15, <3>1
    <3>3. step[k][x] \in T(k)
      BY <1>1, <1>3, <1>16, <3>1, <3>2
    <3>. QED  BY <3>2, <3>3
  <2>. QED  BY <1>1, <2>1, <2>2, RecursionStays
<1>6. Rec(w)
  <2>1. \A k \in 1..N : step[k][w[k - 1]] = HandleInheritPI(w[k - 1], L[k], FALSE)
    BY <1>1, <1>5, <1>15, <1>16
  <2>2. w = [k \in 0..N |-> IF k = 0 THEN m ELSE step[k][w[k - 1]]]
    BY <1>5 DEF RecursionOf
  <2>3. \A k \in 0..N : k # 0 => k \in 1..N
    OBVIOUS
  <2>4. \A k \in 0..N : (IF k = 0 THEN m ELSE step[k][w[k - 1]])
                          = (IF k = 0 THEN m ELSE HandleInheritPI(w[k - 1], L[k], FALSE))
    BY <2>1, <2>3, Zenon
  <2>. QED  BY <2>2, <2>4
<1>7. Rec(after)
  BY <1>6, Zenon
<1>. HIDE DEF after
<1>8. after[0] = m
  BY <1>1, <1>7
<1>9. \A k \in 1..N : after[k] = HandleInheritPI(after[k - 1], L[k], FALSE)
  BY <1>1, <1>7, Zenon
<1>10. after[N] \in S[N]
  <2>1. after[0] \in S[0] /\ N \in 0..N
    BY <1>1, <1>4, <1>8, <1>15
  <2>2. ASSUME NEW k \in 1..N, after[k - 1] \in S[k - 1]  PROVE after[k] \in S[k]
    BY <1>1, <1>3, <1>9, <1>15, <2>2
  <2>. QED  BY <1>1, <2>1, <2>2, Carried
<1>11. after[N] \in T(N)
  BY <1>1, <1>10, <1>15
<1>. DEFINE n == after[N]
<1>13. /\ n \in Models /\ AsideInherits(n) /\ Listened(n, m.links) /\ n.links = m.links
       /\ NoneWithoutFlag(n, Required \ {r}) /\ ListeningTo(n, r) = {}
  <2>1. (N + 1)..N = {}
    BY <1>1
  <2>. QED  BY <1>11, <2>1 DEF T
<1>. HIDE DEF n
<1>14. n.protos[r] = {}
  BY <1>13 DEF Listened
<1>17. Good(n)
  BY <1>13, <1>14 DEF Good, NoneWithoutFlag
<1>. QED  BY <1>2, <1>17 DEF n

LEMMA SetInheritPIGood ==
  ASSUME NEW m, Good(m), NEW r \in Required, NEW on \in BOOLEAN
  PROVE  Good(SetInheritPI(m, r, on))
<1>. DEFINE a == [m EXCEPT !.flag[r] = on]
<1>1. CASE m.flag[r] = on
  BY <1>1 DEF SetInheritPI
<1>2. CASE m.flag[r] # on
  <2>1. /\ a \in Models /\ a.flag = [m.flag EXCEPT ![r] = on] /\ a.links = m.links
        /\ a.protos = m.protos /\ a.original = m.original /\ a.listens = m.listens
    BY DEF Good, Models
  <2>2. SetInheritPI(m, r, on) = Notify(a, r, on)
    BY <1>2 DEF SetInheritPI
  <2>. HIDE DEF a
  <2>3. /\ AsideInherits(a) /\ Listened(a, a.links) /\ NoneWithoutFlag(a, Required \ {r})
    BY <2>1 DEF Good, Models, AsideInherits, Listened, ListeningTo, NoneWithoutFlag
  <2>4. CASE on
    <3>1. NoneWithoutFlag(a, Required)
      BY <2>1, <2>3, <2>4 DEF NoneWithoutFlag, Good, Models
    <3>2. Good(a)
      BY <2>1, <2>3, <3>1 DEF Good
    <3>. QED  BY <2>2, <2>4, <3>2, NotifyOnGood
  <2>5. CASE ~on
    BY <2>1, <2>2, <2>3, <2>5, NotifyOffGood
  <2>. QED  BY <2>4, <2>5
<1>. QED  BY <1>1, <1>2

LEMMA SetParamsGood ==
  ASSUME NEW m, Good(m), NEW i \in session.ifaces, NEW q \in ParamLists
  PROVE  Good(SetParams(m, i, q))
<1>. DEFINE n == SetParams(m, i, q)
            ps == [j \in session.ifaces |->
                     IF j = i \/ (j \in Required /\ i \in m.hears[j] /\ m.params[i] # q)
                     THEN q ELSE m.params[j]]
<1>0. m \in Models
  BY DEF Good
<1>1. n = [m EXCEPT !.params = ps]
  BY <1>0 DEF SetParams, RIsOf, Models
<1>2. ps \in [session.ifaces -> ParamLists]
  BY <1>0 DEF Models
<1>. HIDE DEF n, ps
<1>3. /\ n \in Models /\ n.flag = m.flag /\ n.links = m.links /\ n.protos = m.protos
      /\ n.original = m.original /\ n.listens = m.listens
  BY <1>0, <1>1, <1>2 DEF Models
<1>4. Good(n)
  BY <1>3 DEF Good, AsideInherits, Listened, ListeningTo, NoneWithoutFlag
<1>. QED  BY <1>4 DEF n

\* A kind of an interface does not matter here.
LEMMA KindGood ==
  ASSUME NEW m, Good(m), NEW i \in session.ifaces, NEW k \in Kinds
  PROVE  Good([m EXCEPT !.kind[i] = k])
<1>. DEFINE n == [m EXCEPT !.kind[i] = k]
<1>1. /\ n \in Models /\ n.flag = m.flag /\ n.links = m.links /\ n.protos = m.protos
      /\ n.original = m.original /\ n.listens = m.listens
  BY DEF Good, Models
<1>. HIDE DEF n
<1>2. Good(n)
  BY <1>1 DEF Good, AsideInherits, Listened, ListeningTo, NoneWithoutFlag
<1>. QED  BY <1>2 DEF n

LEMMA ReflectAttrsGood ==
  ASSUME NEW m, Good(m), NEW r \in Required, NEW p \in session.ifaces
  PROVE  Good(ReflectAttrs(m, r, p))
<1>1. CASE m.kind[r] = m.kind[p]
  BY <1>1 DEF ReflectAttrs
<1>2. CASE m.kind[r] # m.kind[p]
  <2>. DEFINE a == IF m.flag[r] THEN Notify(m, r, TRUE) ELSE m
  <2>1. Good(a)
    BY NotifyOnGood
  <2>2. ReflectAttrs(m, r, p) = [a EXCEPT !.kind[r] = m.kind[p]]
    BY <1>2 DEF ReflectAttrs
  <2>. HIDE DEF a
  <2>3. r \in session.ifaces /\ m.kind[p] \in Kinds
    BY DEF Required, Good, Models
  <2>. QED  BY <2>1, <2>2, <2>3, KindGood
<1>. QED  BY <1>1, <1>2

LEMMA SetKindGood ==
  ASSUME NEW m, Good(m), NEW i \in session.ifaces, NEW kind \in Kinds
  PROVE  Good(SetKind(m, i, kind))
<1>. DEFINE H == {r \in RIsOf(m) : i \in m.hears[r] /\ m.kind[i] # kind}
            L == SetToSeq(H)
            N == Len(L)
            first == [m EXCEPT !.kind[i] = kind]
            Rec(f) == f = [k \in 0..N |-> IF k = 0 THEN first ELSE ReflectAttrs(f[k - 1], L[k], i)]
            after == CHOOSE f : Rec(f)
            step == [k \in 1..N |-> [x \in GoodModels |-> ReflectAttrs(x, L[k], i)]]
            S == [k \in 0..N |-> GoodModels]
<1>0. L \in Seq(Required)
  <2>1. H \in SUBSET Required /\ IsFiniteSet(H)
    <3>1. RIsOf(m) = Required
      BY DEF RIsOf, Good, Models
    <3>2. IsFiniteSet(Required)
      <4>1. Required \in SUBSET (RIs \cup PIs)
        BY DEF Required
      <4>. QED  BY <4>1, InheritAssumption, FS_Subset
    <3>. QED  BY <3>1, <3>2, FS_Subset
  <2>. HIDE DEF H
  <2>. QED  BY <2>1, SetToSeqElements
<1>2. SetKind(m, i, kind) = after[N]
  BY DEF SetKind
<1>. HIDE DEF L
<1>1. N \in Nat /\ \A k \in 1..N : L[k] \in Required /\ k \in 0..N /\ k - 1 \in 0..N /\ k # 0
  BY <1>0
<1>. HIDE DEF N
<1>3. \A r \in Required, x \in GoodModels : ReflectAttrs(x, r, i) \in GoodModels
  BY ReflectAttrsGood DEF GoodModels, Good
<1>4. first \in GoodModels
  BY KindGood DEF GoodModels, Good
<1>. HIDE DEF first
<1>15. \A k \in 0..N : S[k] = GoodModels
  OBVIOUS
<1>16. \A k \in 1..N : \A x \in GoodModels : step[k][x] = ReflectAttrs(x, L[k], i)
  OBVIOUS
<1>. HIDE DEF S, step
<1>5. PICK w : RecursionOf(w, first, step, N) /\ \A k \in 0..N : w[k] \in S[k]
  <2>1. first \in S[0]
    BY <1>1, <1>4, <1>15
  <2>2. \A k \in 1..N : \A x \in S[k - 1] : step[k][x] \in S[k]
    BY <1>1, <1>3, <1>15, <1>16
  <2>. QED  BY <1>1, <2>1, <2>2, RecursionStays
<1>6. Rec(w)
  <2>1. \A k \in 1..N : step[k][w[k - 1]] = ReflectAttrs(w[k - 1], L[k], i)
    BY <1>1, <1>5, <1>15, <1>16
  <2>2. w = [k \in 0..N |-> IF k = 0 THEN first ELSE step[k][w[k - 1]]]
    BY <1>5 DEF RecursionOf
  <2>3. \A k \in 0..N : k # 0 => k \in 1..N
    OBVIOUS
  <2>4. \A k \in 0..N : (IF k = 0 THEN first ELSE step[k][w[k - 1]])
                          = (IF k = 0 THEN first ELSE ReflectAttrs(w[k - 1], L[k], i))
    BY <2>1, <2>3, Zenon
  <2>. QED  BY <2>2, <2>4
<1>7. Rec(after)
  BY <1>6, Zenon
<1>. HIDE DEF after
<1>8. after[0] = first
  BY <1>1, <1>7
<1>9. \A k \in 1..N : after[k] = ReflectAttrs(after[k - 1], L[k], i)
  BY <1>1, <1>7, Zenon
<1>10. after[N] \in S[N]
  <2>1. after[0] \in S[0] /\ N \in 0..N
    BY <1>1, <1>4, <1>8, <1>15
  <2>2. ASSUME NEW k \in 1..N, after[k - 1] \in S[k - 1]  PROVE after[k] \in S[k]
    BY <1>1, <1>3, <1>9, <1>15, <2>2
  <2>. QED  BY <1>1, <2>1, <2>2, Carried
<1>11. after[N] \in GoodModels
  BY <1>1, <1>10, <1>15
<1>. QED  BY <1>2, <1>11 DEF GoodModels

LEMMA RenameGood ==
  ASSUME NEW m, Good(m), NEW p \in Provided
  PROVE  Good(Rename(m, p))
<1>. DEFINE H == {r \in RIsOf(m) : \E c \in Range(m.listens[r]) : To(c) = p}
            L == SetToSeq(H)
            N == Len(L)
            T == {x \in GoodModels : x.protos = m.protos /\ x.flag = m.flag}
            Rec(f) == f = [k \in 0..N |-> IF k = 0 THEN m ELSE SetPrototype(f[k - 1], L[k], p)]
            after == CHOOSE f : Rec(f)
            step == [k \in 1..N |-> [x \in T |-> SetPrototype(x, L[k], p)]]
            S == [k \in 0..N |-> T]
<1>0. H \in SUBSET Required /\ L \in Seq(H)
  <2>1. H \in SUBSET Required /\ IsFiniteSet(H)
    <3>1. RIsOf(m) = Required
      BY DEF RIsOf, Good, Models
    <3>2. IsFiniteSet(Required)
      <4>1. Required \in SUBSET (RIs \cup PIs)
        BY DEF Required
      <4>. QED  BY <4>1, InheritAssumption, FS_Subset
    <3>. QED  BY <3>1, <3>2, FS_Subset
  <2>. HIDE DEF H
  <2>. QED  BY <2>1, SetToSeqElements
<1>2. Rename(m, p) = after[N]
  BY DEF Rename
<1>17. \A r \in H : r \in Required /\ p \in m.protos[r] /\ m.flag[r]
  <2>. SUFFICES ASSUME NEW r \in H  PROVE r \in Required /\ p \in m.protos[r] /\ m.flag[r]
    OBVIOUS
  <2>1. r \in Required /\ \E c \in ListeningTo(m, r) : To(c) = p
    BY <1>0 DEF ListeningTo
  <2>2. p \in m.protos[r]
    BY <2>1 DEF Good, Listened
  <2>. QED  BY <2>1, <2>2 DEF Good, NoneWithoutFlag
<1>. HIDE DEF L, H
<1>1. N \in Nat /\ \A k \in 1..N : L[k] \in H /\ k \in 0..N /\ k - 1 \in 0..N /\ k # 0
  BY <1>0
<1>. HIDE DEF N
<1>3. \A r \in H, x \in T : SetPrototype(x, r, p) \in T
  <2>. SUFFICES ASSUME NEW r \in H, NEW x \in T  PROVE SetPrototype(x, r, p) \in T
    OBVIOUS
  <2>. DEFINE y == SetPrototype(x, r, p)
  <2>0. r \in Required /\ x.flag[r] /\ x \in Models /\ AsideInherits(x) /\ p \in x.protos[r]
    BY <1>17 DEF GoodModels, Good
  <2>1. /\ y \in Models /\ AsideInherits(y) /\ Concerns(x, y, r)
        /\ y.flag = x.flag /\ y.listens = x.listens
        /\ y.protos[r] = x.protos[r] \cup {p}
    BY <2>0, SetPrototypeIs
  <2>. HIDE DEF y
  <2>2. y.protos = x.protos
    <3>1. \A q \in Required : y.protos[q] = x.protos[q]
      BY <2>0, <2>1 DEF Concerns
    <3>. QED  BY <2>0, <2>1, <3>1 DEF Models
  <2>3. Good(y)
    BY <2>1, <2>2 DEF GoodModels, Good, Concerns, Listened, ListeningTo, NoneWithoutFlag
  <2>4. y \in T
    BY <2>1, <2>2, <2>3 DEF GoodModels
  <2>. QED  BY <2>4 DEF y
<1>4. m \in T
  BY DEF GoodModels, Good
<1>. HIDE DEF T
<1>15. \A k \in 0..N : S[k] = T
  OBVIOUS
<1>16. \A k \in 1..N : \A x \in T : step[k][x] = SetPrototype(x, L[k], p)
  OBVIOUS
<1>. HIDE DEF S, step
<1>5. PICK w : RecursionOf(w, m, step, N) /\ \A k \in 0..N : w[k] \in S[k]
  <2>1. m \in S[0]
    BY <1>1, <1>4, <1>15
  <2>2. \A k \in 1..N : \A x \in S[k - 1] : step[k][x] \in S[k]
    BY <1>1, <1>3, <1>15, <1>16
  <2>. QED  BY <1>1, <2>1, <2>2, RecursionStays
<1>6. Rec(w)
  <2>1. \A k \in 1..N : step[k][w[k - 1]] = SetPrototype(w[k - 1], L[k], p)
    BY <1>1, <1>5, <1>15, <1>16
  <2>2. w = [k \in 0..N |-> IF k = 0 THEN m ELSE step[k][w[k - 1]]]
    BY <1>5 DEF RecursionOf
  <2>3. \A k \in 0..N : k # 0 => k \in 1..N
    OBVIOUS
  <2>4. \A k \in 0..N : (IF k = 0 THEN m ELSE step[k][w[k - 1]])
                          = (IF k = 0 THEN m ELSE SetPrototype(w[k - 1], L[k], p))
    BY <2>1, <2>3, Zenon
  <2>. QED  BY <2>2, <2>4
<1>7. Rec(after)
  BY <1>6, Zenon
<1>. HIDE DEF after
<1>8. after[0] = m
  BY <1>1, <1>7
<1>9. \A k \in 1..N : after[k] = SetPrototype(after[k - 1], L[k], p)
  BY <1>1, <1>7, Zenon
<1>10. after[N] \in S[N]
  <2>1. after[0] \in S[0] /\ N \in 0..N
    BY <1>1, <1>4, <1>8, <1>15
  <2>2. ASSUME NEW k \in 1..N, after[k - 1] \in S[k - 1]  PROVE after[k] \in S[k]
    BY <1>1, <1>3, <1>9, <1>15, <2>2
  <2>. QED  BY <1>1, <2>1, <2>2, Carried
<1>11. after[N] \in T
  BY <1>1, <1>10, <1>15
<1>. QED  BY <1>2, <1>11 DEF T, GoodModels
-------------------------------------------------------------------------------
(* Commands.                                                                    *)

LEMMA PartedAreConns ==
  ASSUME NEW m, Good(m), NEW i
  PROVE  Parted(m, i) \in Seq(Conns)
<1>. DEFINE P == {c \in LinksOf(m, i) : m.params[From(c)] # m.params[To(c)]}
<1>1. P \in SUBSET Conns
  BY DEF LinksOf, Good, Models
<1>2. IsFiniteSet(Conns)
  <2>1. Required \in SUBSET (RIs \cup PIs) /\ Provided \in SUBSET (RIs \cup PIs)
    BY DEF Required, Provided
  <2>2. IsFiniteSet(Required) /\ IsFiniteSet(Provided)
    BY <2>1, InheritAssumption, FS_Subset
  <2>3. IsFiniteSet(Required \X Provided)
    BY <2>2, FS_Product
  <2>4. ExistsBijection(Required \X Provided, Conns)
    <3>. DEFINE f == [e \in Required \X Provided |-> <<e[1], e[2], 1>>]
    <3>1. f \in Injection(Required \X Provided, Conns)
      BY DEF Conns, Injection, IsInjective
    <3>2. f \in Surjection(Required \X Provided, Conns)
      <4>1. ASSUME NEW c \in Conns  PROVE \E e \in Required \X Provided : f[e] = c
        <5>1. <<c[1], c[2]>> \in Required \X Provided /\ f[<<c[1], c[2]>>] = c
          BY DEF Conns
        <5>. QED  BY <5>1
      <4>. QED  BY <3>1, <4>1 DEF Surjection, Injection, Range
    <3>. QED  BY <3>1, <3>2 DEF ExistsBijection, Bijection
  <2>. QED  BY <2>3, <2>4, FS_Bijection
<1>3. IsFiniteSet(P)
  BY <1>1, <1>2, FS_Subset
<1>4. SetToSeq(P) \in Seq(Conns)
  <2>. HIDE DEF P
  <2>1. SetToSeq(P) \in Seq(P)
    BY <1>3, SetToSeqElements
  <2>. QED  BY <1>1, <2>1
<1>. QED  BY <1>4 DEF Parted

LEMMA NotingGiven ==
  ASSUME NEW m, Good(m), NEW c \in Given
  PROVE  Noting(m, c) \in Given
<1>1. CASE c.kind # "params"
  BY <1>1 DEF Noting
<1>2. CASE c.kind = "params"
  <2>. DEFINE n == Noting(m, c)
              q == Parted(SetParams(m, c.i, c.new), c.i)
  <2>0. c \in [kind : {"params"}, i : session.ifaces, new : ParamLists, old : ParamLists,
               parted : Seq(Conns)]
    BY <1>2 DEF Given
  <2>1. q \in Seq(Conns)
    BY <2>0, SetParamsGood, PartedAreConns
  <2>2. n = [c EXCEPT !.parted = q]
    BY <1>2 DEF Noting
  <2>. HIDE DEF n, q
  <2>4. n \in Given
    BY <2>0, <2>1, <2>2 DEF Given
  <2>. QED  BY <2>4 DEF n
<1>. QED  BY <1>1, <1>2

\* Whatever a command does or takes back, in whatever state, the model stays good.
LEMMA CommandsGood ==
  ASSUME NEW m, Good(m), NEW c \in Given
  PROVE  Good(Redo(m, c)) /\ Good(Undo(m, c))
<1>0. /\ c.kind \in {"connect", "remove", "params", "kind", "inherit", "rename"}
      /\ c.kind = "connect" => c.c \in Conns
      /\ c.kind = "remove" => c.C \in Seq(Conns)
      /\ c.kind = "params" => c.i \in session.ifaces /\ c.old \in ParamLists /\ c.new \in ParamLists
      /\ c.kind = "params" => c.parted \in Seq(Conns)
      /\ c.kind = "kind" => c.i \in session.ifaces /\ c.old \in Kinds /\ c.new \in Kinds
      /\ c.kind = "inherit" => c.i \in Required /\ c.new \in BOOLEAN /\ c.old \in BOOLEAN
      /\ c.kind = "rename" => c.i \in Provided
  BY DEF Given
<1>1. CASE c.kind = "connect"
  <2>1. <<c.c>> \in Seq(Conns)
    BY <1>0, <1>1
  <2>2. Good(AddLink(m, c.c)) /\ Good(RemoveLinks(m, <<c.c>>))
    BY <1>0, <1>1, <2>1, RestoreLinkGood, RemoveLinksGood
  <2>. QED  BY <1>1, <2>2 DEF Redo, Undo
<1>2. CASE c.kind = "remove"
  <2>1. Good(RemoveLinks(m, c.C)) /\ Good(RestoreLinks(m, c.C))
    BY <1>0, <1>2, RestoreLinksGood, RemoveLinksGood
  <2>. QED  BY <1>2, <2>1 DEF Redo, Undo
<1>3. CASE c.kind = "params"
  <2>1. Good(SetParams(m, c.i, c.new)) /\ Good(SetParams(m, c.i, c.old))
    BY <1>0, <1>3, SetParamsGood
  <2>2. Good(RemoveLinks(SetParams(m, c.i, c.new), c.parted)) /\ Good(RestoreLinks(SetParams(m, c.i, c.old), c.parted))
    BY <1>0, <1>3, <2>1, RestoreLinksGood, RemoveLinksGood
  <2>. QED  BY <1>3, <2>2 DEF Redo, Undo
<1>4. CASE c.kind = "kind"
  <2>1. Good(SetKind(m, c.i, c.new)) /\ Good(SetKind(m, c.i, c.old))
    BY <1>0, <1>4, SetKindGood
  <2>. QED  BY <1>4, <2>1 DEF Redo, Undo
<1>5. CASE c.kind = "inherit"
  <2>1. Good(SetInheritPI(m, c.i, c.new)) /\ Good(SetInheritPI(m, c.i, c.old))
    BY <1>0, <1>5, SetInheritPIGood
  <2>. QED  BY <1>5, <2>1 DEF Redo, Undo
<1>6. CASE c.kind = "rename"
  <2>1. Good(Rename(m, c.i))
    BY <1>0, <1>6, RenameGood
  <2>. QED  BY <1>6, <2>1 DEF Redo, Undo
<1>. QED  BY <1>0, <1>1, <1>2, <1>3, <1>4, <1>5, <1>6
-------------------------------------------------------------------------------
(* Steps.                                                                       *)

\* The session stays, and with it what depends on it.
LEMMA GoodNext ==
  ASSUME session \in Sessions, UNCHANGED session, session.copies <= 1,
         Good(view'), stack' \in Seq(Given), index' \in 0..Len(stack')
  PROVE  InheritInv'
<1>1. Required' = Required /\ Provided' = Provided
  BY DEF Required, Provided
<1>2. Conns' = Conns
  BY <1>1 DEF Conns
<1>3. Models' = Models /\ Given' = Given
  BY <1>1, <1>2 DEF Models, Given, Kinds, PutAside
<1>4. Good(view)'
  BY <1>1, <1>3 DEF Good, AsideInherits, Listened, ListeningTo, NoneWithoutFlag
<1>. QED  BY <1>3, <1>4 DEF InheritInv

LEMMA PushGood ==
  ASSUME InheritInv, UNCHANGED session, session.copies <= 1, NEW c \in Given, Push(c)
  PROVE  InheritInv'
<1>. DEFINE n == Noting(view, c)
<1>1. Good(view) /\ stack \in Seq(Given) /\ index \in 0..Len(stack)
  BY DEF InheritInv
<1>2. n \in Given
  BY <1>1, NotingGiven
<1>3. view' = Redo(view, n) /\ stack' = Append(SubSeq(stack, 1, index), n) /\ index' = index + 1
  BY DEF Push
<1>. HIDE DEF n
<1>4. Good(view')
  BY <1>1, <1>2, <1>3, CommandsGood
<1>5. SubSeq(stack, 1, index) \in Seq(Given) /\ Len(SubSeq(stack, 1, index)) = index
  BY <1>1
<1>6. stack' \in Seq(Given) /\ index' \in 0..Len(stack')
  BY <1>1, <1>2, <1>3, <1>5
<1>. QED  BY <1>4, <1>6, GoodNext DEF InheritInv

LEMMA CommandStep ==
  ASSUME InheritInv, UNCHANGED session, session.copies <= 1, Commands(session.ifaces)
  PROVE  InheritInv'
<1>0. Good(view) /\ session \in Sessions /\ view \in Models
  BY DEF InheritInv, Good
<1>1. ASSUME NEW r \in Required, NEW p \in Provided, NEW k \in 1..session.copies, Connect(r, p, k)
      PROVE  InheritInv'
  <2>1. k = 1
    BY <1>0, InheritAssumption
  <2>2. [kind |-> "connect", c |-> <<r, p, k>>] \in Given
    BY <2>1 DEF Given, Conns
  <2>. QED  BY <1>1, <2>2, PushGood DEF Connect
<1>2. ASSUME NEW C \in BoundedSeq(view.links, 2), RemoveConnections(C)
      PROVE  InheritInv'
  <2>1. C \in Seq(view.links)
    <3>1. PICK n \in 0..2 : C \in [1..n -> view.links]
      BY DEF BoundedSeq, SeqOf
    <3>. QED  BY <3>1, SeqDef
  <2>2. C \in Seq(Conns)
    BY <1>0, <2>1 DEF Models
  <2>3. [kind |-> "remove", C |-> C] \in Given
    BY <2>2 DEF Given
  <2>. QED  BY <1>2, <2>3, PushGood DEF RemoveConnections
<1>3. ASSUME NEW i \in session.ifaces, NEW q \in ParamLists, ChangeParams(i, q)
      PROVE  InheritInv'
  <2>1. << >> \in Seq(Conns) /\ view.params[i] \in ParamLists
    BY <1>0 DEF Models
  <2>2. [kind |-> "params", i |-> i, new |-> q, old |-> view.params[i], parted |-> << >>] \in Given
    BY <2>1 DEF Given
  <2>. QED  BY <1>3, <2>2, PushGood DEF ChangeParams
<1>4. ASSUME NEW i \in session.ifaces, NEW k \in RIKinds \cup PIKinds, ChangeKind(i, k)
      PROVE  InheritInv'
  <2>1. k \in Kinds /\ view.kind[i] \in Kinds
    BY <1>0 DEF Models, Kinds
  <2>2. [kind |-> "kind", i |-> i, new |-> k, old |-> view.kind[i]] \in Given
    BY <2>1 DEF Given
  <2>. QED  BY <1>4, <2>2, PushGood DEF ChangeKind
<1>5. ASSUME NEW r \in Required, ChangeInheritPI(r)
      PROVE  InheritInv'
  <2>1. view.flag[r] \in BOOLEAN
    BY <1>0 DEF Models
  <2>2. [kind |-> "inherit", i |-> r, new |-> ~view.flag[r], old |-> view.flag[r]] \in Given
    BY <2>1 DEF Given
  <2>. QED  BY <1>5, <2>2, PushGood DEF ChangeInheritPI
<1>6. ASSUME NEW p \in Provided, RenamePI(p)
      PROVE  InheritInv'
  <2>1. [kind |-> "rename", i |-> p] \in Given
    BY DEF Given
  <2>. QED  BY <1>6, <2>1, PushGood DEF RenamePI
<1>. QED  BY <1>1, <1>2, <1>3, <1>4, <1>5, <1>6 DEF Commands, Required, Provided

LEMMA UndoRedoStep ==
  ASSUME InheritInv, UNCHANGED session, session.copies <= 1, UndoOne \/ RedoOne
  PROVE  InheritInv'
<1>1. Good(view) /\ stack \in Seq(Given) /\ index \in 0..Len(stack) /\ session \in Sessions
  BY DEF InheritInv
<1>2. CASE UndoOne
  <2>1. stack[index] \in Given /\ index' \in 0..Len(stack)
    BY <1>1, <1>2 DEF UndoOne
  <2>2. Good(view')
    BY <1>1, <1>2, <2>1, CommandsGood DEF UndoOne
  <2>. QED  BY <1>1, <1>2, <2>1, <2>2, GoodNext DEF UndoOne
<1>3. CASE RedoOne
  <2>1. stack[index + 1] \in Given /\ index' \in 0..Len(stack)
    BY <1>1, <1>3 DEF RedoOne
  <2>2. Good(view')
    BY <1>1, <1>3, <2>1, CommandsGood DEF RedoOne
  <2>. QED  BY <1>1, <1>3, <2>1, <2>2, GoodNext DEF RedoOne
<1>. QED  BY <1>2, <1>3

\* A loaded model has no connection and no prototype yet.
LEMMA StartGood ==
  ASSUME session \in Sessions, NEW m \in Start(session.ifaces)
  PROVE  Good(m)
<1>1. PICK f \in [Required -> BOOLEAN], q \in [session.ifaces -> ParamLists] :
        m = [flag |-> f, params |-> q,
             kind |-> [i \in session.ifaces |-> IF i \in Required THEN "Any" ELSE "Sporadic"],
             protos |-> [r \in Required |-> {}], original |-> [r \in Required |-> Unset],
             hears |-> [r \in Required |-> {}],
             links |-> {}, listens |-> [r \in Required |-> << >>]]
  <2>1. PICK f \in [RIs \cap session.ifaces -> BOOLEAN], q \in [session.ifaces -> ParamLists] :
          m = Loaded(session.ifaces, f, q)
    BY DEF Start
  <2>. QED  BY <2>1 DEF Loaded, Required
<1>2. "Any" \in Kinds /\ "Sporadic" \in Kinds /\ << >> \in Seq(Conns) /\ Unset \in PutAside
  BY InheritAssumption DEF Kinds, PutAside
<1>3. m \in Models
  BY <1>1, <1>2 DEF Models
<1>4. AsideInherits(m) /\ NoneWithoutFlag(m, Required)
  BY <1>1 DEF AsideInherits, NoneWithoutFlag
<1>5. \A r \in Required : m.protos[r] = {} /\ m.listens[r] = << >>
  BY <1>1
<1>6. Range(<< >>) = {}
  BY DEF Range
<1>7. Listened(m, m.links)
  BY <1>5, <1>6 DEF Listened, ListeningTo
<1>. QED  BY <1>3, <1>4, <1>7 DEF Good

LEMMA InheritInvariant ==
  Spec => []InheritInv
<1>1. Init => InheritInv
  <2>. SUFFICES ASSUME Init  PROVE InheritInv
    OBVIOUS
  <2>1. Good(view)
    BY StartGood DEF Init
  <2>2. << >> \in Seq(Given)
    OBVIOUS
  <2>. QED  BY <2>1, <2>2 DEF Init, InheritInv
<1>2. InheritInv /\ [Next]_vars => InheritInv'
  <2>. SUFFICES ASSUME InheritInv, [Next]_vars  PROVE InheritInv'
    OBVIOUS
  <2>1. UNCHANGED session
    BY DEF Next, vars
  <2>2. CASE session.copies <= 1
    <3>1. CASE Next
      BY <2>1, <2>2, <3>1, CommandStep, UndoRedoStep DEF Next
    <3>2. CASE UNCHANGED vars
      <4>1. Good(view') /\ stack' \in Seq(Given) /\ index' \in 0..Len(stack') /\ session \in Sessions
        BY <2>2, <3>2 DEF vars, InheritInv
      <4>. QED  BY <2>1, <2>2, <4>1, GoodNext
    <3>. QED  BY <3>1, <3>2
  <2>3. CASE ~(session.copies <= 1)
    BY <2>1, <2>3 DEF InheritInv
  <2>. QED  BY <2>2, <2>3
<1>. QED  BY <1>1, <1>2, PTL DEF Spec

\* Whatever is connected, removed, switched, renamed or changed, undone and redone: a
\* prototype of an RI (IVInterfaceRequired::m_prototypes) is connected to it, as long as
\* no two connections join the same interfaces.
THEOREM PrototypesStayConnected ==
  Spec => []PrototypesAreConnected
<1>1. InheritInv => PrototypesAreConnected
  <2>. SUFFICES ASSUME InheritInv, session.copies <= 1, NEW r \in RIsOf(view), NEW p \in view.protos[r]
                PROVE  \E c \in view.links : From(c) = r /\ To(c) = p
    BY DEF PrototypesAreConnected
  <2>1. Good(view) /\ r \in Required
    BY DEF InheritInv, Good, Models, RIsOf
  <2>2. PICK c \in ListeningTo(view, r) : To(c) = p
    BY <2>1 DEF Good, Listened
  <2>3. c \in view.links /\ From(c) = r
    BY <2>1 DEF Good, Listened
  <2>. QED  BY <2>2, <2>3
<1>. QED  BY <1>1, InheritInvariant, PTL
-------------------------------------------------------------------------------
(* Sessions with one prototype at a time.  All there is to a model is what the  *)
(* interfaces have of their own, which of them want to inherit and which        *)
(* connections there are: the rest is brought about by the handlers.            *)

Links == Required \X Provided \X (1..session.copies)

Owns ==
  [flag : [Required -> BOOLEAN], params : [session.ifaces -> ParamLists],
   kind : [session.ifaces -> Kinds], links : SUBSET Links]

OnePerRI(L) == \A c, d \in L : From(c) = From(d) => c = d

Follows(k, r) == k.flag[r] /\ \E c \in k.links : From(c) = r
LinkOf(k, r)  == CHOOSE c \in k.links : From(c) = r
Leader(k, i)  == IF i \in Required /\ Follows(k, i) THEN To(LinkOf(k, i)) ELSE i

\* The data the interfaces show, and what they keep track of.
ShownParams(k) == [i \in session.ifaces |-> k.params[Leader(k, i)]]
ShownKind(k)   == [i \in session.ifaces |-> k.kind[Leader(k, i)]]
ShownProtos(k) == [r \in Required |-> IF Follows(k, r) THEN {Leader(k, r)} ELSE {}]
ShownAside(k)  ==
  [r \in Required |->
     IF Follows(k, r) THEN [data |-> <<k.params[r], k.kind[r]>>, flag |-> TRUE] ELSE Unset]
ShownListens(k) == [r \in Required |-> IF Follows(k, r) THEN <<LinkOf(k, r)>> ELSE << >>]

Shown(k) ==
  [flag |-> k.flag, params |-> ShownParams(k), kind |-> ShownKind(k), protos |-> ShownProtos(k),
   original |-> ShownAside(k), hears |-> ShownProtos(k), links |-> k.links,
   listens |-> ShownListens(k)]

\* Where an RI does not inherit, its connection joins equal parameters.
Agreeing(k) == \A c \in k.links : ~k.flag[From(c)] => k.params[From(c)] = k.params[To(c)]

Sources == {k \in Owns : OnePerRI(k.links)}

LEMMA LinkEnds ==
  ASSUME NEW c \in Links
  PROVE  /\ From(c) \in Required /\ To(c) \in Provided
         /\ From(c) \in session.ifaces /\ To(c) \in session.ifaces
         /\ To(c) \notin Required
  BY InheritAssumption DEF Links, From, To, Required, Provided

\* An RI that follows its only connection, and the others.
LEMMA Leaders ==
  ASSUME NEW k \in Sources
  PROVE  /\ \A r \in Required : Follows(k, r) =>
              LinkOf(k, r) \in k.links /\ From(LinkOf(k, r)) = r /\ Leader(k, r) = To(LinkOf(k, r))
         /\ \A c \in k.links : LinkOf(k, From(c)) = c /\ (Follows(k, From(c)) <=> k.flag[From(c)])
         /\ \A i \in session.ifaces : /\ Leader(k, i) \in session.ifaces
                                      /\ i \notin Required \/ ~Follows(k, i) => Leader(k, i) = i
         /\ \A p \in Provided : Leader(k, p) = p
<1>1. k.links \in SUBSET Links /\ OnePerRI(k.links)
  BY DEF Sources, Owns
<1>2. \A r : (\E c \in k.links : From(c) = r) => LinkOf(k, r) \in k.links /\ From(LinkOf(k, r)) = r
  BY DEF LinkOf
<1>3. \A r \in Required : Follows(k, r) =>
        LinkOf(k, r) \in k.links /\ From(LinkOf(k, r)) = r /\ Leader(k, r) = To(LinkOf(k, r))
  BY <1>2 DEF Follows, Leader
<1>4. \A c \in k.links : LinkOf(k, From(c)) = c
  BY <1>1, <1>2 DEF OnePerRI
<1>5. \A c \in k.links : Follows(k, From(c)) <=> k.flag[From(c)]
  BY DEF Follows
<1>6. \A i \in session.ifaces : i \notin Required \/ ~Follows(k, i) => Leader(k, i) = i
  BY DEF Leader
<1>7. \A i \in session.ifaces : Leader(k, i) \in session.ifaces
  <2>. TAKE i \in session.ifaces
  <2>1. CASE i \in Required /\ Follows(k, i)
    BY <1>1, <1>3, <2>1, LinkEnds
  <2>2. CASE ~(i \in Required /\ Follows(k, i))
    BY <2>2, <1>6
  <2>. QED  BY <2>1, <2>2
<1>8. \A p \in Provided : Leader(k, p) = p
  BY InheritAssumption DEF Leader, Required, Provided
<1>. QED  BY <1>3, <1>4, <1>5, <1>6, <1>7, <1>8

\* A source with one connection more.
Plus(k, c) == [flag |-> k.flag, params |-> k.params, kind |-> k.kind, links |-> k.links \cup {c}]

LEMMA PlusSource ==
  ASSUME NEW k \in Sources, NEW c \in Links, \A d \in k.links : From(d) # From(c)
  PROVE  /\ Plus(k, c) \in Sources
         /\ ~Follows(k, From(c)) /\ (Follows(Plus(k, c), From(c)) <=> k.flag[From(c)])
         /\ LinkOf(Plus(k, c), From(c)) = c
         /\ \A q \in Required \ {From(c)} :
              /\ Follows(Plus(k, c), q) <=> Follows(k, q)
              /\ Follows(k, q) => LinkOf(Plus(k, c), q) = LinkOf(k, q)
         /\ \A i \in session.ifaces \ {From(c)} : Leader(Plus(k, c), i) = Leader(k, i)
<1>. DEFINE n == Plus(k, c)
<1>1. n.links = k.links \cup {c} /\ n.flag = k.flag
  BY DEF Plus
<1>2. n \in Sources
  BY DEF Plus, Sources, Owns, OnePerRI
<1>. HIDE DEF n
<1>3. ~Follows(k, From(c))
  BY DEF Follows
<1>4. /\ LinkOf(n, From(c)) = c
      /\ Follows(n, From(c)) <=> k.flag[From(c)]
  BY <1>1, <1>2, Leaders
<1>5. \A q \in Required \ {From(c)} : Follows(n, q) <=> Follows(k, q)
  BY <1>1 DEF Follows
<1>6. \A q \in Required \ {From(c)} : Follows(k, q) => LinkOf(n, q) = LinkOf(k, q)
  <2>1. \A q \in Required : Follows(k, q) => LinkOf(k, q) \in n.links /\ From(LinkOf(k, q)) = q
    BY <1>1, Leaders
  <2>2. \A d \in n.links : LinkOf(n, From(d)) = d
    BY <1>2, Leaders
  <2>. QED  BY <2>1, <2>2
<1>7. \A i \in session.ifaces \ {From(c)} : Leader(n, i) = Leader(k, i)
  BY <1>5, <1>6 DEF Leader
<1>. QED  BY <1>2, <1>3, <1>4, <1>5, <1>6, <1>7 DEF n

\* What an additional connection changes in what is shown.
Taking(a, b, c) ==
  LET r == From(c)
      p == To(c)
  IN  /\ b.params   = [a.params EXCEPT ![r] = a.params[p]]
      /\ b.kind     = [a.kind EXCEPT ![r] = a.kind[p]]
      /\ b.protos   = [a.protos EXCEPT ![r] = {p}]
      /\ b.hears    = [a.hears EXCEPT ![r] = {p}]
      /\ b.original = [a.original EXCEPT ![r] = [data |-> Data(a, r), flag |-> TRUE]]
      /\ b.listens  = [a.listens EXCEPT ![r] = <<c>>]

ShownDomains(a) ==
  /\ a.flag \in [Required -> BOOLEAN] /\ DOMAIN a.protos = Required /\ DOMAIN a.original = Required
  /\ DOMAIN a.hears = Required /\ DOMAIN a.listens = Required
  /\ DOMAIN a.params = session.ifaces /\ DOMAIN a.kind = session.ifaces
  /\ a = [flag |-> a.flag, params |-> a.params, kind |-> a.kind, protos |-> a.protos,
          original |-> a.original, hears |-> a.hears, links |-> a.links, listens |-> a.listens]

Apart(a, r) == a.protos[r] = {} /\ a.hears[r] = {} /\ a.original[r] = Unset /\ a.listens[r] = << >>

LEMMA ShownShape ==
  ASSUME NEW k \in Sources
  PROVE  ShownDomains(Shown(k))
  BY DEF Shown, ShownDomains, ShownParams, ShownKind, ShownProtos, ShownAside, ShownListens,
         Sources, Owns

LEMMA ShownPlus ==
  ASSUME NEW k \in Sources, NEW c \in Links, \A d \in k.links : From(d) # From(c)
  PROVE  LET a == Shown(k)
             b == Shown(Plus(k, c))
         IN  /\ Apart(a, From(c))
             /\ a.flag = k.flag /\ a.links = k.links /\ b.flag = k.flag /\ b.links = k.links \cup {c}
             /\ k.flag[From(c)] => Taking(a, b, c)
             /\ ~k.flag[From(c)] => b = [a EXCEPT !.links = @ \cup {c}]
<1>. DEFINE n == Plus(k, c)
            a == Shown(k)
            b == Shown(n)
            r == From(c)
            p == To(c)
<1>0. /\ r \in Required /\ p \in Provided /\ r \in session.ifaces /\ p \in session.ifaces
      /\ p \notin Required /\ r # p
  BY LinkEnds
<1>1. /\ n \in Sources
      /\ ~Follows(k, r) /\ (Follows(n, r) <=> k.flag[r])
      /\ LinkOf(n, r) = c
      /\ \A q \in Required \ {r} : /\ Follows(n, q) <=> Follows(k, q)
                                   /\ Follows(k, q) => LinkOf(n, q) = LinkOf(k, q)
      /\ \A i \in session.ifaces \ {r} : Leader(n, i) = Leader(k, i)
  BY PlusSource
<1>2. /\ n.flag = k.flag /\ n.params = k.params /\ n.kind = k.kind /\ n.links = k.links \cup {c}
  BY DEF Plus
<1>3. Leader(k, r) = r /\ Leader(k, p) = p /\ (Follows(n, r) => Leader(n, r) = p)
      /\ (~Follows(n, r) => Leader(n, r) = r)
  BY <1>0, <1>1, Leaders DEF Leader
<1>4. /\ a.flag = k.flag /\ a.links = k.links /\ a.params = ShownParams(k) /\ a.kind = ShownKind(k)
      /\ a.protos = ShownProtos(k) /\ a.hears = ShownProtos(k) /\ a.original = ShownAside(k)
      /\ a.listens = ShownListens(k)
      /\ b.flag = n.flag /\ b.links = n.links /\ b.params = ShownParams(n) /\ b.kind = ShownKind(n)
      /\ b.protos = ShownProtos(n) /\ b.hears = ShownProtos(n) /\ b.original = ShownAside(n)
      /\ b.listens = ShownListens(n)
  BY DEF Shown
<1>5. ShownDomains(a) /\ ShownDomains(b)
  BY <1>1, ShownShape
<1>. HIDE DEF n, a, b, r, p
<1>6. Apart(a, r)
  BY <1>0, <1>1, <1>4 DEF Apart, ShownProtos, ShownAside, ShownListens
<1>7. ASSUME k.flag[r]  PROVE Taking(a, b, c)
  <2>1. Follows(n, r) /\ Leader(n, r) = p
    BY <1>1, <1>3, <1>7
  <2>2. b.params = [a.params EXCEPT ![r] = a.params[p]]
    BY <1>0, <1>1, <1>2, <1>3, <1>4, <2>1 DEF ShownParams
  <2>3. b.kind = [a.kind EXCEPT ![r] = a.kind[p]]
    BY <1>0, <1>1, <1>2, <1>3, <1>4, <2>1 DEF ShownKind
  <2>4. b.protos = [a.protos EXCEPT ![r] = {p}]
    <3>1. \A q \in Required \ {r} : Leader(n, q) = Leader(k, q)
      BY <1>1 DEF Required
    <3>2. \A q \in Required \ {r} : b.protos[q] = a.protos[q]
      BY <1>1, <1>4, <3>1 DEF ShownProtos
    <3>3. b.protos[r] = {p}
      BY <1>0, <1>4, <2>1 DEF ShownProtos
    <3>4. b.protos = [q \in Required |-> b.protos[q]] /\ a.protos = [q \in Required |-> a.protos[q]]
      BY <1>4 DEF ShownProtos
    <3>. QED  BY <3>2, <3>3, <3>4
  <2>5. b.original = [a.original EXCEPT ![r] = [data |-> Data(a, r), flag |-> TRUE]]
    <3>1. Data(a, r) = <<k.params[r], k.kind[r]>>
      BY <1>0, <1>3, <1>4 DEF Data, ShownParams, ShownKind
    <3>2. \A q \in Required \ {r} : b.original[q] = a.original[q]
      BY <1>1, <1>2, <1>4 DEF ShownAside
    <3>3. b.original[r] = [data |-> Data(a, r), flag |-> TRUE]
      BY <1>0, <1>2, <1>4, <2>1, <3>1 DEF ShownAside
    <3>4. b.original = [q \in Required |-> b.original[q]] /\ a.original = [q \in Required |-> a.original[q]]
      BY <1>4 DEF ShownAside
    <3>. HIDE DEF p
    <3>. DEFINE z == [data |-> Data(a, r), flag |-> TRUE]
    <3>5. b.original[r] = z
      BY <3>3
    <3>. HIDE DEF z
    <3>6. b.original = [a.original EXCEPT ![r] = z]
      BY <3>2, <3>4, <3>5
    <3>. QED  BY <3>6 DEF z
  <2>6. b.listens = [a.listens EXCEPT ![r] = <<c>>]
    BY <1>0, <1>1, <1>4, <2>1 DEF ShownListens, r
  <2>. QED  BY <1>4, <2>2, <2>3, <2>4, <2>5, <2>6 DEF Taking, r, p
<1>8. ASSUME ~k.flag[r]  PROVE b = [a EXCEPT !.links = @ \cup {c}]
  <2>1. ~Follows(n, r) /\ Leader(n, r) = Leader(k, r)
    BY <1>1, <1>3, <1>8
  <2>2. /\ \A i \in session.ifaces : Leader(n, i) = Leader(k, i)
        /\ \A q \in Required : /\ Follows(n, q) <=> Follows(k, q)
                               /\ Follows(k, q) => LinkOf(n, q) = LinkOf(k, q)
                               /\ q \in session.ifaces
    BY <1>1, <2>1 DEF Required
  <2>3. ShownParams(n) = ShownParams(k) /\ ShownKind(n) = ShownKind(k)
    BY <1>2, <2>2 DEF ShownParams, ShownKind
  <2>4. ShownProtos(n) = ShownProtos(k) /\ ShownListens(n) = ShownListens(k)
    BY <2>2 DEF ShownProtos, ShownListens
  <2>5. ShownAside(n) = ShownAside(k)
    BY <1>2, <2>2 DEF ShownAside
  <2>. QED  BY <1>2, <1>4, <1>5, <2>3, <2>4, <2>5 DEF ShownDomains
<1>. QED  BY <1>2, <1>4, <1>6, <1>7, <1>8 DEF n, a, b, r

\* An RI that wants to inherit is told to.
InheritedFrom(a, n, c) ==
  LET r == From(c)
      p == To(c)
  IN  /\ ShownDomains(n) /\ n.flag = a.flag /\ n.links = a.links
      /\ n.params   = [a.params EXCEPT ![r] = a.params[p]]
      /\ n.kind     = [a.kind EXCEPT ![r] = a.kind[p]]
      /\ n.protos   = [a.protos EXCEPT ![r] = @ \cup {p}]
      /\ n.hears    = [a.hears EXCEPT ![r] = @ \cup {p}]
      /\ n.original = [a.original EXCEPT ![r] =
                         IF @ = Unset THEN [data |-> Data(a, r), flag |-> a.flag[r]] ELSE @]
      /\ n.listens  = [a.listens EXCEPT ![r] = IF c \in Range(@) THEN @ ELSE Append(@, c)]

LEMMA InheritIs ==
  ASSUME NEW a, ShownDomains(a), NEW c \in Links, a.flag[From(c)]
  PROVE  InheritedFrom(a, Inherit(a, c), c)
<1>. DEFINE r == From(c)
            p == To(c)
            o == IF a.original[r] = Unset THEN [data |-> Data(a, r), flag |-> a.flag[r]]
                 ELSE a.original[r]
            l == IF c \in Range(a.listens[r]) THEN a.listens[r] ELSE Append(a.listens[r], c)
            e == [a EXCEPT !.protos[r] = @ \cup {p}]
            n == Inherit(a, c)
<1>0. /\ r \in Required /\ p \in session.ifaces /\ r \in session.ifaces /\ p # r
  BY LinkEnds
<1>1. n = [CloneInternals(e, r, p) EXCEPT !.listens[r] = IF c \in Range(@) THEN @ ELSE Append(@, c)]
  BY DEF Inherit, Concerned, SetPrototype
<1>2. /\ e.flag = a.flag /\ e.params = a.params /\ e.kind = a.kind /\ e.original = a.original
      /\ e.hears = a.hears /\ e.links = a.links /\ e.listens = a.listens
      /\ e.protos = [a.protos EXCEPT ![r] = @ \cup {p}] /\ Data(e, r) = Data(a, r)
      /\ ShownDomains(e)
  BY DEF ShownDomains, Data
<1>. HIDE DEF r, p, e
<1>. DEFINE d == CloneInternals(e, r, p)
<1>3. /\ d.flag = a.flag /\ d.links = a.links /\ d.protos = e.protos /\ d.listens = a.listens
      /\ d.original = [a.original EXCEPT ![r] = o]
      /\ d.kind = [a.kind EXCEPT ![r] = a.kind[p]]
      /\ d.params = [a.params EXCEPT ![r] = a.params[p]]
      /\ d.hears = [a.hears EXCEPT ![r] = @ \cup {p}]
      /\ ShownDomains(d)
  <2>. DEFINE x == [data |-> Data(a, r), flag |-> a.flag[r]]
  <2>1. CloneInternals(e, r, p) =
          [e EXCEPT !.original[r] = o, !.kind[r] = e.kind[p], !.params[r] = e.params[p],
                    !.hears[r] = @ \cup {p}]
    BY <1>2 DEF CloneInternals, ShownDomains
  <2>. HIDE DEF x, o
  <2>2. d = [e EXCEPT !.original = [a.original EXCEPT ![r] = o], !.kind = [a.kind EXCEPT ![r] = a.kind[p]],
                      !.params = [a.params EXCEPT ![r] = a.params[p]],
                      !.hears = [a.hears EXCEPT ![r] = @ \cup {p}]]
    BY <1>2, <2>1
  <2>3. /\ d = [flag |-> a.flag, params |-> [a.params EXCEPT ![r] = a.params[p]],
                kind |-> [a.kind EXCEPT ![r] = a.kind[p]], protos |-> e.protos,
                original |-> [a.original EXCEPT ![r] = o],
                hears |-> [a.hears EXCEPT ![r] = @ \cup {p}], links |-> a.links,
                listens |-> a.listens]
    BY <1>2, <2>2 DEF ShownDomains
  <2>. HIDE DEF d
  <2>4. ShownDomains(d)
    BY <1>2, <2>3 DEF ShownDomains
  <2>. QED  BY <2>3, <2>4
<1>. HIDE DEF d
<1>4. n = [d EXCEPT !.listens[r] = l]
  BY <1>0, <1>1, <1>3 DEF d, ShownDomains
<1>5. /\ n.flag = a.flag /\ n.links = a.links /\ n.protos = e.protos
      /\ n.listens = [a.listens EXCEPT ![r] = l]
      /\ n.original = [a.original EXCEPT ![r] = o]
      /\ n.kind = [a.kind EXCEPT ![r] = a.kind[p]]
      /\ n.params = [a.params EXCEPT ![r] = a.params[p]]
      /\ n.hears = [a.hears EXCEPT ![r] = @ \cup {p}]
      /\ ShownDomains(n)
  <2>. HIDE DEF l, o, n
  <2>. QED  BY <1>3, <1>4 DEF ShownDomains
<1>. HIDE DEF n
<1>. QED  BY <1>2, <1>5, Zenon DEF InheritedFrom, n, r, p

LEMMA SameShown ==
  ASSUME NEW a, NEW b, ShownDomains(a), ShownDomains(b), a.flag = b.flag, a.params = b.params,
         a.kind = b.kind, a.protos = b.protos, a.original = b.original, a.hears = b.hears,
         a.links = b.links, a.listens = b.listens
  PROVE  a = b
  BY DEF ShownDomains

\* What an RI put aside is not what stands for nothing.
LEMMA SomethingAside ==
  ASSUME NEW q \in ParamLists, NEW d \in Kinds
  PROVE  [data |-> <<q, d>>, flag |-> TRUE] # Unset
<1>. DEFINE e == [data |-> <<q, d>>, flag |-> TRUE]
<1>1. e \in [data : ParamLists \X Kinds, flag : BOOLEAN]
  OBVIOUS
<1>2. Unset \notin [data : ParamLists \X Kinds, flag : BOOLEAN]
  BY InheritAssumption, Zenon DEF Kinds
<1>. HIDE DEF e
<1>3. e # Unset
  BY <1>1, <1>2
<1>. QED  BY <1>3 DEF e

LEMMA AsideIsNotUnset ==
  ASSUME NEW k \in Sources, NEW r \in Required
  PROVE  [data |-> <<ShownParams(k)[r], ShownKind(k)[r]>>, flag |-> TRUE] # Unset
<1>1. r \in session.ifaces /\ Leader(k, r) \in session.ifaces
  BY Leaders DEF Required
<1>2. ShownParams(k)[r] \in ParamLists /\ ShownKind(k)[r] \in Kinds
  BY <1>1 DEF ShownParams, ShownKind, Sources, Owns
<1>. QED  BY <1>2, SomethingAside

LEMMA LinksSet ==
  ASSUME NEW a, ShownDomains(a), NEW L
  PROVE  LET x == [a EXCEPT !.links = L]
         IN  /\ ShownDomains(x) /\ x.flag = a.flag /\ x.links = L /\ x.params = a.params
             /\ x.kind = a.kind /\ x.protos = a.protos /\ x.original = a.original
             /\ x.hears = a.hears /\ x.listens = a.listens
<1>. DEFINE x == [a EXCEPT !.links = L]
<1>1. x = [flag |-> a.flag, params |-> a.params, kind |-> a.kind, protos |-> a.protos,
           original |-> a.original, hears |-> a.hears, links |-> L, listens |-> a.listens]
  BY DEF ShownDomains
<1>. HIDE DEF x
<1>2. /\ x.flag = a.flag /\ x.links = L /\ x.params = a.params
      /\ x.kind = a.kind /\ x.protos = a.protos /\ x.original = a.original
      /\ x.hears = a.hears /\ x.listens = a.listens
  BY <1>1
<1>3. ShownDomains(x)
  BY <1>1 DEF ShownDomains
<1>. QED  BY <1>2, <1>3 DEF x

LEMMA NoneAppended ==
  ASSUME NEW c
  PROVE  /\ c \notin Range(<< >>) /\ Append(<< >>, c) = <<c>> /\ c \in Range(<<c>>)
         /\ RemoveAll(<<c>>, c) = << >>
<1>1. c \notin Range(<< >>) /\ Append(<< >>, c) = <<c>>
  BY DEF Range
<1>2. <<c>> \in Seq({c}) /\ Range(<<c>>) = {c}
  BY DEF Range
<1>3. RemoveAll(<<c>>, c) \in Seq({c}) /\ Range(RemoveAll(<<c>>, c)) = {}
  <2>. DEFINE t == <<c>>
  <2>1. t \in Seq({c}) /\ Range(t) = {c}
    BY <1>2
  <2>. HIDE DEF t
  <2>2. RemoveAll(t, c) \in Seq({c}) /\ Range(RemoveAll(t, c)) = Range(t) \ {c}
    BY <2>1, RemoveAllElements
  <2>. QED  BY <2>1, <2>2 DEF t
<1>. DEFINE s == RemoveAll(<<c>>, c)
<1>. HIDE DEF s
<1>4. Len(s) \in Nat /\ DOMAIN s = 1..Len(s) /\ DOMAIN s = {}
  BY <1>3 DEF Range, s
<1>5. s = << >>
  BY <1>3, <1>4 DEF s
<1>. QED  BY <1>1, <1>2, <1>5 DEF s

\* CmdConnectionItemCreate, and the undo of a removal, on a source of their own.
LEMMA LinkAdded ==
  ASSUME NEW k \in Sources, NEW c \in Links, \A d \in k.links : From(d) # From(c)
  PROVE  /\ AddLink(Shown(k), c) = Shown(Plus(k, c))
         /\ RestoreLink(Shown(k), c) = Shown(Plus(k, c))
<1>. DEFINE a == Shown(k)
            b == Shown(Plus(k, c))
            r == From(c)
            p == To(c)
            x == [a EXCEPT !.links = @ \cup {c}]
            y == Inherit(a, c)
            z == [y EXCEPT !.links = @ \cup {c}]
<1>0. /\ r \in Required /\ p \in Provided /\ r \in session.ifaces /\ p \in session.ifaces /\ p # r
  BY LinkEnds
<1>1. ShownDomains(a) /\ ShownDomains(b)
  BY PlusSource, ShownShape
<1>2. /\ Apart(a, r)
      /\ a.flag = k.flag /\ a.links = k.links /\ b.flag = k.flag /\ b.links = k.links \cup {c}
      /\ k.flag[r] => Taking(a, b, c)
      /\ ~k.flag[r] => b = x
  BY ShownPlus
<1>3. AddLink(a, c) = Inherit(x, c) /\ RestoreLink(a, c) = Inherit(z, c)
  BY DEF AddLink, RestoreLink
<1>4. [data |-> Data(a, r), flag |-> TRUE] # Unset
  <2>1. a.params = ShownParams(k) /\ a.kind = ShownKind(k)
    BY DEF Shown
  <2>. QED  BY <1>0, <2>1, AsideIsNotUnset DEF Data
<1>. HIDE DEF a, b
<1>5. /\ ShownDomains(x) /\ x.flag = a.flag /\ x.links = a.links \cup {c} /\ x.params = a.params
      /\ x.kind = a.kind /\ x.protos = a.protos /\ x.original = a.original /\ x.hears = a.hears
      /\ x.listens = a.listens
  BY <1>1, LinksSet
<1>. HIDE DEF x
<1>6. CASE ~k.flag[r]
  <2>1. ~Concerned(a, c) /\ ~Concerned(x, c)
    BY <1>2, <1>5, <1>6 DEF Concerned, Apart
  <2>2. y = a /\ Inherit(x, c) = x
    BY <2>1 DEF Inherit
  <2>3. z = x
    BY <2>2 DEF x
  <2>. HIDE DEF y, z
  <2>. QED  BY <1>2, <1>3, <1>6, <2>2, <2>3 DEF a, b
<1>7. CASE k.flag[r]
  <2>. DEFINE aside == [data |-> Data(a, r), flag |-> TRUE]
  <2>0. /\ b.params   = [a.params EXCEPT ![r] = a.params[p]]
        /\ b.kind     = [a.kind EXCEPT ![r] = a.kind[p]]
        /\ b.protos   = [a.protos EXCEPT ![r] = {p}]
        /\ b.hears    = [a.hears EXCEPT ![r] = {p}]
        /\ b.original = [a.original EXCEPT ![r] = aside]
        /\ b.listens  = [a.listens EXCEPT ![r] = <<c>>]
    BY <1>2, <1>7 DEF Taking
  <2>1. /\ c \notin Range(<< >>) /\ Append(<< >>, c) = <<c>> /\ c \in Range(<<c>>)
    BY NoneAppended
  <2>2. /\ a.flag[r] = TRUE /\ x.flag[r] /\ a.protos[r] = {} /\ a.hears[r] = {} /\ a.original[r] = Unset
        /\ a.listens[r] = << >>
    BY <1>0, <1>1, <1>2, <1>5, <1>7 DEF Apart, ShownDomains
  <2>3. ASSUME NEW e, NEW n, InheritedFrom(e, n, c), ShownDomains(e), e.flag = a.flag,
               e.params = a.params, e.kind = a.kind, e.protos = a.protos, e.original = a.original,
               e.hears = a.hears, e.listens = a.listens
        PROVE  /\ ShownDomains(n) /\ n.flag = a.flag /\ n.links = e.links
               /\ n.params = b.params /\ n.kind = b.kind /\ n.protos = b.protos
               /\ n.hears = b.hears /\ n.original = b.original /\ n.listens = b.listens
    <3>1. Data(e, r) = Data(a, r)
      BY <2>3 DEF Data
    <3>2. /\ ShownDomains(n) /\ n.flag = e.flag /\ n.links = e.links
          /\ n.params   = [e.params EXCEPT ![r] = e.params[p]]
          /\ n.kind     = [e.kind EXCEPT ![r] = e.kind[p]]
          /\ n.protos   = [e.protos EXCEPT ![r] = @ \cup {p}]
          /\ n.hears    = [e.hears EXCEPT ![r] = @ \cup {p}]
          /\ n.original = [e.original EXCEPT ![r] =
                             IF @ = Unset THEN [data |-> Data(e, r), flag |-> e.flag[r]] ELSE @]
          /\ n.listens  = [e.listens EXCEPT ![r] = IF c \in Range(@) THEN @ ELSE Append(@, c)]
      BY <2>3, Zenon DEF InheritedFrom
    <3>3. n.params = b.params /\ n.kind = b.kind /\ n.protos = b.protos /\ n.hears = b.hears
      BY <2>0, <2>2, <2>3, <3>2
    <3>4. n.original = b.original
      <4>1. e.original[r] = Unset /\ e.flag[r] = TRUE
        BY <2>2, <2>3
      <4>2. n.original = [e.original EXCEPT ![r] = [data |-> Data(e, r), flag |-> e.flag[r]]]
        BY <3>2, <4>1
      <4>3. [data |-> Data(e, r), flag |-> e.flag[r]] = aside
        BY <3>1, <4>1
      <4>. HIDE DEF aside
      <4>. QED  BY <2>0, <2>3, <4>2, <4>3
    <3>5. n.listens = b.listens
      BY <2>0, <2>1, <2>2, <2>3, <3>2
    <3>. QED  BY <2>3, <3>2, <3>3, <3>4, <3>5
  <2>4. AddLink(a, c) = b
    <3>. DEFINE n == Inherit(x, c)
    <3>1. InheritedFrom(x, n, c)
      BY <1>5, <2>2, InheritIs
    <3>. HIDE DEF n
    <3>2. /\ ShownDomains(n) /\ n.flag = a.flag /\ n.links = x.links
          /\ n.params = b.params /\ n.kind = b.kind /\ n.protos = b.protos
          /\ n.hears = b.hears /\ n.original = b.original /\ n.listens = b.listens
      BY <1>5, <2>3, <3>1
    <3>3. n = b
      BY <1>1, <1>2, <1>5, <3>2, SameShown
    <3>. QED  BY <1>3, <3>3 DEF n
  <2>5. RestoreLink(a, c) = b
    <3>1. InheritedFrom(a, y, c)
      BY <1>1, <2>2, InheritIs
    <3>2. /\ ShownDomains(y) /\ y.flag = a.flag /\ y.links = a.links
          /\ y.params = b.params /\ y.kind = b.kind /\ y.protos = b.protos
          /\ y.hears = b.hears /\ y.original = b.original /\ y.listens = b.listens
      <4>. HIDE DEF y
      <4>. QED  BY <1>1, <2>3, <3>1
    <3>3. z = b
      <4>. HIDE DEF y
      <4>1. /\ ShownDomains(z) /\ z.flag = y.flag /\ z.params = y.params /\ z.kind = y.kind
            /\ z.protos = y.protos /\ z.original = y.original /\ z.hears = y.hears
            /\ z.links = y.links \cup {c} /\ z.listens = y.listens
        BY <3>2, LinksSet
      <4>. HIDE DEF z
      <4>. QED  BY <1>1, <1>2, <3>2, <4>1, SameShown
    <3>. DEFINE n == Inherit(z, c)
    <3>4. b.flag[r]
      BY <1>2, <1>7
    <3>. HIDE DEF z
    <3>5. InheritedFrom(b, n, c)
      BY <1>1, <3>3, <3>4, InheritIs
    <3>. HIDE DEF n
    <3>6. /\ ShownDomains(n) /\ n.flag = b.flag /\ n.links = b.links
          /\ n.params   = [b.params EXCEPT ![r] = b.params[p]]
          /\ n.kind     = [b.kind EXCEPT ![r] = b.kind[p]]
          /\ n.protos   = [b.protos EXCEPT ![r] = @ \cup {p}]
          /\ n.hears    = [b.hears EXCEPT ![r] = @ \cup {p}]
          /\ n.original = [b.original EXCEPT ![r] =
                             IF @ = Unset THEN [data |-> Data(b, r), flag |-> b.flag[r]] ELSE @]
          /\ n.listens  = [b.listens EXCEPT ![r] = IF c \in Range(@) THEN @ ELSE Append(@, c)]
      BY <3>5, Zenon DEF InheritedFrom
    <3>7. /\ b.params[p] = a.params[p] /\ b.params[r] = a.params[p]
          /\ b.kind[p] = a.kind[p] /\ b.kind[r] = a.kind[p]
          /\ b.protos[r] = {p} /\ b.hears[r] = {p} /\ b.original[r] = aside /\ b.listens[r] = <<c>>
      BY <1>0, <1>1, <2>0 DEF ShownDomains
    <3>8. n.params = b.params /\ n.kind = b.kind /\ n.protos = b.protos /\ n.hears = b.hears
      <4>1. /\ b.params = [q \in session.ifaces |-> b.params[q]]
            /\ b.kind = [q \in session.ifaces |-> b.kind[q]]
            /\ b.protos = [q \in Required |-> b.protos[q]]
            /\ b.hears = [q \in Required |-> b.hears[q]]
        BY <1>1, <2>0 DEF ShownDomains
      <4>2. n.params = [b.params EXCEPT ![r] = b.params[r]] /\ n.kind = [b.kind EXCEPT ![r] = b.kind[r]]
        BY <3>6, <3>7
      <4>3. n.protos = [b.protos EXCEPT ![r] = b.protos[r]] /\ n.hears = [b.hears EXCEPT ![r] = b.hears[r]]
        BY <3>6, <3>7
      <4>4. n.params = b.params
        BY <4>1, <4>2
      <4>5. n.kind = b.kind
        BY <4>1, <4>2
      <4>6. n.protos = b.protos
        BY <4>1, <4>3
      <4>7. n.hears = b.hears
        BY <4>1, <4>3
      <4>. QED  BY <4>4, <4>5, <4>6, <4>7
    <3>9. n.original = b.original
      <4>1. b.original[r] # Unset
        BY <1>4, <3>7
      <4>2. n.original = [b.original EXCEPT ![r] = b.original[r]]
        BY <3>6, <4>1
      <4>. HIDE DEF aside
      <4>. QED  BY <2>0, <4>2
    <3>10. n.listens = b.listens
      BY <2>0, <2>1, <3>6, <3>7
    <3>11. n = b
      BY <1>1, <3>6, <3>8, <3>9, <3>10, SameShown
    <3>. QED  BY <1>3, <3>11 DEF n
  <2>. QED  BY <2>4, <2>5 DEF a, b
<1>. QED  BY <1>6, <1>7

\* CmdEntitiesRemove on a connection takes back all it brought about.
LEMMA LinkRemoved ==
  ASSUME NEW k \in Sources, NEW c \in Links, \A d \in k.links : From(d) # From(c)
  PROVE  RemoveLink(Shown(Plus(k, c)), c) = Shown(k)
<1>. DEFINE a == Shown(k)
            b == Shown(Plus(k, c))
            r == From(c)
            p == To(c)
            aside == [data |-> Data(a, r), flag |-> TRUE]
<1>0. /\ r \in Required /\ p \in Provided /\ r \in session.ifaces /\ p \in session.ifaces /\ p # r
  BY LinkEnds
<1>1. ShownDomains(a) /\ ShownDomains(b)
  BY PlusSource, ShownShape
<1>2. /\ Apart(a, r)
      /\ a.flag = k.flag /\ a.links = k.links /\ b.flag = k.flag /\ b.links = k.links \cup {c}
      /\ k.flag[r] => Taking(a, b, c)
      /\ ~k.flag[r] => b = [a EXCEPT !.links = @ \cup {c}]
  BY ShownPlus
<1>3. aside # Unset
  <2>1. a.params = ShownParams(k) /\ a.kind = ShownKind(k)
    BY DEF Shown
  <2>. QED  BY <1>0, <2>1, AsideIsNotUnset DEF Data
<1>4. (k.links \cup {c}) \ {c} = k.links
  OBVIOUS
<1>. HIDE DEF a, b
<1>5. CASE ~k.flag[r]
  <2>0. /\ b.flag = a.flag /\ b.params = a.params
        /\ b.kind = a.kind /\ b.protos = a.protos /\ b.original = a.original
        /\ b.hears = a.hears /\ b.listens = a.listens
    <3>. DEFINE L == a.links \cup {c}
    <3>1. b = [a EXCEPT !.links = L]
      BY <1>2, <1>5
    <3>. HIDE DEF L
    <3>. QED  BY <1>1, <3>1, LinksSet
  <2>1. b.protos = a.protos /\ b.flag = a.flag
    BY <2>0
  <2>2. NotInherit(b, c) = b
    BY <1>2, <1>5, <2>1 DEF NotInherit, Concerned, Apart
  <2>3. RemoveLink(b, c) = [b EXCEPT !.links = k.links]
    BY <1>2, <1>4, <2>2 DEF RemoveLink
  <2>. DEFINE x == [b EXCEPT !.links = k.links]
  <2>4. /\ ShownDomains(x) /\ x.flag = b.flag /\ x.links = k.links /\ x.params = b.params
        /\ x.kind = b.kind /\ x.protos = b.protos /\ x.original = b.original
        /\ x.hears = b.hears /\ x.listens = b.listens
    BY <1>1, LinksSet
  <2>5. /\ b.params = a.params
        /\ b.kind = a.kind /\ b.protos = a.protos /\ b.original = a.original
        /\ b.hears = a.hears /\ b.listens = a.listens
    BY <2>0
  <2>. HIDE DEF x
  <2>6. x = a
    BY <1>1, <1>2, <2>4, <2>5, SameShown
  <2>. QED  BY <2>3, <2>6 DEF x, a, b
<1>6. CASE k.flag[r]
  <2>1. /\ b.params   = [a.params EXCEPT ![r] = a.params[p]]
        /\ b.kind     = [a.kind EXCEPT ![r] = a.kind[p]]
        /\ b.protos   = [a.protos EXCEPT ![r] = {p}]
        /\ b.hears    = [a.hears EXCEPT ![r] = {p}]
        /\ b.original = [a.original EXCEPT ![r] = aside]
        /\ b.listens  = [a.listens EXCEPT ![r] = <<c>>]
    BY <1>2, <1>6 DEF Taking
  <2>2. /\ a.flag[r] = TRUE /\ a.protos[r] = {} /\ a.hears[r] = {} /\ a.original[r] = Unset
        /\ a.listens[r] = << >>
    BY <1>0, <1>1, <1>2, <1>6 DEF Apart, ShownDomains
  <2>3. aside.data[1] = a.params[r] /\ aside.data[2] = a.kind[r] /\ aside.flag = TRUE
    BY DEF Data
  <2>. HIDE DEF aside
  <2>4. /\ b.protos[r] = {p} /\ b.hears[r] = {p} /\ b.original[r] = aside /\ b.listens[r] = <<c>>
        /\ b.flag[r] = TRUE
    BY <1>0, <1>1, <1>2, <2>1, <2>2 DEF ShownDomains
  <2>. DEFINE x == [b EXCEPT !.listens[r] = RemoveAll(@, c)]
              y == [x EXCEPT !.protos[r] = @ \ {p}]
              z == [y EXCEPT !.hears[r] = @ \ {p}]
              u == [z EXCEPT !.params[r] = y.original[r].data[1], !.kind[r] = y.original[r].data[2],
                             !.flag[r] = y.original[r].flag, !.original[r] = Unset]
  <2>5. NotInherit(b, c) = UnsetPrototype(x, r, p)
    BY <2>4 DEF NotInherit, Concerned
  <2>6. /\ x.listens = [b.listens EXCEPT ![r] = << >>] /\ x.protos = b.protos /\ x.flag = b.flag
        /\ x = [flag |-> b.flag, params |-> b.params, kind |-> b.kind, protos |-> b.protos,
                original |-> b.original, hears |-> b.hears, links |-> b.links,
                listens |-> [b.listens EXCEPT ![r] = << >>]]
    <3>1. RemoveAll(b.listens[r], c) = << >>
      BY <2>4, NoneAppended
    <3>. QED  BY <1>0, <1>1, <3>1 DEF ShownDomains
  <2>. HIDE DEF x
  <2>7. y = [flag |-> b.flag, params |-> b.params, kind |-> b.kind,
             protos |-> [b.protos EXCEPT ![r] = {}],
             original |-> b.original, hears |-> b.hears, links |-> b.links,
             listens |-> [b.listens EXCEPT ![r] = << >>]]
    <3>1. b.protos[r] \ {p} = {}
      BY <2>4
    <3>2. y = [x EXCEPT !.protos = [b.protos EXCEPT ![r] = {}]]
      BY <2>6, <3>1
    <3>. HIDE DEF y
    <3>. QED  BY <2>6, <3>2
  <2>8. UnsetPrototype(x, r, p) = RestoreInternals(y, r, p)
    <3>1. y.protos[r] = {}
      <4>. HIDE DEF y
      <4>. QED  BY <1>0, <1>1, <2>1, <2>7 DEF ShownDomains
    <3>2. UnsetPrototype(x, r, p) = IF y.protos[r] = {} \/ ~y.flag[r] THEN RestoreInternals(y, r, p) ELSE y
      BY Zenon DEF UnsetPrototype
    <3>. HIDE DEF y
    <3>. QED  BY <3>1, <3>2
  <2>9. RestoreInternals(y, r, p) = u
    <3>1. RestoreInternals(y, r, p) = IF y.original[r] = Unset THEN z ELSE u
      BY Zenon DEF RestoreInternals
    <3>2. y.original[r] = aside
      <4>. HIDE DEF y
      <4>. QED  BY <2>4, <2>7
    <3>. HIDE DEF y, z, u
    <3>. QED  BY <1>3, <3>1, <3>2 DEF aside
  <2>. HIDE DEF y
  <2>10. z = [flag |-> b.flag, params |-> b.params, kind |-> b.kind,
              protos |-> [b.protos EXCEPT ![r] = {}],
              original |-> b.original, hears |-> [b.hears EXCEPT ![r] = {}], links |-> b.links,
              listens |-> [b.listens EXCEPT ![r] = << >>]]
    <3>1. b.hears[r] \ {p} = {}
      BY <2>4
    <3>2. z = [y EXCEPT !.hears = [b.hears EXCEPT ![r] = {}]]
      BY <2>7, <3>1
    <3>. HIDE DEF z
    <3>. QED  BY <2>7, <3>2
  <2>. HIDE DEF z
  <2>11. u = [flag |-> [b.flag EXCEPT ![r] = TRUE], params |-> [b.params EXCEPT ![r] = a.params[r]],
              kind |-> [b.kind EXCEPT ![r] = a.kind[r]],
              protos |-> [b.protos EXCEPT ![r] = {}], original |-> [b.original EXCEPT ![r] = Unset],
              hears |-> [b.hears EXCEPT ![r] = {}], links |-> b.links,
              listens |-> [b.listens EXCEPT ![r] = << >>]]
    <3>1. y.original[r] = aside
      BY <2>4, <2>7
    <3>2. u = [z EXCEPT !.params = [b.params EXCEPT ![r] = a.params[r]],
                        !.kind = [b.kind EXCEPT ![r] = a.kind[r]],
                        !.flag = [b.flag EXCEPT ![r] = TRUE],
                        !.original = [b.original EXCEPT ![r] = Unset]]
      BY <2>3, <2>10, <3>1
    <3>. HIDE DEF u
    <3>. QED  BY <2>10, <3>2
  <2>12. RemoveLink(b, c) = [u EXCEPT !.links = k.links]
    <3>. HIDE DEF u
    <3>1. u.links \ {c} = k.links
      BY <1>2, <1>4, <2>11
    <3>. QED  BY <2>5, <2>8, <2>9, <3>1 DEF RemoveLink
  <2>. HIDE DEF u
  <2>14. /\ a.params = [q \in session.ifaces |-> a.params[q]] /\ a.kind = [q \in session.ifaces |-> a.kind[q]]
         /\ a.protos = [q \in Required |-> a.protos[q]] /\ a.original = [q \in Required |-> a.original[q]]
         /\ a.hears = [q \in Required |-> a.hears[q]] /\ a.listens = [q \in Required |-> a.listens[q]]
    BY DEF a, Shown, ShownParams, ShownKind, ShownProtos, ShownAside, ShownListens
  <2>13. /\ [b.flag EXCEPT ![r] = TRUE] = a.flag
         /\ [b.params EXCEPT ![r] = a.params[r]] = a.params
         /\ [b.kind EXCEPT ![r] = a.kind[r]] = a.kind
         /\ [b.protos EXCEPT ![r] = {}] = a.protos
    <3>1. /\ a.flag = [q \in Required |-> a.flag[q]]
          /\ a.params = [q \in session.ifaces |-> a.params[q]]
          /\ a.kind = [q \in session.ifaces |-> a.kind[q]]
          /\ a.protos = [q \in Required |-> a.protos[q]]
      BY <1>1, <2>14 DEF ShownDomains
    <3>2. [b.flag EXCEPT ![r] = TRUE] = a.flag
      BY <1>2, <2>2, <3>1
    <3>3. [b.params EXCEPT ![r] = a.params[r]] = a.params
      BY <2>1, <3>1
    <3>4. [b.kind EXCEPT ![r] = a.kind[r]] = a.kind
      BY <2>1, <3>1
    <3>5. [b.protos EXCEPT ![r] = {}] = a.protos
      BY <2>1, <2>2, <3>1
    <3>. QED  BY <3>2, <3>3, <3>4, <3>5
  <2>15. /\ [b.original EXCEPT ![r] = Unset] = a.original
         /\ [b.hears EXCEPT ![r] = {}] = a.hears
         /\ [b.listens EXCEPT ![r] = << >>] = a.listens
    <3>1. /\ a.original = [q \in Required |-> a.original[q]]
          /\ a.hears = [q \in Required |-> a.hears[q]]
          /\ a.listens = [q \in Required |-> a.listens[q]]
      BY <1>1, <2>14 DEF ShownDomains
    <3>2. [b.original EXCEPT ![r] = Unset] = a.original
      BY <2>1, <2>2, <3>1
    <3>3. [b.hears EXCEPT ![r] = {}] = a.hears
      BY <2>1, <2>2, <3>1
    <3>4. [b.listens EXCEPT ![r] = << >>] = a.listens
      BY <2>1, <2>2, <3>1
    <3>. QED  BY <3>2, <3>3, <3>4
  <2>16. u = [flag |-> a.flag, params |-> a.params, kind |-> a.kind, protos |-> a.protos,
              original |-> a.original, hears |-> a.hears, links |-> b.links, listens |-> a.listens]
    BY <2>11, <2>13, <2>15
  <2>17. [u EXCEPT !.links = k.links] = a
    BY <1>1, <1>2, <2>16 DEF ShownDomains
  <2>. QED  BY <2>12, <2>17 DEF a, b
<1>. QED  BY <1>5, <1>6

\* Two sequences that start alike and go on alike end alike.
LEMMA EndAlike ==
  ASSUME NEW N \in Nat, NEW f, NEW v, f[0] = v[0], \A j \in 1..N : f[j - 1] = v[j - 1] => f[j] = v[j]
  PROVE  f[N] = v[N]
<1>. DEFINE S == [j \in 0..N |-> {v[j]}]
<1>1. \A j \in 0..N : S[j] = {v[j]}
  OBVIOUS
<1>2. \A j \in 1..N : j \in 0..N /\ j - 1 \in 0..N
  OBVIOUS
<1>. HIDE DEF S
<1>3. \A j \in 0..N : f[j] \in S[j]
  <2>1. f[0] \in S[0]
    BY <1>1
  <2>2. \A j \in 1..N : f[j - 1] \in S[j - 1] => f[j] \in S[j]
    BY <1>1, <1>2
  <2>. QED  BY <2>1, <2>2, Carried
<1>. QED  BY <1>1, <1>3

\* A source with some of its connections taken out.
Without(k, D) == [flag |-> k.flag, params |-> k.params, kind |-> k.kind, links |-> k.links \ D]

LEMMA WithoutOneMore ==
  ASSUME NEW k \in Sources, NEW D, NEW c \in k.links, c \notin D
  PROVE  /\ Without(k, D \cup {c}) \in Sources /\ c \in Links
         /\ \A d \in Without(k, D \cup {c}).links : From(d) # From(c)
         /\ Without(k, D) = Plus(Without(k, D \cup {c}), c)
<1>1. Without(k, D \cup {c}) \in Sources /\ c \in Links
  BY DEF Without, Sources, Owns, OnePerRI
<1>2. \A d \in k.links \ (D \cup {c}) : From(d) # From(c)
  BY DEF Sources, OnePerRI
<1>3. (k.links \ (D \cup {c})) \cup {c} = k.links \ D
  OBVIOUS
<1>. QED  BY <1>1, <1>2, <1>3 DEF Without, Plus

LEMMA WithoutNone ==
  ASSUME NEW k \in Sources
  PROVE  Without(k, {}) = k
<1>1. k = [flag |-> k.flag, params |-> k.params, kind |-> k.kind, links |-> k.links]
  BY DEF Sources, Owns
<1>2. k.links \ {} = k.links
  OBVIOUS
<1>. HIDE DEF Sources
<1>. QED  BY <1>1, <1>2, Zenon DEF Without

\* The first n connections of C.
FirstOf(C, n) == {C[j] : j \in 1..n}

LEMMA FirstOfOneMore ==
  ASSUME NEW S, NEW C \in Seq(S), IsInjective(C), NEW n \in 1..Len(C)
  PROVE  /\ FirstOf(C, n) = FirstOf(C, n - 1) \cup {C[n]} /\ C[n] \notin FirstOf(C, n - 1)
         /\ C[n] \in S /\ FirstOf(C, 0) = {} /\ FirstOf(C, Len(C)) = Range(C)
<1>1. Len(C) \in Nat /\ DOMAIN C = 1..Len(C)
  BY LenProperties
<1>2. 1..n = 1..(n - 1) \cup {n} /\ n \notin 1..(n - 1)
  BY <1>1
<1>3. C[n] \notin FirstOf(C, n - 1)
  <2>. SUFFICES ASSUME NEW j \in 1..(n - 1), C[j] = C[n]  PROVE FALSE
    BY DEF FirstOf
  <2>1. j \in DOMAIN C /\ n \in DOMAIN C /\ j # n
    BY <1>1
  <2>. QED  BY <2>1 DEF IsInjective
<1>4. FirstOf(C, n) = FirstOf(C, n - 1) \cup {C[n]}
  BY <1>2 DEF FirstOf
<1>5. FirstOf(C, 0) = {} /\ FirstOf(C, Len(C)) = Range(C)
  BY <1>1 DEF FirstOf, Range
<1>. QED  BY <1>3, <1>4, <1>5, ElementOfSeq

\* CmdEntitiesRemove on several connections.
LEMMA LinksRemoved ==
  ASSUME NEW k \in Sources, NEW C \in Seq(k.links), IsInjective(C)
  PROVE  /\ RemoveLinks(Shown(k), C) = Shown(Without(k, Range(C)))
         /\ Without(k, Range(C)) \in Sources
<1>. DEFINE N == Len(C)
            m == Shown(k)
            v == [j \in 0..N |-> Shown(Without(k, FirstOf(C, j)))]
            Rec(f) == f = [j \in 0..N |-> IF j = 0 THEN m ELSE RemoveLink(f[j - 1], C[j])]
            after == CHOOSE f : Rec(f)
<1>1. N \in Nat /\ \A j \in 1..N : j \in 0..N /\ j - 1 \in 0..N /\ j # 0
  OBVIOUS
<1>2. RemoveLinks(m, C) = after[N]
  BY DEF RemoveLinks
<1>3. v[0] = m /\ N \in 0..N
  <2>1. FirstOf(C, 0) = {}
    BY DEF FirstOf
  <2>2. v[0] = Shown(Without(k, FirstOf(C, 0)))
    BY <1>1
  <2>. HIDE DEF v
  <2>3. Without(k, FirstOf(C, 0)) = k
    BY <2>1, WithoutNone
  <2>4. v[0] = m
    BY <2>2, <2>3, Zenon
  <2>. QED  BY <1>1, <2>4
<1>4. \A j \in 1..N : RemoveLink(v[j - 1], C[j]) = v[j]
  <2>. TAKE j \in 1..N
  <2>1. /\ FirstOf(C, j) = FirstOf(C, j - 1) \cup {C[j]} /\ C[j] \notin FirstOf(C, j - 1)
        /\ C[j] \in k.links
    BY FirstOfOneMore
  <2>. DEFINE w == Without(k, FirstOf(C, j))
  <2>2. /\ w \in Sources /\ C[j] \in Links /\ \A d \in w.links : From(d) # From(C[j])
        /\ Without(k, FirstOf(C, j - 1)) = Plus(w, C[j])
    <3>. DEFINE D == FirstOf(C, j - 1)
                c == C[j]
    <3>1. c \in k.links /\ c \notin D /\ w = Without(k, D \cup {c})
      BY <2>1
    <3>. HIDE DEF D, c, w
    <3>2. /\ w \in Sources /\ c \in Links /\ \A d \in w.links : From(d) # From(c)
          /\ Without(k, D) = Plus(w, c)
      BY <3>1, WithoutOneMore
    <3>. QED  BY <3>2 DEF D, c
  <2>3. RemoveLink(Shown(Plus(w, C[j])), C[j]) = Shown(w)
    <3>. HIDE DEF w
    <3>. QED  BY <2>2, LinkRemoved
  <2>4. v[j] = Shown(w) /\ v[j - 1] = Shown(Without(k, FirstOf(C, j - 1)))
    BY <1>1
  <2>. HIDE DEF v, w
  <2>. QED  BY <2>2, <2>3, <2>4
<1>. HIDE DEF N, m
<1>5. Rec(v)
  <2>1. v = [j \in 0..N |-> v[j]]
    OBVIOUS
  <2>. HIDE DEF v
  <2>2. \A j \in 0..N : j # 0 => j \in 1..N
    BY <1>1
  <2>3. \A j \in 0..N : v[j] = IF j = 0 THEN m ELSE RemoveLink(v[j - 1], C[j])
    BY <1>3, <1>4, <2>2
  <2>. QED  BY <2>1, <2>3
<1>. HIDE DEF v
<1>6. Rec(after)
  BY <1>5, Zenon
<1>. HIDE DEF after
<1>7. after[0] = m
  BY <1>1, <1>6
<1>8. \A j \in 1..N : after[j] = RemoveLink(after[j - 1], C[j])
  BY <1>1, <1>6, Zenon
<1>9. after[N] = v[N]
  <2>1. after[0] = v[0]
    BY <1>3, <1>7
  <2>2. \A j \in 1..N : after[j - 1] = v[j - 1] => after[j] = v[j]
    BY <1>4, <1>8
  <2>. QED  BY <1>1, <2>1, <2>2, EndAlike
<1>10. FirstOf(C, N) = Range(C)
  BY LenProperties DEF N, FirstOf, Range
<1>11. Without(k, Range(C)) \in Sources
  BY DEF Without, Sources, Owns, OnePerRI
<1>12. v[N] = Shown(Without(k, Range(C)))
  BY <1>3, <1>10 DEF v
<1>. QED  BY <1>2, <1>9, <1>11, <1>12 DEF m

\* Its undo, in the opposite order.
LEMMA LinksRestored ==
  ASSUME NEW k \in Sources, NEW C \in Seq(k.links), IsInjective(C)
  PROVE  RestoreLinks(Shown(Without(k, Range(C))), C) = Shown(k)
<1>. DEFINE N == Len(C)
            m == Shown(Without(k, Range(C)))
            v == [j \in 0..N |-> Shown(Without(k, FirstOf(C, N - j)))]
            Rec(f) == f = [j \in 0..N |-> IF j = 0 THEN m ELSE RestoreLink(f[j - 1], C[N - j + 1])]
            after == CHOOSE f : Rec(f)
<1>1. N \in Nat /\ \A j \in 1..N : j \in 0..N /\ j - 1 \in 0..N /\ j # 0
  OBVIOUS
<1>2. RestoreLinks(m, C) = after[N]
  BY DEF RestoreLinks
<1>3. v[0] = m /\ N \in 0..N /\ N - N = 0 /\ N - 0 = N
  <2>1. FirstOf(C, N) = Range(C)
    BY LenProperties DEF FirstOf, Range
  <2>. QED  BY <1>1, <2>1
<1>4. \A j \in 1..N : RestoreLink(v[j - 1], C[N - j + 1]) = v[j]
  <2>. TAKE j \in 1..N
  <2>. DEFINE i == N - j + 1
  <2>0. i \in 1..N /\ i - 1 = N - j /\ i = N - (j - 1)
    OBVIOUS
  <2>1. /\ FirstOf(C, i) = FirstOf(C, i - 1) \cup {C[i]} /\ C[i] \notin FirstOf(C, i - 1)
        /\ C[i] \in k.links
    <3>. HIDE DEF i
    <3>. QED  BY <2>0, FirstOfOneMore
  <2>. DEFINE w == Without(k, FirstOf(C, i))
  <2>4. v[j] = Shown(Without(k, FirstOf(C, i - 1))) /\ v[j - 1] = Shown(w)
    BY <1>1, <2>0
  <2>. HIDE DEF i
  <2>2. /\ w \in Sources /\ C[i] \in Links /\ \A d \in w.links : From(d) # From(C[i])
        /\ Without(k, FirstOf(C, i - 1)) = Plus(w, C[i])
    <3>. DEFINE D == FirstOf(C, i - 1)
                c == C[i]
    <3>1. c \in k.links /\ c \notin D /\ w = Without(k, D \cup {c})
      BY <2>1
    <3>. HIDE DEF D, c, w
    <3>2. /\ w \in Sources /\ c \in Links /\ \A d \in w.links : From(d) # From(c)
          /\ Without(k, D) = Plus(w, c)
      BY <3>1, WithoutOneMore
    <3>. QED  BY <3>2 DEF D, c
  <2>3. RestoreLink(Shown(w), C[i]) = Shown(Plus(w, C[i]))
    <3>. HIDE DEF w
    <3>. QED  BY <2>2, LinkAdded
  <2>. HIDE DEF v, w
  <2>5. RestoreLink(v[j - 1], C[i]) = v[j]
    BY <2>2, <2>3, <2>4
  <2>. QED  BY <2>5 DEF i
<1>. HIDE DEF N, m
<1>5. Rec(v)
  <2>1. v = [j \in 0..N |-> v[j]]
    OBVIOUS
  <2>. HIDE DEF v
  <2>2. \A j \in 0..N : j # 0 => j \in 1..N
    BY <1>1
  <2>3. \A j \in 0..N : v[j] = IF j = 0 THEN m ELSE RestoreLink(v[j - 1], C[N - j + 1])
    BY <1>3, <1>4, <2>2
  <2>. QED  BY <2>1, <2>3
<1>12. v[N] = Shown(k)
  <2>1. FirstOf(C, 0) = {}
    BY DEF FirstOf
  <2>2. v[N] = Shown(Without(k, FirstOf(C, 0)))
    BY <1>3
  <2>. HIDE DEF v
  <2>. QED  BY <2>1, <2>2, WithoutNone
<1>. HIDE DEF v
<1>6. Rec(after)
  BY <1>5, Zenon
<1>. HIDE DEF after
<1>7. after[0] = m
  BY <1>1, <1>6
<1>8. \A j \in 1..N : after[j] = RestoreLink(after[j - 1], C[N - j + 1])
  BY <1>1, <1>6, Zenon
<1>9. after[N] = v[N]
  <2>1. after[0] = v[0]
    BY <1>3, <1>7
  <2>2. \A j \in 1..N : after[j - 1] = v[j - 1] => after[j] = v[j]
    BY <1>4, <1>8
  <2>. QED  BY <1>1, <2>1, <2>2, EndAlike
<1>. QED  BY <1>2, <1>9, <1>12 DEF m

\* A change of the data an interface has of its own.
WithParams(k, i, q) ==
  [flag |-> k.flag, params |-> [k.params EXCEPT ![i] = q], kind |-> k.kind, links |-> k.links]
WithKind(k, i, q) ==
  [flag |-> k.flag, params |-> k.params, kind |-> [k.kind EXCEPT ![i] = q], links |-> k.links]
WithFlag(k, r, on) ==
  [flag |-> [k.flag EXCEPT ![r] = on], params |-> k.params, kind |-> k.kind, links |-> k.links]

OnItsOwn(k, i) == i \notin Required \/ ~Follows(k, i)

LEMMA SameLeaders ==
  ASSUME NEW k, NEW n, n.flag = k.flag, n.links = k.links
  PROVE  /\ \A r : Follows(n, r) = Follows(k, r) /\ LinkOf(n, r) = LinkOf(k, r)
         /\ \A i : Leader(n, i) = Leader(k, i)
         /\ ShownProtos(n) = ShownProtos(k) /\ ShownListens(n) = ShownListens(k)
<1>1. \A r : Follows(n, r) = Follows(k, r) /\ LinkOf(n, r) = LinkOf(k, r)
  BY DEF Follows, LinkOf
<1>2. \A i : Leader(n, i) = Leader(k, i)
  BY <1>1 DEF Leader
<1>. QED  BY <1>1, <1>2 DEF ShownProtos, ShownListens

\* The new parameters reach all that follow the interface.
LEMMA ParamsChanged ==
  ASSUME NEW k \in Sources, NEW i \in session.ifaces, OnItsOwn(k, i), NEW q \in ParamLists
  PROVE  /\ SetParams(Shown(k), i, q) = Shown(WithParams(k, i, q))
         /\ WithParams(k, i, q) \in Sources
<1>. DEFINE n == WithParams(k, i, q)
            a == Shown(k)
            b == Shown(n)
            g == [j \in DOMAIN a.params |->
                    IF j = i \/ (j \in RIsOf(a) /\ i \in a.hears[j] /\ a.params[i] # q) THEN q
                    ELSE a.params[j]]
<1>1. n \in Sources
  BY DEF WithParams, Sources, Owns
<1>2. /\ n.flag = k.flag /\ n.links = k.links /\ n.kind = k.kind
      /\ n.params = [k.params EXCEPT ![i] = q] /\ i \in DOMAIN k.params
  BY DEF WithParams, Sources, Owns
<1>3. ShownDomains(a) /\ ShownDomains(b)
  BY <1>1, ShownShape
<1>4. /\ a.flag = k.flag /\ a.links = k.links /\ a.params = ShownParams(k) /\ a.kind = ShownKind(k)
      /\ a.protos = ShownProtos(k) /\ a.hears = ShownProtos(k) /\ a.original = ShownAside(k)
      /\ a.listens = ShownListens(k)
      /\ b.flag = n.flag /\ b.links = n.links /\ b.params = ShownParams(n) /\ b.kind = ShownKind(n)
      /\ b.protos = ShownProtos(n) /\ b.hears = ShownProtos(n) /\ b.original = ShownAside(n)
      /\ b.listens = ShownListens(n)
  BY DEF Shown
<1>5. SetParams(a, i, q) = [a EXCEPT !.params = g]
  BY DEF SetParams
<1>. HIDE DEF a, b, n
<1>6. /\ \A r : Follows(n, r) = Follows(k, r)
      /\ \A j : Leader(n, j) = Leader(k, j)
      /\ ShownProtos(n) = ShownProtos(k) /\ ShownListens(n) = ShownListens(k)
  BY <1>2, SameLeaders
<1>7. ShownKind(n) = ShownKind(k)
  BY <1>2, <1>6 DEF ShownKind
<1>8. ShownAside(n) = ShownAside(k)
  <2>1. \A r \in Required : Follows(k, r) => n.params[r] = k.params[r]
    BY <1>2 DEF OnItsOwn
  <2>2. \A r \in Required : ShownAside(n)[r] = ShownAside(k)[r]
    BY <1>2, <1>6, <2>1 DEF ShownAside
  <2>3. ShownAside(n) = [r \in Required |-> ShownAside(n)[r]] /\ ShownAside(k) = [r \in Required |-> ShownAside(k)[r]]
    BY DEF ShownAside
  <2>. QED  BY <2>2, <2>3
<1>9. Leader(k, i) = i /\ a.params[i] = k.params[i]
  BY <1>4, Leaders DEF OnItsOwn, ShownParams
<1>10. ASSUME NEW j \in session.ifaces  PROVE g[j] = b.params[j]
  <2>1. b.params[j] = n.params[Leader(k, j)] /\ a.params[j] = k.params[Leader(k, j)]
    BY <1>4, <1>6 DEF ShownParams
  <2>2. DOMAIN a.params = session.ifaces /\ RIsOf(a) = Required
    BY <1>3 DEF ShownDomains, RIsOf
  <2>3. g[j] = IF j = i \/ (j \in Required /\ i \in a.hears[j] /\ a.params[i] # q) THEN q
               ELSE a.params[j]
    BY <2>2
  <2>. HIDE DEF g
  <2>4. j \in Required => (i \in a.hears[j] <=> Follows(k, j) /\ Leader(k, j) = i)
    BY <1>4 DEF ShownProtos
  <2>5. Leader(k, j) = i => j = i \/ (j \in Required /\ Follows(k, j))
    BY DEF Leader
  <2>6. CASE Leader(k, j) = i
    <3>1. b.params[j] = q /\ a.params[j] = a.params[i]
      BY <1>2, <1>9, <2>1, <2>6
    <3>. QED  BY <2>3, <2>4, <2>5, <2>6, <3>1
  <2>7. CASE Leader(k, j) # i
    <3>1. b.params[j] = a.params[j] /\ j # i
      BY <1>2, <1>9, <2>1, <2>7
    <3>. QED  BY <2>3, <2>4, <2>7, <3>1
  <2>. QED  BY <2>6, <2>7
<1>11. b.params = g
  <2>1. b.params = [j \in session.ifaces |-> b.params[j]] /\ g = [j \in session.ifaces |-> g[j]]
    BY <1>3, <1>4 DEF ShownParams, ShownDomains
  <2>. HIDE DEF g
  <2>. QED  BY <1>10, <2>1
<1>. HIDE DEF g
<1>12. [a EXCEPT !.params = g] = b
  <2>1. [a EXCEPT !.params = g] = [flag |-> a.flag, params |-> g, kind |-> a.kind, protos |-> a.protos,
          original |-> a.original, hears |-> a.hears, links |-> a.links, listens |-> a.listens]
    BY <1>3 DEF ShownDomains
  <2>2. b = [flag |-> b.flag, params |-> b.params, kind |-> b.kind, protos |-> b.protos,
          original |-> b.original, hears |-> b.hears, links |-> b.links, listens |-> b.listens]
    BY <1>3 DEF ShownDomains
  <2>. QED  BY <1>2, <1>4, <1>6, <1>7, <1>8, <1>11, <2>1, <2>2
<1>. QED  BY <1>1, <1>5, <1>12 DEF a, b, n

\* InheritPI of an RI that is not connected.
LEMMA FlagChanged ==
  ASSUME NEW k \in Sources, NEW r \in Required, \A c \in k.links : From(c) # r, NEW on \in BOOLEAN
  PROVE  /\ SetInheritPI(Shown(k), r, on) = Shown(WithFlag(k, r, on))
         /\ WithFlag(k, r, on) \in Sources
<1>. DEFINE n == WithFlag(k, r, on)
            a == Shown(k)
            b == Shown(n)
            x == [a EXCEPT !.flag[r] = on]
<1>1. n \in Sources
  BY DEF WithFlag, Sources, Owns
<1>2. /\ n.flag = [k.flag EXCEPT ![r] = on] /\ n.links = k.links /\ n.kind = k.kind
      /\ n.params = k.params /\ k.flag \in [Required -> BOOLEAN]
  BY DEF WithFlag, Sources, Owns
<1>3. ShownDomains(a) /\ ShownDomains(b)
  BY <1>1, ShownShape
<1>4. /\ a.flag = k.flag /\ a.links = k.links /\ a.params = ShownParams(k) /\ a.kind = ShownKind(k)
      /\ a.protos = ShownProtos(k) /\ a.hears = ShownProtos(k) /\ a.original = ShownAside(k)
      /\ a.listens = ShownListens(k)
      /\ b.flag = n.flag /\ b.links = n.links /\ b.params = ShownParams(n) /\ b.kind = ShownKind(n)
      /\ b.protos = ShownProtos(n) /\ b.hears = ShownProtos(n) /\ b.original = ShownAside(n)
      /\ b.listens = ShownListens(n)
  BY DEF Shown
<1>. HIDE DEF a, b, n
<1>5. \A q \in Required : (Follows(n, q) <=> Follows(k, q)) /\ LinkOf(n, q) = LinkOf(k, q)
  BY <1>2 DEF Follows, LinkOf
<1>6. \A i : Leader(n, i) = Leader(k, i)
  BY <1>5 DEF Leader
<1>7. ShownParams(n) = ShownParams(k) /\ ShownKind(n) = ShownKind(k)
  BY <1>2, <1>6 DEF ShownParams, ShownKind
<1>8. ShownProtos(n) = ShownProtos(k) /\ ShownListens(n) = ShownListens(k)
  BY <1>5, <1>6 DEF ShownProtos, ShownListens
<1>9. ShownAside(n) = ShownAside(k)
  BY <1>2, <1>5 DEF ShownAside
<1>10. x = b
  <2>1. x = [flag |-> [a.flag EXCEPT ![r] = on], params |-> a.params, kind |-> a.kind, protos |-> a.protos,
          original |-> a.original, hears |-> a.hears, links |-> a.links, listens |-> a.listens]
    BY <1>3 DEF ShownDomains
  <2>2. b = [flag |-> b.flag, params |-> b.params, kind |-> b.kind, protos |-> b.protos,
          original |-> b.original, hears |-> b.hears, links |-> b.links, listens |-> b.listens]
    BY <1>3 DEF ShownDomains
  <2>. HIDE DEF x
  <2>. QED  BY <1>2, <1>4, <1>7, <1>8, <1>9, <2>1, <2>2
<1>11. x.listens[r] = << >>
  <2>1. ~Follows(n, r)
    BY <1>2 DEF Follows
  <2>. HIDE DEF x
  <2>. QED  BY <1>4, <1>10, <2>1 DEF ShownListens
<1>12. Notify(x, r, on) = x
  <2>. DEFINE Rec(f) == f = [j \in 0..0 |->
                           IF j = 0 THEN x ELSE HandleInheritPI(f[j - 1], x.listens[r][j], on)]
              v == [j \in 0..0 |-> x]
  <2>. HIDE DEF x
  <2>1. Notify(x, r, on) = (CHOOSE f : Rec(f))[0]
    BY <1>11 DEF Notify
  <2>2. Rec(v)
    OBVIOUS
  <2>. HIDE DEF v
  <2>3. Rec(CHOOSE f : Rec(f))
    BY <2>2, Zenon
  <2>4. (CHOOSE f : Rec(f))[0] = x
    BY <2>3
  <2>. QED  BY <2>1, <2>4
<1>13. SetInheritPI(a, r, on) = IF a.flag[r] = on THEN a ELSE Notify(x, r, on)
  BY DEF SetInheritPI
<1>14. a.flag[r] = on => a = x
  <2>1. a.flag[r] = on => [a.flag EXCEPT ![r] = on] = a.flag
    BY <1>2, <1>4
  <2>. QED  BY <1>3, <2>1 DEF ShownDomains
<1>. HIDE DEF x
<1>. QED  BY <1>1, <1>10, <1>12, <1>13, <1>14 DEF a, b, n

\* A finite set as a sequence has every element once.
LEMMA SetToSeqExact ==
  ASSUME NEW S, IsFiniteSet(S)
  PROVE  /\ SetToSeq(S) \in Seq(S) /\ Range(SetToSeq(S)) = S /\ IsInjective(SetToSeq(S))
<1>1. Cardinality(S) \in Nat /\ ExistsBijection(1..Cardinality(S), S)
  BY FS_CardinalityType
<1>2. PICK f \in Bijection(1..Cardinality(S), S) : TRUE
  BY <1>1 DEF ExistsBijection
<1>3. f \in [1..Cardinality(S) -> S] /\ IsInjective(f)
  BY <1>2 DEF Bijection, Injection, IsInjective
<1>. DEFINE s == SetToSeq(S)
<1>4. s \in [1..Cardinality(S) -> S] /\ IsInjective(s)
  BY <1>3, Zenon DEF SetToSeq
<1>. HIDE DEF s
<1>5. s \in Injection(1..Cardinality(S), S)
  BY <1>4 DEF Injection, IsInjective
<1>6. s \in Surjection(1..Cardinality(S), S)
  <2>1. IsFiniteSet(1..Cardinality(S)) /\ Cardinality(1..Cardinality(S)) = Cardinality(S)
    BY <1>1, FS_Interval
  <2>. QED  BY <1>5, <2>1, FS_Injection
<1>7. Range(s) = S
  BY <1>4, <1>6 DEF Surjection, Range
<1>. QED  BY <1>1, <1>4, <1>7, SeqDef DEF s

\* What a source shows, with other kinds.
Recolored(k, g) == [Shown(k) EXCEPT !.kind = g]

LEMMA RecoloredIs ==
  ASSUME NEW k \in Sources, NEW g, DOMAIN g = session.ifaces
  PROVE  LET x == Recolored(k, g)
         IN  /\ ShownDomains(x) /\ x.flag = k.flag /\ x.links = k.links
             /\ x.params = ShownParams(k) /\ x.kind = g /\ x.protos = ShownProtos(k)
             /\ x.original = ShownAside(k) /\ x.hears = ShownProtos(k) /\ x.listens = ShownListens(k)
<1>. DEFINE a == Shown(k)
            x == Recolored(k, g)
<1>1. ShownDomains(a)
  BY ShownShape
<1>2. /\ a.flag = k.flag /\ a.links = k.links /\ a.params = ShownParams(k)
      /\ a.protos = ShownProtos(k) /\ a.hears = ShownProtos(k) /\ a.original = ShownAside(k)
      /\ a.listens = ShownListens(k)
  BY DEF Shown
<1>. HIDE DEF a
<1>3. x = [flag |-> a.flag, params |-> a.params, kind |-> g, protos |-> a.protos,
           original |-> a.original, hears |-> a.hears, links |-> a.links, listens |-> a.listens]
  BY <1>1 DEF Recolored, ShownDomains, a
<1>. HIDE DEF x
<1>4. ShownDomains(x)
  BY <1>1, <1>3 DEF ShownDomains
<1>. QED  BY <1>2, <1>3, <1>4 DEF x

\* Told to inherit by its connection, an RI takes over the kind once more.
LEMMA Reinherited ==
  ASSUME NEW k \in Sources, NEW g, g = [j \in session.ifaces |-> g[j]], NEW r \in Required, Follows(k, r)
  PROVE  Inherit(Recolored(k, g), LinkOf(k, r)) = Recolored(k, [g EXCEPT ![r] = g[Leader(k, r)]])
<1>. DEFINE c == LinkOf(k, r)
            p == Leader(k, r)
            h == [g EXCEPT ![r] = g[p]]
            x == Recolored(k, g)
            y == Recolored(k, h)
            n == Inherit(x, c)
<1>0. c \in Links /\ From(c) = r /\ To(c) = p /\ k.flag[r]
  <2>1. c \in k.links /\ From(c) = r /\ To(c) = p
    BY Leaders
  <2>2. k.links \in SUBSET Links
    BY DEF Sources, Owns
  <2>. QED  BY <2>1, <2>2 DEF Follows
<1>1. r \in Required /\ p \in Provided /\ r \in session.ifaces /\ p \in session.ifaces /\ p # r
  BY <1>0, LinkEnds
<1>2. /\ ShownDomains(x) /\ x.flag = k.flag /\ x.links = k.links
      /\ x.params = ShownParams(k) /\ x.kind = g /\ x.protos = ShownProtos(k)
      /\ x.original = ShownAside(k) /\ x.hears = ShownProtos(k) /\ x.listens = ShownListens(k)
  <2>1. DOMAIN g = session.ifaces
    OBVIOUS
  <2>. QED  BY <2>1, RecoloredIs
<1>3. /\ ShownDomains(y) /\ y.flag = k.flag /\ y.links = k.links
      /\ y.params = ShownParams(k) /\ y.kind = h /\ y.protos = ShownProtos(k)
      /\ y.original = ShownAside(k) /\ y.hears = ShownProtos(k) /\ y.listens = ShownListens(k)
  <2>1. DOMAIN h = session.ifaces
    OBVIOUS
  <2>. HIDE DEF h
  <2>. QED  BY <2>1, RecoloredIs
<1>. HIDE DEF x, y, h, p, c
<1>4. InheritedFrom(x, n, c)
  BY <1>0, <1>2, InheritIs
<1>. HIDE DEF n
<1>5. /\ ShownDomains(n) /\ n.flag = x.flag /\ n.links = x.links
      /\ n.params   = [x.params EXCEPT ![r] = x.params[p]]
      /\ n.kind     = [x.kind EXCEPT ![r] = x.kind[p]]
      /\ n.protos   = [x.protos EXCEPT ![r] = @ \cup {p}]
      /\ n.hears    = [x.hears EXCEPT ![r] = @ \cup {p}]
      /\ n.original = [x.original EXCEPT ![r] =
                         IF @ = Unset THEN [data |-> Data(x, r), flag |-> x.flag[r]] ELSE @]
      /\ n.listens  = [x.listens EXCEPT ![r] = IF c \in Range(@) THEN @ ELSE Append(@, c)]
  BY <1>0, <1>4, Zenon DEF InheritedFrom
<1>6. n.params = x.params
  <2>1. Leader(k, p) = p /\ Leader(k, r) = p
    BY <1>1, Leaders DEF p
  <2>2. x.params[r] = x.params[p]
    BY <1>1, <1>2, <2>1 DEF ShownParams
  <2>3. x.params = [j \in session.ifaces |-> x.params[j]]
    BY <1>2 DEF ShownParams
  <2>4. n.params = [x.params EXCEPT ![r] = x.params[r]]
    BY <1>5, <2>2
  <2>. QED  BY <2>3, <2>4
<1>7. n.protos = x.protos /\ n.hears = x.hears
  <2>1. ShownProtos(k)[r] = {p}
    BY <1>1 DEF ShownProtos, p
  <2>2. x.protos[r] \cup {p} = x.protos[r]
    BY <1>2, <2>1
  <2>3. x.protos = [j \in Required |-> x.protos[j]]
    BY <1>2 DEF ShownProtos
  <2>4. n.protos = [x.protos EXCEPT ![r] = x.protos[r]]
    BY <1>5, <2>2
  <2>5. n.protos = x.protos
    BY <2>3, <2>4
  <2>. QED  BY <1>2, <1>5, <2>5
<1>8. n.original = x.original
  <2>1. x.original[r] = [data |-> <<k.params[r], k.kind[r]>>, flag |-> TRUE]
    BY <1>2 DEF ShownAside
  <2>2. k.params[r] \in ParamLists /\ k.kind[r] \in Kinds
    BY <1>1 DEF Sources, Owns
  <2>3. x.original[r] # Unset
    BY <2>1, <2>2, SomethingAside
  <2>4. n.original = [x.original EXCEPT ![r] = x.original[r]]
    BY <1>5, <2>3
  <2>5. x.original = [j \in Required |-> x.original[j]]
    BY <1>2 DEF ShownAside
  <2>. QED  BY <2>4, <2>5
<1>9. n.listens = x.listens
  <2>1. x.listens[r] = <<c>>
    BY <1>2 DEF ShownListens, c
  <2>2. c \in Range(x.listens[r])
    BY <2>1, NoneAppended
  <2>3. n.listens = [x.listens EXCEPT ![r] = x.listens[r]]
    BY <1>5, <2>2
  <2>4. x.listens = [j \in Required |-> x.listens[j]]
    BY <1>2 DEF ShownListens
  <2>. QED  BY <2>3, <2>4
<1>10. n = y
  <2>1. n.kind = y.kind
    BY <1>2, <1>3, <1>5 DEF h
  <2>. QED  BY <1>2, <1>3, <1>5, <1>6, <1>7, <1>8, <1>9, <2>1, SameShown
<1>. QED  BY <1>10 DEF n, x, y, h, p, c

\* reflectAttrs on an RI that follows p.
LEMMA Reflected ==
  ASSUME NEW k \in Sources, NEW g, g = [j \in session.ifaces |-> g[j]], NEW r \in Required, Follows(k, r),
         NEW p, p = Leader(k, r)
  PROVE  ReflectAttrs(Recolored(k, g), r, p) = Recolored(k, [g EXCEPT ![r] = g[p]])
<1>. DEFINE c == LinkOf(k, r)
            h == [g EXCEPT ![r] = g[p]]
            x == Recolored(k, g)
            y == Recolored(k, h)
<1>0. /\ ShownDomains(x) /\ x.flag[r] /\ x.kind = g /\ x.listens[r] = <<c>>
      /\ ShownDomains(y) /\ y.kind = h
  <2>1. DOMAIN g = session.ifaces /\ DOMAIN h = session.ifaces
    OBVIOUS
  <2>2. ShownDomains(x) /\ x.flag = k.flag /\ x.kind = g /\ x.listens = ShownListens(k)
    BY <2>1, RecoloredIs
  <2>. HIDE DEF h
  <2>3. ShownDomains(y) /\ y.kind = h
    BY <2>1, RecoloredIs
  <2>. HIDE DEF x, y
  <2>. QED  BY <2>2, <2>3 DEF Follows, ShownListens
<1>1. Inherit(x, c) = y
  BY Reinherited
<1>2. r \in session.ifaces
  BY DEF Required
<1>. HIDE DEF x, y, c
<1>3. Notify(x, r, TRUE) = Inherit(x, c)
  <2>. DEFINE L == x.listens[r]
              Rec(f) == f = [j \in 0..1 |->
                           IF j = 0 THEN x ELSE HandleInheritPI(f[j - 1], L[j], TRUE)]
              v == [j \in 0..1 |-> IF j = 0 THEN x ELSE Inherit(x, c)]
  <2>0. Len(<<c>>) = 1 /\ <<c>>[1] = c
    OBVIOUS
  <2>1. Notify(x, r, TRUE) = (CHOOSE f : Rec(f))[1]
    BY <1>0, <2>0 DEF Notify
  <2>2. v[0] = x /\ v[1] = Inherit(x, c)
    OBVIOUS
  <2>3. HandleInheritPI(x, L[1], TRUE) = Inherit(x, c)
    BY <1>0, <2>0 DEF HandleInheritPI
  <2>. HIDE DEF L
  <2>4. Rec(v)
    <3>1. \A j \in 0..1 : v[j] = IF j = 0 THEN x ELSE HandleInheritPI(v[j - 1], L[j], TRUE)
      <4>1. \A j \in 0..1 : j # 0 => j = 1 /\ j - 1 = 0
        OBVIOUS
      <4>. HIDE DEF v
      <4>2. \A j \in 1..1 : HandleInheritPI(v[j - 1], L[j], TRUE) = v[j]
        <5>1. \A j \in 1..1 : j = 1 /\ j - 1 = 0
          OBVIOUS
        <5>. QED  BY <2>2, <2>3, <5>1, Zenon
      <4>3. \A j \in 0..1 : j # 0 => v[j] = HandleInheritPI(v[j - 1], L[j], TRUE)
        <5>1. \A j \in 0..1 : j # 0 => j \in 1..1
          OBVIOUS
        <5>. QED  BY <4>2, <5>1, Zenon
      <4>4. \A j \in 0..1 : j = 0 => v[j] = x
        BY <2>2
      <4>. QED  BY <4>3, <4>4, Zenon
    <3>2. v = [j \in 0..1 |-> v[j]]
      OBVIOUS
    <3>. HIDE DEF v
    <3>. QED  BY <3>1, <3>2
  <2>. HIDE DEF v
  <2>5. Rec(CHOOSE f : Rec(f))
    BY <2>4, Zenon
  <2>. DEFINE w == CHOOSE f : Rec(f)
  <2>. HIDE DEF w
  <2>6. w = [j \in 0..1 |-> IF j = 0 THEN x ELSE HandleInheritPI(w[j - 1], L[j], TRUE)]
    BY <2>5 DEF w
  <2>7. w[0] = x
    BY <2>6
  <2>8. w[1] = HandleInheritPI(w[0], L[1], TRUE)
    <3>1. 1 \in 0..1 /\ 1 # 0 /\ 1 - 1 = 0
      OBVIOUS
    <3>. QED  BY <2>6, <3>1
  <2>. QED  BY <2>1, <2>3, <2>7, <2>8 DEF w
<1>4. [y EXCEPT !.kind[r] = g[p]] = y
  <2>1. [y.kind EXCEPT ![r] = g[p]] = y.kind
    BY <1>0
  <2>. HIDE DEF h
  <2>2. [y EXCEPT !.kind[r] = g[p]] = [flag |-> y.flag, params |-> y.params,
          kind |-> [y.kind EXCEPT ![r] = g[p]], protos |-> y.protos,
          original |-> y.original, hears |-> y.hears, links |-> y.links, listens |-> y.listens]
    BY <1>0 DEF ShownDomains
  <2>. QED  BY <1>0, <2>1, <2>2 DEF ShownDomains
<1>5. CASE x.kind[r] = x.kind[p]
  <2>1. h = g
    <3>1. g[r] = g[p]
      BY <1>0, <1>5
    <3>. QED  BY <3>1
  <2>2. ReflectAttrs(x, r, p) = x
    BY <1>5 DEF ReflectAttrs
  <2>. HIDE DEF h
  <2>. QED  BY <2>1, <2>2 DEF x, y, h
<1>6. CASE x.kind[r] # x.kind[p]
  <2>1. ReflectAttrs(x, r, p) = [Notify(x, r, TRUE) EXCEPT !.kind[r] = x.kind[p]]
    BY <1>0, <1>6 DEF ReflectAttrs
  <2>. HIDE DEF h
  <2>2. ReflectAttrs(x, r, p) = y
    BY <1>0, <1>1, <1>3, <1>4, <2>1
  <2>. QED  BY <2>2 DEF x, y, h
<1>. QED  BY <1>5, <1>6

\* The new kind reaches all that follow the interface, one after the other.
LEMMA KindChanged ==
  ASSUME NEW k \in Sources, NEW i \in session.ifaces, OnItsOwn(k, i), NEW q \in Kinds
  PROVE  /\ SetKind(Shown(k), i, q) = Shown(WithKind(k, i, q))
         /\ WithKind(k, i, q) \in Sources
<1>. DEFINE n == WithKind(k, i, q)
            a == Shown(k)
            b == Shown(n)
            H == {r \in RIsOf(a) : i \in a.hears[r] /\ a.kind[i] # q}
            L == SetToSeq(H)
            N == Len(L)
            first == [a EXCEPT !.kind[i] = q]
            g == [t \in 0..N |-> [j \in session.ifaces |->
                    IF j = i \/ j \in FirstOf(L, t) THEN q ELSE a.kind[j]]]
            v == [t \in 0..N |-> Recolored(k, g[t])]
            Rec(f) == f = [t \in 0..N |-> IF t = 0 THEN first ELSE ReflectAttrs(f[t - 1], L[t], i)]
            after == CHOOSE f : Rec(f)
<1>1. n \in Sources
  BY DEF WithKind, Sources, Owns
<1>2. /\ n.flag = k.flag /\ n.links = k.links /\ n.params = k.params
      /\ n.kind = [k.kind EXCEPT ![i] = q] /\ i \in DOMAIN k.kind
  BY DEF WithKind, Sources, Owns
<1>3. ShownDomains(a) /\ ShownDomains(b)
  BY <1>1, ShownShape
<1>4. /\ a.flag = k.flag /\ a.links = k.links /\ a.params = ShownParams(k) /\ a.kind = ShownKind(k)
      /\ a.protos = ShownProtos(k) /\ a.hears = ShownProtos(k) /\ a.original = ShownAside(k)
      /\ a.listens = ShownListens(k)
      /\ b.flag = n.flag /\ b.links = n.links /\ b.params = ShownParams(n) /\ b.kind = ShownKind(n)
      /\ b.protos = ShownProtos(n) /\ b.hears = ShownProtos(n) /\ b.original = ShownAside(n)
      /\ b.listens = ShownListens(n)
  BY DEF Shown
<1>5. SetKind(a, i, q) = after[N]
  BY DEF SetKind
<1>17. a = Shown(k) /\ b = Shown(n)
  OBVIOUS
<1>. HIDE DEF a, b, n
<1>6. /\ \A r : Follows(n, r) = Follows(k, r)
      /\ \A j : Leader(n, j) = Leader(k, j)
      /\ ShownProtos(n) = ShownProtos(k) /\ ShownListens(n) = ShownListens(k)
  BY <1>2, SameLeaders
<1>7. ShownParams(n) = ShownParams(k)
  BY <1>2, <1>6 DEF ShownParams
<1>8. ShownAside(n) = ShownAside(k)
  <2>1. \A r \in Required : Follows(k, r) => n.kind[r] = k.kind[r]
    BY <1>2 DEF OnItsOwn
  <2>2. \A r \in Required : ShownAside(n)[r] = ShownAside(k)[r]
    BY <1>2, <1>6, <2>1 DEF ShownAside
  <2>3. ShownAside(n) = [r \in Required |-> ShownAside(n)[r]] /\ ShownAside(k) = [r \in Required |-> ShownAside(k)[r]]
    BY DEF ShownAside
  <2>. QED  BY <2>2, <2>3
<1>9. Leader(k, i) = i /\ a.kind[i] = k.kind[i]
  BY <1>4, Leaders DEF OnItsOwn, ShownKind
<1>10. \A r \in H : r \in Required /\ Follows(k, r) /\ Leader(k, r) = i /\ r # i
  <2>1. RIsOf(a) = Required
    BY <1>3 DEF ShownDomains, RIsOf
  <2>2. \A r \in H : r \in Required /\ i \in ShownProtos(k)[r]
    BY <1>4, <2>1
  <2>. HIDE DEF H
  <2>. QED  BY <2>2 DEF ShownProtos, OnItsOwn
<1>11. L \in Seq(H) /\ Range(L) = H /\ IsInjective(L)
  <2>1. IsFiniteSet(H)
    <3>1. Required \in SUBSET (RIs \cup PIs)
      BY DEF Required
    <3>2. H \in SUBSET Required
      BY <1>10
    <3>. HIDE DEF H
    <3>. QED  BY <3>1, <3>2, InheritAssumption, FS_Subset
  <2>. HIDE DEF H
  <2>. QED  BY <2>1, SetToSeqExact
<1>12. \A j \in session.ifaces : b.kind[j] = IF j = i \/ j \in H THEN q ELSE a.kind[j]
  <2>. TAKE j \in session.ifaces
  <2>1. b.kind[j] = n.kind[Leader(k, j)] /\ a.kind[j] = k.kind[Leader(k, j)]
    BY <1>4, <1>6 DEF ShownKind
  <2>2. Leader(k, j) \in session.ifaces /\ DOMAIN k.kind = session.ifaces
    BY Leaders DEF Sources, Owns
  <2>3. CASE Leader(k, j) # i
    <3>1. j # i /\ j \notin H
      BY <1>9, <1>10, <2>3
    <3>. HIDE DEF H
    <3>. QED  BY <1>2, <2>1, <2>2, <2>3, <3>1
  <2>4. CASE Leader(k, j) = i
    <3>1. b.kind[j] = q /\ a.kind[j] = a.kind[i]
      BY <1>2, <1>9, <2>1, <2>2, <2>4
    <3>2. j = i \/ (j \in Required /\ Follows(k, j))
      BY <2>4 DEF Leader
    <3>3. j \in Required /\ Follows(k, j) => i \in a.hears[j] /\ j \in RIsOf(a)
      BY <1>3, <1>4, <2>4 DEF ShownProtos, ShownDomains, RIsOf
    <3>. QED  BY <3>1, <3>2, <3>3
  <2>. QED  BY <2>3, <2>4
<1>. HIDE DEF H, L
<1>13. N \in Nat /\ \A t \in 1..N : L[t] \in H /\ t \in 0..N /\ t - 1 \in 0..N /\ t # 0
  BY <1>11
<1>14. \A t \in 0..N : g[t] = [j \in session.ifaces |-> g[t][j]]
  OBVIOUS
<1>15. \A t \in 1..N : g[t] = [g[t - 1] EXCEPT ![L[t]] = g[t - 1][i]]
  <2>. TAKE t \in 1..N
  <2>1. FirstOf(L, t) = FirstOf(L, t - 1) \cup {L[t]} /\ L[t] \notin FirstOf(L, t - 1)
    BY <1>11, FirstOfOneMore
  <2>2. g[t - 1][i] = q /\ DOMAIN g[t - 1] = session.ifaces
    BY <1>13
  <2>3. ASSUME NEW j \in session.ifaces
        PROVE  g[t][j] = IF j = L[t] THEN q ELSE g[t - 1][j]
    <3>1. g[t][j] = (IF j = i \/ j \in FirstOf(L, t) THEN q ELSE a.kind[j])
      BY <1>13
    <3>2. g[t - 1][j] = (IF j = i \/ j \in FirstOf(L, t - 1) THEN q ELSE a.kind[j])
      BY <1>13
    <3>. HIDE DEF g
    <3>. QED  BY <2>1, <3>1, <3>2
  <2>4. t \in 0..N /\ t - 1 \in 0..N
    BY <1>13
  <2>5. g[t] = [j \in session.ifaces |-> g[t][j]] /\ g[t - 1] = [j \in session.ifaces |-> g[t - 1][j]]
    BY <1>14, <2>4
  <2>. HIDE DEF g
  <2>. QED  BY <2>2, <2>3, <2>5
<1>16. v[0] = first
  <2>1. FirstOf(L, 0) = {} /\ 0 \in 0..N
    BY <1>13 DEF FirstOf
  <2>2. g[0] = [a.kind EXCEPT ![i] = q]
    <3>1. a.kind = [j \in session.ifaces |-> a.kind[j]]
      BY <1>4 DEF ShownKind
    <3>2. g[0] = [j \in session.ifaces |-> IF j = i THEN q ELSE a.kind[j]]
      BY <2>1
    <3>. HIDE DEF g
    <3>. QED  BY <3>1, <3>2
  <2>3. v[0] = Recolored(k, g[0])
    BY <2>1
  <2>. HIDE DEF v, g
  <2>. QED  BY <2>2, <2>3, <1>17 DEF Recolored
<1>18. \A t \in 1..N : ReflectAttrs(v[t - 1], L[t], i) = v[t]
  <2>. TAKE t \in 1..N
  <2>1. t \in 0..N /\ t - 1 \in 0..N /\ L[t] \in H
    BY <1>13
  <2>2. v[t] = Recolored(k, g[t]) /\ v[t - 1] = Recolored(k, g[t - 1])
    BY <2>1
  <2>3. L[t] \in Required /\ Follows(k, L[t]) /\ Leader(k, L[t]) = i
    BY <1>10, <2>1
  <2>4. g[t - 1] = [j \in session.ifaces |-> g[t - 1][j]]
    BY <1>14, <2>1
  <2>. HIDE DEF v, g
  <2>5. ReflectAttrs(Recolored(k, g[t - 1]), L[t], i)
          = Recolored(k, [g[t - 1] EXCEPT ![L[t]] = g[t - 1][i]])
    <3>. DEFINE u == g[t - 1]
                r == L[t]
    <3>1. u = [j \in session.ifaces |-> u[j]] /\ r \in Required /\ Follows(k, r) /\ i = Leader(k, r)
      BY <2>3, <2>4
    <3>. HIDE DEF u, r
    <3>2. ReflectAttrs(Recolored(k, u), r, i) = Recolored(k, [u EXCEPT ![r] = u[i]])
      BY <3>1, Reflected
    <3>. QED  BY <3>2 DEF u, r
  <2>. QED  BY <1>15, <2>2, <2>5
<1>19. v[N] = b
  <2>1. FirstOf(L, N) = H /\ N \in 0..N
    BY <1>11, <1>13, LenProperties DEF FirstOf, Range
  <2>2. g[N] = b.kind
    <3>1. g[N] = [j \in session.ifaces |-> IF j = i \/ j \in H THEN q ELSE a.kind[j]]
      BY <2>1
    <3>2. b.kind = [j \in session.ifaces |-> b.kind[j]]
      BY <1>4 DEF ShownKind
    <3>. HIDE DEF g
    <3>. QED  BY <1>12, <3>1, <3>2
  <2>3. v[N] = Recolored(k, g[N])
    BY <2>1
  <2>. HIDE DEF v, g, N
  <2>. DEFINE x == Recolored(k, b.kind)
  <2>4. /\ ShownDomains(x) /\ x.flag = k.flag /\ x.links = k.links
        /\ x.params = ShownParams(k) /\ x.kind = b.kind /\ x.protos = ShownProtos(k)
        /\ x.original = ShownAside(k) /\ x.hears = ShownProtos(k) /\ x.listens = ShownListens(k)
    <3>1. DOMAIN b.kind = session.ifaces
      BY <1>3 DEF ShownDomains
    <3>. QED  BY <3>1, RecoloredIs
  <2>. HIDE DEF x
  <2>5. x = b
    BY <1>2, <1>3, <1>4, <1>6, <1>7, <1>8, <2>4, SameShown
  <2>. QED  BY <2>2, <2>3, <2>5 DEF x
<1>. HIDE DEF N, first
<1>20. Rec(v)
  <2>1. v = [t \in 0..N |-> v[t]]
    OBVIOUS
  <2>. HIDE DEF v, g
  <2>2. \A t \in 0..N : t # 0 => t \in 1..N
    BY <1>13
  <2>3. \A t \in 0..N : v[t] = IF t = 0 THEN first ELSE ReflectAttrs(v[t - 1], L[t], i)
    BY <1>16, <1>18, <2>2
  <2>. QED  BY <2>1, <2>3
<1>. HIDE DEF v, g
<1>21. Rec(after)
  BY <1>20, Zenon
<1>. HIDE DEF after
<1>22. after[0] = first
  BY <1>13, <1>21
<1>23. \A t \in 1..N : after[t] = ReflectAttrs(after[t - 1], L[t], i)
  BY <1>13, <1>21, Zenon
<1>24. after[N] = v[N]
  <2>1. after[0] = v[0]
    BY <1>16, <1>22
  <2>2. \A t \in 1..N : after[t - 1] = v[t - 1] => after[t] = v[t]
    BY <1>18, <1>23
  <2>. QED  BY <1>13, <2>1, <2>2, EndAlike
<1>. QED  BY <1>1, <1>5, <1>19, <1>24 DEF a, b, n

\* Setting a prototype an RI has changes nothing.
LEMMA PrototypeSetAgain ==
  ASSUME NEW k \in Sources, NEW r \in Required, Follows(k, r)
  PROVE  SetPrototype(Shown(k), r, Leader(k, r)) = Shown(k)
<1>. DEFINE a == Shown(k)
            c == LinkOf(k, r)
            p == Leader(k, r)
            s == SetPrototype(a, r, p)
            g == ShownKind(k)
<1>0. c \in Links /\ From(c) = r /\ To(c) = p /\ k.flag[r]
  <2>1. c \in k.links /\ From(c) = r /\ To(c) = p
    BY Leaders
  <2>2. k.links \in SUBSET Links
    BY DEF Sources, Owns
  <2>. QED  BY <2>1, <2>2 DEF Follows
<1>1. ShownDomains(a) /\ a.flag = k.flag /\ a.listens[r] = <<c>> /\ a.kind = g
  <2>1. ShownDomains(a)
    BY ShownShape
  <2>2. a.listens = ShownListens(k) /\ a.flag = k.flag /\ a.kind = g
    BY DEF Shown
  <2>. HIDE DEF a, g
  <2>. QED  BY <2>1, <2>2 DEF ShownListens
<1>2. Inherit(a, c) = a
  <2>1. Recolored(k, g) = a
    <3>1. a = [a EXCEPT !.kind = a.kind]
      <4>. HIDE DEF a
      <4>. QED  BY <1>1 DEF ShownDomains
    <3>2. [a EXCEPT !.kind = a.kind] = [a EXCEPT !.kind = g]
      <4>. HIDE DEF a, g
      <4>. QED  BY <1>1
    <3>3. Recolored(k, g) = [a EXCEPT !.kind = g]
      BY Zenon DEF Recolored
    <3>. HIDE DEF a, g
    <3>. QED  BY <3>1, <3>2, <3>3
  <2>2. g = [j \in session.ifaces |-> g[j]]
    BY DEF ShownKind
  <2>3. [g EXCEPT ![r] = g[p]] = g
    <3>1. r \in session.ifaces /\ p \in Provided
      BY <1>0, LinkEnds
    <3>2. Leader(k, p) = p /\ p \in session.ifaces
      BY <3>1, Leaders DEF Provided
    <3>3. g[r] = g[p]
      BY <3>1, <3>2 DEF ShownKind
    <3>. HIDE DEF g
    <3>. QED  BY <2>2, <3>3
  <2>4. Inherit(Recolored(k, g), c) = Recolored(k, [g EXCEPT ![r] = g[p]])
    <3>. HIDE DEF g
    <3>. QED  BY <2>2, Reinherited
  <2>. HIDE DEF a, g
  <2>. QED  BY <2>1, <2>3, <2>4
<1>. HIDE DEF a, c, p
<1>3. Inherit(a, c) = [s EXCEPT !.listens[r] = IF c \in Range(@) THEN @ ELSE Append(@, c)]
  BY <1>0, <1>1 DEF Inherit, Concerned
<1>4. ShownDomains(s) /\ s.listens = a.listens
  <2>. DEFINE e == [a EXCEPT !.protos[r] = @ \cup {p}]
              o == IF e.original[r] = Unset THEN [data |-> Data(e, r), flag |-> e.flag[r]] ELSE e.original[r]
  <2>1. s = CloneInternals(e, r, p)
    BY <1>0, <1>1 DEF SetPrototype
  <2>2. ShownDomains(e) /\ e.listens = a.listens
    BY <1>1 DEF ShownDomains
  <2>. HIDE DEF e
  <2>3. CloneInternals(e, r, p) =
          [e EXCEPT !.original[r] = o, !.kind[r] = e.kind[p], !.params[r] = e.params[p],
                    !.hears[r] = @ \cup {p}]
    BY <2>2 DEF CloneInternals, ShownDomains
  <2>. HIDE DEF o
  <2>4. CloneInternals(e, r, p) =
          [flag |-> e.flag, params |-> [e.params EXCEPT ![r] = e.params[p]],
           kind |-> [e.kind EXCEPT ![r] = e.kind[p]], protos |-> e.protos,
           original |-> [e.original EXCEPT ![r] = o],
           hears |-> [e.hears EXCEPT ![r] = @ \cup {p}], links |-> e.links, listens |-> e.listens]
    BY <2>2, <2>3 DEF ShownDomains
  <2>. HIDE DEF s
  <2>5. ShownDomains(s) /\ s.listens = e.listens
    BY <2>1, <2>2, <2>4 DEF ShownDomains
  <2>. QED  BY <2>2, <2>5
<1>. HIDE DEF s
<1>5. [s EXCEPT !.listens[r] = IF c \in Range(@) THEN @ ELSE Append(@, c)] = s
  <2>1. c \in Range(s.listens[r])
    BY <1>1, <1>4, NoneAppended
  <2>2. [s EXCEPT !.listens[r] = IF c \in Range(@) THEN @ ELSE Append(@, c)]
          = [s EXCEPT !.listens = [s.listens EXCEPT ![r] = s.listens[r]]]
    BY <2>1
  <2>3. [s.listens EXCEPT ![r] = s.listens[r]] = s.listens
    <3>1. a.listens = [j \in Required |-> a.listens[j]]
      BY DEF a, Shown, ShownListens
    <3>. QED  BY <1>4, <3>1
  <2>. QED  BY <1>4, <2>2, <2>3 DEF ShownDomains
<1>. QED  BY <1>2, <1>3, <1>5 DEF s, a, p

\* A PI that is renamed tells those that follow it.
LEMMA RenamedShown ==
  ASSUME NEW k \in Sources, NEW p \in Provided
  PROVE  Rename(Shown(k), p) = Shown(k)
<1>. DEFINE a == Shown(k)
            H == {r \in RIsOf(a) : \E c \in Range(a.listens[r]) : To(c) = p}
            L == SetToSeq(H)
            N == Len(L)
            Rec(f) == f = [t \in 0..N |-> IF t = 0 THEN a ELSE SetPrototype(f[t - 1], L[t], p)]
            after == CHOOSE f : Rec(f)
            v == [t \in 0..N |-> a]
<1>1. Rename(a, p) = after[N]
  BY DEF Rename
<1>2. RIsOf(a) = Required /\ a.listens = ShownListens(k)
  BY ShownShape DEF RIsOf, ShownDomains, Shown
<1>. HIDE DEF a
<1>3. \A r \in H : r \in Required /\ Follows(k, r) /\ Leader(k, r) = p
  <2>. SUFFICES ASSUME NEW r \in H  PROVE r \in Required /\ Follows(k, r) /\ Leader(k, r) = p
    OBVIOUS
  <2>1. r \in Required
    BY <1>2
  <2>2. PICK c \in Range(ShownListens(k)[r]) : To(c) = p
    BY <1>2
  <2>. HIDE DEF H
  <2>3. Follows(k, r)
    BY <2>1, <2>2 DEF ShownListens, Range
  <2>4. Range(<<LinkOf(k, r)>>) = {LinkOf(k, r)}
    BY DEF Range
  <2>5. c = LinkOf(k, r)
    BY <2>1, <2>2, <2>3, <2>4 DEF ShownListens
  <2>. QED  BY <2>1, <2>2, <2>3, <2>5, Leaders
<1>4. L \in Seq(H)
  <2>1. IsFiniteSet(H)
    <3>1. Required \in SUBSET (RIs \cup PIs)
      BY DEF Required
    <3>2. H \in SUBSET Required
      BY <1>2
    <3>. HIDE DEF H
    <3>. QED  BY <3>1, <3>2, InheritAssumption, FS_Subset
  <2>. HIDE DEF H
  <2>. QED  BY <2>1, SetToSeqElements
<1>. HIDE DEF H, L
<1>5. N \in Nat /\ \A t \in 1..N : L[t] \in H /\ t \in 0..N /\ t - 1 \in 0..N /\ t # 0
  BY <1>4
<1>. HIDE DEF N
<1>6. \A t \in 1..N : SetPrototype(a, L[t], p) = a
  <2>. TAKE t \in 1..N
  <2>. DEFINE r == L[t]
  <2>1. r \in Required /\ Follows(k, r) /\ Leader(k, r) = p
    BY <1>3, <1>5
  <2>. HIDE DEF r
  <2>2. SetPrototype(Shown(k), r, Leader(k, r)) = Shown(k)
    BY <2>1, PrototypeSetAgain
  <2>. QED  BY <2>1, <2>2 DEF a, r
<1>7. Rec(v)
  <2>1. \A t \in 0..N : v[t] = a
    OBVIOUS
  <2>2. \A t \in 0..N : t # 0 => SetPrototype(v[t - 1], L[t], p) = a
    <3>1. \A t \in 0..N : t # 0 => t \in 1..N /\ v[t - 1] = a
      BY <1>5, <2>1
    <3>. HIDE DEF v
    <3>. QED  BY <1>6, <3>1
  <2>3. v = [t \in 0..N |-> v[t]]
    OBVIOUS
  <2>. HIDE DEF v
  <2>4. \A t \in 0..N : v[t] = IF t = 0 THEN a ELSE SetPrototype(v[t - 1], L[t], p)
    BY <2>1, <2>2
  <2>. QED  BY <2>3, <2>4
<1>8. Rec(after)
  BY <1>7, Zenon
<1>. HIDE DEF after
<1>9. after[0] = a
  BY <1>5, <1>8
<1>10. \A t \in 1..N : after[t] = SetPrototype(after[t - 1], L[t], p)
  BY <1>5, <1>8, Zenon
<1>11. \A t \in 0..N : v[t] = a
  OBVIOUS
<1>. HIDE DEF v
<1>12. after[N] = v[N]
  <2>1. \A t \in 1..N : after[t - 1] = v[t - 1] => after[t] = v[t]
    BY <1>5, <1>6, <1>10, <1>11
  <2>2. after[0] = v[0]
    BY <1>5, <1>9, <1>11
  <2>. QED  BY <1>5, <2>1, <2>2, EndAlike
<1>. QED  BY <1>1, <1>5, <1>11, <1>12 DEF a

\* What is shown is what the handlers make of a source in which parameters agree.
Sound(m) == \E k \in Sources : Agreeing(k) /\ m = Shown(k)

\* A command was done on m, gave n, and can be taken back.
Made(m, c, n) == Sound(n) /\ Redo(m, c) = n /\ Undo(n, c) = m

LEMMA ShownFields ==
  ASSUME NEW k \in Sources, NEW m, m = Shown(k)
  PROVE  /\ RIsOf(m) = Required /\ m.flag = k.flag /\ m.links = k.links /\ m.links \in SUBSET Links
         /\ \A i \in session.ifaces :
              OnItsOwn(k, i) => m.params[i] = k.params[i] /\ m.kind[i] = k.kind[i]
         /\ \A p \in Provided : p \in session.ifaces /\ OnItsOwn(k, p)
         /\ \A r \in Required : /\ r \in session.ifaces /\ m.hears[r] = m.protos[r]
                                /\ m.protos[r] = IF Follows(k, r) THEN {Leader(k, r)} ELSE {}
                                /\ ~k.flag[r] => OnItsOwn(k, r)
<1>1. RIsOf(m) = Required /\ m.flag = k.flag /\ m.links = k.links /\ m.links \in SUBSET Links
  BY DEF Shown, RIsOf, Sources, Owns
<1>2. m.params = ShownParams(k) /\ m.kind = ShownKind(k) /\ m.protos = ShownProtos(k)
      /\ m.hears = ShownProtos(k)
  BY DEF Shown
<1>3. \A i \in session.ifaces : OnItsOwn(k, i) => m.params[i] = k.params[i] /\ m.kind[i] = k.kind[i]
  BY <1>2, Leaders DEF OnItsOwn, ShownParams, ShownKind
<1>4. \A p \in Provided : p \in session.ifaces /\ OnItsOwn(k, p)
  BY InheritAssumption DEF Provided, Required, OnItsOwn
<1>5. \A r \in Required : /\ r \in session.ifaces /\ m.hears[r] = m.protos[r]
                          /\ m.protos[r] = IF Follows(k, r) THEN {Leader(k, r)} ELSE {}
                          /\ ~k.flag[r] => OnItsOwn(k, r)
  BY <1>2 DEF ShownProtos, Required, OnItsOwn, Follows
<1>. QED  BY <1>1, <1>3, <1>4, <1>5

LEMMA ConnectMade ==
  ASSUME NEW m, Sound(m), NEW r \in Required, NEW p \in Provided, NEW t \in 1..session.copies,
         CanConnect(m, r, p), LinksOf(m, r) = {}
  PROVE  LET c == [kind |-> "connect", c |-> <<r, p, t>>]
         IN  Noting(m, c) = c /\ Made(m, c, Redo(m, c))
<1>. DEFINE e == <<r, p, t>>
            c == [kind |-> "connect", c |-> e]
<1>1. PICK k \in Sources : Agreeing(k) /\ m = Shown(k)
  BY DEF Sound
<1>2. e \in Links /\ From(e) = r /\ To(e) = p
  BY DEF Links, From, To
<1>3. Redo(m, c) = AddLink(m, e) /\ \A n : Undo(n, c) = RemoveLinks(n, <<e>>)
  BY DEF Redo, Undo
<1>4. Noting(m, c) = c
  BY DEF Noting
<1>. HIDE DEF e, c
<1>5. \A d \in k.links : From(d) # From(e)
  <2>1. m.links = k.links
    BY <1>1, ShownFields
  <2>. QED  BY <1>2, <2>1 DEF LinksOf
<1>. DEFINE n == Plus(k, e)
<1>6. n \in Sources /\ AddLink(m, e) = Shown(n)
  BY <1>1, <1>2, <1>5, PlusSource, LinkAdded
<1>7. n.flag = k.flag /\ n.params = k.params /\ n.links = k.links \cup {e}
  BY DEF Plus
<1>8. RemoveLinks(Shown(n), <<e>>) = Shown(k)
  <2>1. <<e>> \in Seq(n.links) /\ IsInjective(<<e>>) /\ Range(<<e>>) = {e}
    BY <1>7 DEF IsInjective, Range
  <2>2. Without(n, {e}) = k
    <3>1. (k.links \cup {e}) \ {e} = k.links
      BY <1>5
    <3>2. k = [flag |-> k.flag, params |-> k.params, kind |-> k.kind, links |-> k.links]
      BY DEF Sources, Owns
    <3>3. n.kind = k.kind
      BY DEF Plus
    <3>. HIDE DEF n
    <3>. QED  BY <1>7, <3>1, <3>2, <3>3, Zenon DEF Without
  <2>. DEFINE C == <<e>>
  <2>. HIDE DEF n, C
  <2>3. RemoveLinks(Shown(n), C) = Shown(Without(n, Range(C)))
    BY <1>6, <2>1, LinksRemoved DEF C
  <2>. QED  BY <2>1, <2>2, <2>3 DEF C
<1>9. Agreeing(n)
  <2>1. ~k.flag[r] => k.params[r] = k.params[p]
    <3>1. m.flag = k.flag /\ r \in session.ifaces /\ p \in session.ifaces /\ OnItsOwn(k, p)
          /\ (~k.flag[r] => OnItsOwn(k, r))
      BY <1>1, ShownFields
    <3>2. \A i \in session.ifaces : OnItsOwn(k, i) => m.params[i] = k.params[i]
      BY <1>1, ShownFields
    <3>3. m.flag[r] \/ m.params[r] = m.params[p]
      BY DEF CanConnect
    <3>. QED  BY <3>1, <3>2, <3>3
  <2>. HIDE DEF n
  <2>. QED  BY <1>1, <1>2, <1>7, <2>1 DEF Agreeing
<1>10. Made(m, c, Redo(m, c))
  <2>. HIDE DEF n
  <2>. QED  BY <1>1, <1>3, <1>6, <1>8, <1>9 DEF Made, Sound
<1>. QED  BY <1>4, <1>10 DEF c, e

LEMMA RemoveMade ==
  ASSUME NEW m, Sound(m), NEW C \in Seq(m.links), IsInjective(C)
  PROVE  LET c == [kind |-> "remove", C |-> C]
         IN  Noting(m, c) = c /\ Made(m, c, Redo(m, c))
<1>. DEFINE c == [kind |-> "remove", C |-> C]
<1>1. PICK k \in Sources : Agreeing(k) /\ m = Shown(k)
  BY DEF Sound
<1>3. Redo(m, c) = RemoveLinks(m, C) /\ \A n : Undo(n, c) = RestoreLinks(n, C)
  BY DEF Redo, Undo
<1>4. Noting(m, c) = c
  BY DEF Noting
<1>. HIDE DEF c
<1>. DEFINE n == Without(k, Range(C))
<1>5. C \in Seq(k.links)
  <2>1. m.links = k.links
    BY <1>1, ShownFields
  <2>. QED  BY <2>1
<1>6. n \in Sources /\ RemoveLinks(m, C) = Shown(n) /\ RestoreLinks(Shown(n), C) = Shown(k)
  BY <1>1, <1>5, LinksRemoved, LinksRestored
<1>7. Agreeing(n)
  BY <1>1 DEF Agreeing, Without
<1>. HIDE DEF n
<1>8. Made(m, c, Redo(m, c))
  BY <1>1, <1>3, <1>6, <1>7 DEF Made, Sound
<1>. QED  BY <1>4, <1>8 DEF c

LEMMA KindMade ==
  ASSUME NEW m, Sound(m), NEW i \in session.ifaces, NEW q \in Kinds,
         i \in RIs => m.protos[i] = {}
  PROVE  LET c == [kind |-> "kind", i |-> i, new |-> q, old |-> m.kind[i]]
         IN  Noting(m, c) = c /\ Made(m, c, Redo(m, c))
<1>. DEFINE old == m.kind[i]
            c == [kind |-> "kind", i |-> i, new |-> q, old |-> old]
<1>1. PICK k \in Sources : Agreeing(k) /\ m = Shown(k)
  BY DEF Sound
<1>3. Redo(m, c) = SetKind(m, i, q) /\ \A n : Undo(n, c) = SetKind(n, i, old)
  BY DEF Redo, Undo
<1>4. Noting(m, c) = c
  BY DEF Noting
<1>. DEFINE n == WithKind(k, i, q)
<1>5. OnItsOwn(k, i)
  <2>1. i \in Required => i \in RIs
    BY DEF Required
  <2>2. i \in Required => m.protos[i] = IF Follows(k, i) THEN {Leader(k, i)} ELSE {}
    BY <1>1, ShownFields
  <2>. QED  BY <2>1, <2>2 DEF OnItsOwn
<1>6. old = k.kind[i] /\ old \in Kinds
  <2>1. m.kind[i] = k.kind[i]
    BY <1>1, <1>5, ShownFields
  <2>2. k.kind[i] \in Kinds
    BY DEF Sources, Owns
  <2>. QED  BY <2>1, <2>2
<1>. HIDE DEF c, old
<1>7. n \in Sources /\ SetKind(m, i, q) = Shown(n)
  BY <1>1, <1>5, KindChanged
<1>8. n.flag = k.flag /\ n.links = k.links /\ n.params = k.params /\ n.kind = [k.kind EXCEPT ![i] = q]
  BY DEF WithKind
<1>9. OnItsOwn(n, i)
  BY <1>5, <1>8, SameLeaders DEF OnItsOwn
<1>10. Agreeing(n)
  BY <1>1, <1>8 DEF Agreeing
<1>. HIDE DEF n
<1>11. SetKind(Shown(n), i, old) = Shown(WithKind(n, i, old))
  BY <1>6, <1>7, <1>9, KindChanged
<1>12. WithKind(n, i, old) = k
  <2>1. k = [flag |-> k.flag, params |-> k.params, kind |-> k.kind, links |-> k.links]
        /\ k.kind \in [session.ifaces -> Kinds]
    BY DEF Sources, Owns
  <2>2. [n.kind EXCEPT ![i] = old] = k.kind
    BY <1>6, <1>8, <2>1
  <2>. QED  BY <1>8, <2>1, <2>2, Zenon DEF WithKind
<1>13. Made(m, c, Redo(m, c))
  BY <1>1, <1>3, <1>7, <1>10, <1>11, <1>12 DEF Made, Sound
<1>. QED  BY <1>4, <1>13 DEF c, old

LEMMA InheritMade ==
  ASSUME NEW m, Sound(m), NEW r \in Required, LinksOf(m, r) = {}
  PROVE  LET c == [kind |-> "inherit", i |-> r, new |-> ~m.flag[r], old |-> m.flag[r]]
         IN  Noting(m, c) = c /\ Made(m, c, Redo(m, c))
<1>. DEFINE old == m.flag[r]
            new == ~m.flag[r]
            c == [kind |-> "inherit", i |-> r, new |-> new, old |-> old]
<1>1. PICK k \in Sources : Agreeing(k) /\ m = Shown(k)
  BY DEF Sound
<1>2. old = k.flag[r] /\ old \in BOOLEAN /\ new \in BOOLEAN /\ m.links = k.links
  <2>1. m.flag = k.flag /\ m.links = k.links
    BY <1>1, ShownFields
  <2>2. k.flag[r] \in BOOLEAN
    BY DEF Sources, Owns
  <2>. QED  BY <2>1, <2>2
<1>3. Redo(m, c) = SetInheritPI(m, r, new) /\ \A n : Undo(n, c) = SetInheritPI(n, r, old)
  BY DEF Redo, Undo
<1>4. Noting(m, c) = c
  BY DEF Noting
<1>. HIDE DEF c, old, new
<1>. DEFINE n == WithFlag(k, r, new)
<1>5. \A d \in k.links : From(d) # r
  BY <1>2 DEF LinksOf
<1>7. n \in Sources /\ SetInheritPI(m, r, new) = Shown(n)
  BY <1>1, <1>2, <1>5, FlagChanged
<1>8. /\ n.flag = [k.flag EXCEPT ![r] = new] /\ n.links = k.links /\ n.params = k.params
      /\ n.kind = k.kind
  BY DEF WithFlag
<1>9. k = [flag |-> k.flag, params |-> k.params, kind |-> k.kind, links |-> k.links]
      /\ k.flag \in [Required -> BOOLEAN]
  BY DEF Sources, Owns
<1>10. Agreeing(n)
  BY <1>1, <1>5, <1>8, <1>9 DEF Agreeing
<1>. HIDE DEF n
<1>11. SetInheritPI(Shown(n), r, old) = Shown(WithFlag(n, r, old))
  BY <1>2, <1>5, <1>7, <1>8, FlagChanged
<1>12. WithFlag(n, r, old) = k
  <2>1. [n.flag EXCEPT ![r] = old] = k.flag
    BY <1>2, <1>8, <1>9
  <2>. QED  BY <1>8, <1>9, <2>1, Zenon DEF WithFlag
<1>13. Made(m, c, Redo(m, c))
  BY <1>1, <1>3, <1>7, <1>10, <1>11, <1>12 DEF Made, Sound
<1>. QED  BY <1>4, <1>13 DEF c, old, new

LEMMA RenameMade ==
  ASSUME NEW m, Sound(m), NEW p \in Provided
  PROVE  LET c == [kind |-> "rename", i |-> p]
         IN  Noting(m, c) = c /\ Made(m, c, Redo(m, c))
<1>. DEFINE c == [kind |-> "rename", i |-> p]
<1>1. Redo(m, c) = Rename(m, p) /\ \A n : Undo(n, c) = Rename(n, p)
  BY DEF Redo, Undo
<1>2. Noting(m, c) = c
  BY DEF Noting
<1>. HIDE DEF c
<1>3. Rename(m, p) = m
  BY RenamedShown DEF Sound
<1>4. Made(m, c, Redo(m, c))
  BY <1>1, <1>3 DEF Made
<1>. QED  BY <1>2, <1>4 DEF c

LEMMA ParamsMade ==
  ASSUME NEW m, Sound(m), NEW i \in session.ifaces, NEW q \in ParamLists,
         i \in RIs => m.protos[i] = {}
  PROVE  LET c == [kind |-> "params", i |-> i, new |-> q, old |-> m.params[i], parted |-> << >>]
         IN  Made(m, Noting(m, c), Redo(m, Noting(m, c)))
<1>. DEFINE old == m.params[i]
            C == Parted(SetParams(m, i, q), i)
            c == [kind |-> "params", i |-> i, new |-> q, old |-> old, parted |-> << >>]
            d == [kind |-> "params", i |-> i, new |-> q, old |-> old, parted |-> C]
<1>1. PICK k \in Sources : Agreeing(k) /\ m = Shown(k)
  BY DEF Sound
<1>2. Noting(m, c) = d
  <2>1. Noting(m, c) = [c EXCEPT !.parted = C]
    BY DEF Noting
  <2>. HIDE DEF C
  <2>. QED  BY <2>1
<1>3. /\ Redo(m, d) = RemoveLinks(SetParams(m, i, q), C)
      /\ \A n : Undo(n, d) = RestoreLinks(SetParams(n, i, old), C)
  <2>. HIDE DEF C
  <2>. QED  BY DEF Redo, Undo
<1>. DEFINE n == WithParams(k, i, q)
            P == {e \in LinksOf(Shown(n), i) : Shown(n).params[From(e)] # Shown(n).params[To(e)]}
            o == Without(n, Range(C))
<1>5. OnItsOwn(k, i)
  <2>1. i \in Required => i \in RIs
    BY DEF Required
  <2>2. i \in Required => m.protos[i] = IF Follows(k, i) THEN {Leader(k, i)} ELSE {}
    BY <1>1, ShownFields
  <2>. QED  BY <2>1, <2>2 DEF OnItsOwn
<1>6. old = k.params[i] /\ old \in ParamLists
  <2>1. m.params[i] = k.params[i]
    BY <1>1, <1>5, ShownFields
  <2>2. k.params[i] \in ParamLists
    BY DEF Sources, Owns
  <2>. QED  BY <2>1, <2>2
<1>7. n \in Sources /\ SetParams(m, i, q) = Shown(n)
  BY <1>1, <1>5, ParamsChanged
<1>8. n.flag = k.flag /\ n.links = k.links /\ n.kind = k.kind /\ n.params = [k.params EXCEPT ![i] = q]
  BY DEF WithParams
<1>4. C = SetToSeq(P)
  BY <1>7 DEF Parted
<1>. HIDE DEF c, d, n, old
<1>9. P \in SUBSET k.links
  <2>1. Shown(n).links = n.links
    BY DEF Shown
  <2>. QED  BY <1>8, <2>1 DEF LinksOf
<1>10. C \in Seq(n.links) /\ IsInjective(C) /\ Range(C) = P
  <2>1. IsFiniteSet(P)
    <3>1. IsFiniteSet(Required)
      <4>1. Required \in SUBSET (RIs \cup PIs)
        BY DEF Required
      <4>. QED  BY <4>1, InheritAssumption, FS_Subset
    <3>. DEFINE f == [e \in P |-> From(e)]
    <3>2. f \in Injection(P, Required)
      <4>1. k.links \in SUBSET Links /\ OnePerRI(k.links)
        BY DEF Sources, Owns
      <4>2. \A e \in P : From(e) \in Required /\ e \in k.links
        BY <1>9, <4>1, LinkEnds
      <4>. HIDE DEF P
      <4>3. f \in [P -> Required]
        BY <4>2
      <4>4. \A e, e2 \in P : f[e] = f[e2] => e = e2
        BY <4>1, <4>2 DEF OnePerRI
      <4>. QED  BY <4>3, <4>4 DEF Injection, IsInjective
    <3>. HIDE DEF P, f
    <3>. QED  BY <3>1, <3>2, FS_Injection
  <2>. HIDE DEF P, C
  <2>2. C \in Seq(P) /\ IsInjective(C) /\ Range(C) = P
    BY <1>4, <2>1, SetToSeqExact
  <2>. QED  BY <1>8, <1>9, <2>2
<1>11. \A e \in k.links : ~k.flag[From(e)] /\ e \notin P => n.params[From(e)] = n.params[To(e)]
  <2>. SUFFICES ASSUME NEW e \in k.links, ~k.flag[From(e)], e \notin P
                PROVE  n.params[From(e)] = n.params[To(e)]
    OBVIOUS
  <2>. DEFINE x == Shown(n)
  <2>1. e \in Links
    BY DEF Sources, Owns
  <2>2. From(e) \in Required /\ To(e) \in Provided /\ From(e) \in session.ifaces /\ To(e) \in session.ifaces
    BY <2>1, LinkEnds
  <2>3. x.params[From(e)] = n.params[From(e)] /\ x.params[To(e)] = n.params[To(e)] /\ x.links = n.links
    <3>. HIDE DEF x
    <3>1. x = Shown(n)
      BY DEF x
    <3>2. OnItsOwn(n, From(e)) /\ OnItsOwn(n, To(e))
      BY <1>7, <1>8, <2>2, <3>1, ShownFields
    <3>. QED  BY <1>7, <2>2, <3>1, <3>2, ShownFields
  <2>4. CASE i \in {From(e), To(e)}
    <3>1. e \in LinksOf(x, i)
      BY <1>8, <2>3, <2>4 DEF LinksOf
    <3>2. x.params[From(e)] = x.params[To(e)]
      BY <3>1
    <3>. QED  BY <2>3, <3>2
  <2>5. CASE i \notin {From(e), To(e)}
    <3>1. k.params[From(e)] = k.params[To(e)]
      BY <1>1 DEF Agreeing
    <3>. QED  BY <1>8, <2>5, <3>1
  <2>. QED  BY <2>4, <2>5
<1>. HIDE DEF C, P
<1>12. /\ RemoveLinks(Shown(n), C) = Shown(o) /\ o \in Sources
  BY <1>7, <1>10, LinksRemoved
<1>13. o.flag = k.flag /\ o.links = k.links \ Range(C) /\ o.kind = k.kind /\ o.params = n.params
  BY <1>8 DEF Without
<1>14. Agreeing(o)
  <2>. HIDE DEF o
  <2>. QED  BY <1>10, <1>11, <1>13 DEF Agreeing
<1>. HIDE DEF o
<1>15. SetParams(Shown(o), i, old) = Shown(WithParams(o, i, old))
  <2>1. OnItsOwn(o, i)
    BY <1>5, <1>13 DEF OnItsOwn, Follows
  <2>. QED  BY <1>6, <1>12, <2>1, ParamsChanged
<1>16. WithParams(o, i, old) = Without(k, Range(C))
  <2>1. k.params \in [session.ifaces -> ParamLists]
    BY DEF Sources, Owns
  <2>2. [o.params EXCEPT ![i] = old] = k.params
    BY <1>6, <1>8, <1>13, <2>1
  <2>. QED  BY <1>13, <2>2, Zenon DEF WithParams, Without
<1>17. RestoreLinks(Shown(Without(k, Range(C))), C) = Shown(k)
  BY <1>8, <1>10, LinksRestored
<1>18. Made(m, d, Redo(m, d))
  BY <1>1, <1>3, <1>7, <1>12, <1>14, <1>15, <1>16, <1>17 DEF Made, Sound
<1>19. Made(m, Noting(m, c), Redo(m, Noting(m, c)))
  BY <1>2, <1>18
<1>. QED  BY <1>19 DEF c, old

\* The models of a session, the oldest first, and the commands between them.
History(v, st, ix, ps) ==
  /\ \E S : st \in Seq(S)
  /\ \E S : ps \in Seq(S)
  /\ ix \in 0..Len(st) /\ Len(ps) = Len(st) + 1 /\ v = ps[ix + 1]
  /\ Sound(ps[1])
  /\ \A t \in 1..Len(st) : Made(ps[t], st[t], ps[t + 1])

SingleInv == session \in Sessions /\ (Single => History(view, stack, index, past))

LEMMA HistorySound ==
  ASSUME NEW v, NEW st, NEW ix, NEW ps, History(v, st, ix, ps)
  PROVE  Sound(v)
<1>1. CASE ix = 0
  BY <1>1 DEF History
<1>2. CASE ix # 0
  <2>1. Len(st) \in Nat /\ ix \in 1..Len(st)
    BY <1>2, LenProperties DEF History
  <2>2. Made(ps[ix], st[ix], ps[ix + 1]) /\ v = ps[ix + 1]
    BY <2>1 DEF History
  <2>. QED  BY <2>2 DEF Made
<1>. QED  BY <1>1, <1>2

LEMMA HistoryPushed ==
  ASSUME NEW v, NEW st, NEW ix, NEW ps, History(v, st, ix, ps), NEW c, NEW n, Made(v, c, n)
  PROVE  History(n, Append(SubSeq(st, 1, ix), c), ix + 1, Append(SubSeq(ps, 1, ix + 1), n))
<1>. DEFINE s2 == Append(SubSeq(st, 1, ix), c)
            p2 == Append(SubSeq(ps, 1, ix + 1), n)
<1>1. /\ Len(st) \in Nat /\ ix \in Nat /\ ix \in 0..Len(st) /\ ix + 1 \in 0..Len(ps)
      /\ \E S : st \in Seq(S)
      /\ \E S : ps \in Seq(S)
  BY LenProperties DEF History
<1>2. Extended(st, ix, c, s2) /\ Extended(ps, ix + 1, n, p2)
  BY <1>1, CutAndExtended
<1>. HIDE DEF s2, p2
<1>3. /\ Len(s2) = ix + 1 /\ Len(p2) = ix + 1 + 1
      /\ (\A t \in 1..ix : s2[t] = st[t]) /\ s2[ix + 1] = c
      /\ (\A t \in 1..(ix + 1) : p2[t] = ps[t]) /\ p2[ix + 1 + 1] = n
      /\ \E S : s2 \in Seq(S)
      /\ \E S : p2 \in Seq(S)
  BY <1>2 DEF Extended
<1>4. ASSUME NEW t \in 1..(ix + 1)  PROVE Made(p2[t], s2[t], p2[t + 1])
  <2>1. CASE t = ix + 1
    <3>1. p2[t] = v /\ s2[t] = c /\ p2[t + 1] = n
      BY <1>1, <1>3, <2>1 DEF History
    <3>. QED  BY <3>1
  <2>2. CASE t # ix + 1
    <3>1. t \in 1..ix /\ t \in 1..(ix + 1) /\ t + 1 \in 1..(ix + 1) /\ t \in 1..Len(st)
      BY <1>1, <2>2
    <3>2. p2[t] = ps[t] /\ s2[t] = st[t] /\ p2[t + 1] = ps[t + 1]
      BY <1>3, <3>1
    <3>. QED  BY <3>1, <3>2 DEF History
  <2>. QED  BY <2>1, <2>2
<1>5. p2[1] = ps[1]
  BY <1>1, <1>3
<1>. QED  BY <1>1, <1>3, <1>4, <1>5 DEF History, s2, p2

LEMMA HistoryBack ==
  ASSUME NEW v, NEW st, NEW ix, NEW ps, History(v, st, ix, ps), ix > 0
  PROVE  History(Undo(v, st[ix]), st, ix - 1, ps)
<1>1. Len(st) \in Nat /\ ix \in 1..Len(st) /\ ix - 1 \in 0..Len(st) /\ ix - 1 + 1 = ix
  BY LenProperties DEF History
<1>2. Undo(v, st[ix]) = ps[ix]
  BY <1>1 DEF History, Made
<1>. DEFINE u == Undo(v, st[ix])
            j == ix - 1
<1>3. j \in 0..Len(st) /\ u = ps[j + 1]
  BY <1>1, <1>2
<1>. HIDE DEF u, j
<1>4. History(u, st, j, ps)
  BY <1>3 DEF History
<1>. QED  BY <1>4 DEF u, j

LEMMA HistoryForth ==
  ASSUME NEW v, NEW st, NEW ix, NEW ps, History(v, st, ix, ps), ix < Len(st)
  PROVE  History(Redo(v, st[ix + 1]), st, ix + 1, ps)
<1>1. Len(st) \in Nat /\ ix \in 0..Len(st) /\ ix + 1 \in 1..Len(st) /\ ix + 1 \in 0..Len(st)
  BY LenProperties DEF History
<1>2. Redo(v, st[ix + 1]) = ps[ix + 1 + 1]
  BY <1>1 DEF History, Made
<1>. DEFINE u == Redo(v, st[ix + 1])
            j == ix + 1
<1>3. j \in 0..Len(st) /\ u = ps[j + 1]
  BY <1>1, <1>2
<1>. HIDE DEF u, j
<1>4. History(u, st, j, ps)
  BY <1>3 DEF History
<1>. QED  BY <1>4 DEF u, j

\* The session stays what it is, and so does all that is said of its interfaces.
LEMMA HistoryNext ==
  ASSUME session \in Sessions, UNCHANGED session, Single,
         History(view', stack', index', past')
  PROVE  SingleInv'
<1>1. Required' = Required /\ Provided' = Provided
  BY DEF Required, Provided
<1>2. Links' = Links
  BY <1>1 DEF Links
<1>3. Owns' = Owns
  BY <1>2, <1>1 DEF Owns, Kinds
<1>4. Sources' = Sources
  BY <1>3 DEF Sources, OnePerRI
<1>5. ASSUME NEW k  PROVE Shown(k)' = Shown(k)
  <2>1. ASSUME NEW i  PROVE Leader(k, i)' = Leader(k, i)
    BY <1>1 DEF Leader, Follows, LinkOf
  <2>2. ShownParams(k)' = ShownParams(k) /\ ShownKind(k)' = ShownKind(k)
    BY <2>1 DEF ShownParams, ShownKind
  <2>3. ShownProtos(k)' = ShownProtos(k)
    BY <1>1, <2>1 DEF ShownProtos, Follows
  <2>4. ShownAside(k)' = ShownAside(k)
    BY <1>1 DEF ShownAside, Follows
  <2>5. ShownListens(k)' = ShownListens(k)
    BY <1>1 DEF ShownListens, Follows, LinkOf
  <2>. QED  BY <2>2, <2>3, <2>4, <2>5 DEF Shown
<1>6. ASSUME NEW m  PROVE Sound(m)' <=> Sound(m)
  BY <1>4, <1>5 DEF Sound, Agreeing
<1>7. ASSUME NEW m, NEW c, NEW n  PROVE Made(m, c, n)' <=> Made(m, c, n)
  BY <1>6 DEF Made
<1>8. History(view, stack, index, past)'
  BY <1>6, <1>7 DEF History
<1>. QED  BY <1>8 DEF SingleInv

LEMMA PushMade ==
  ASSUME SingleInv, UNCHANGED session, Single, NEW c, Push(c),
         Made(view, Noting(view, c), Redo(view, Noting(view, c)))
  PROVE  SingleInv'
<1>. DEFINE d == Noting(view, c)
            n == Redo(view, d)
<1>1. History(view, stack, index, past) /\ session \in Sessions
  BY DEF SingleInv
<1>2. /\ view' = n /\ stack' = Append(SubSeq(stack, 1, index), d) /\ index' = index + 1
      /\ past' = Append(SubSeq(past, 1, index + 1), n)
  BY DEF Push
<1>3. Made(view, d, n)
  OBVIOUS
<1>. HIDE DEF d, n
<1>4. History(n, Append(SubSeq(stack, 1, index), d), index + 1, Append(SubSeq(past, 1, index + 1), n))
  BY <1>1, <1>3, HistoryPushed
<1>5. History(view', stack', index', past')
  BY <1>2, <1>4, Zenon
<1>. QED  BY <1>1, <1>5, HistoryNext

LEMMA SingleCommand ==
  ASSUME SingleInv, UNCHANGED session, Single, Commands(session.ifaces)
  PROVE  SingleInv'
<1>0. Sound(view) /\ session \in Sessions
  BY HistorySound DEF SingleInv
<1>1. ASSUME NEW r \in Required, NEW p \in Provided, NEW k \in 1..session.copies, Connect(r, p, k)
      PROVE  SingleInv'
  <2>. DEFINE c == [kind |-> "connect", c |-> <<r, p, k>>]
  <2>1. CanConnect(view, r, p) /\ LinksOf(view, r) = {} /\ Push(c)
    BY <1>1 DEF Connect, Single
  <2>2. Noting(view, c) = c /\ Made(view, c, Redo(view, c))
    BY <1>0, <2>1, ConnectMade
  <2>. HIDE DEF c
  <2>. QED  BY <2>1, <2>2, PushMade
<1>2. ASSUME NEW C \in BoundedSeq(view.links, 2), RemoveConnections(C)
      PROVE  SingleInv'
  <2>. DEFINE c == [kind |-> "remove", C |-> C]
  <2>1. C \in Seq(view.links)
    <3>1. PICK n \in 0..2 : C \in [1..n -> view.links]
      BY DEF BoundedSeq, SeqOf
    <3>. QED  BY <3>1, SeqDef
  <2>2. IsInjective(C) /\ Push(c)
    BY <1>2 DEF RemoveConnections
  <2>3. Noting(view, c) = c /\ Made(view, c, Redo(view, c))
    BY <1>0, <2>1, <2>2, RemoveMade
  <2>. HIDE DEF c
  <2>. QED  BY <2>2, <2>3, PushMade
<1>3. ASSUME NEW i \in session.ifaces, NEW q \in ParamLists, ChangeParams(i, q)
      PROVE  SingleInv'
  <2>. DEFINE c == [kind |-> "params", i |-> i, new |-> q, old |-> view.params[i], parted |-> << >>]
  <2>1. (i \in RIs => view.protos[i] = {}) /\ Push(c)
    BY <1>3 DEF ChangeParams, Own
  <2>2. Made(view, Noting(view, c), Redo(view, Noting(view, c)))
    BY <1>0, <2>1, ParamsMade
  <2>. HIDE DEF c
  <2>. QED  BY <2>1, <2>2, PushMade
<1>4. ASSUME NEW i \in session.ifaces, NEW q \in RIKinds \cup PIKinds, ChangeKind(i, q)
      PROVE  SingleInv'
  <2>. DEFINE c == [kind |-> "kind", i |-> i, new |-> q, old |-> view.kind[i]]
  <2>1. (i \in RIs => view.protos[i] = {}) /\ Push(c) /\ q \in Kinds
    BY <1>4 DEF ChangeKind, Own, Kinds
  <2>2. Noting(view, c) = c /\ Made(view, c, Redo(view, c))
    BY <1>0, <2>1, KindMade
  <2>. HIDE DEF c
  <2>. QED  BY <2>1, <2>2, PushMade
<1>5. ASSUME NEW r \in Required, ChangeInheritPI(r)
      PROVE  SingleInv'
  <2>. DEFINE c == [kind |-> "inherit", i |-> r, new |-> ~view.flag[r], old |-> view.flag[r]]
  <2>1. LinksOf(view, r) = {} /\ Push(c)
    BY <1>5 DEF ChangeInheritPI, Single
  <2>2. Noting(view, c) = c /\ Made(view, c, Redo(view, c))
    BY <1>0, <2>1, InheritMade
  <2>. HIDE DEF c
  <2>. QED  BY <2>1, <2>2, PushMade
<1>6. ASSUME NEW p \in Provided, RenamePI(p)
      PROVE  SingleInv'
  <2>. DEFINE c == [kind |-> "rename", i |-> p]
  <2>1. Push(c)
    BY <1>6 DEF RenamePI
  <2>2. Noting(view, c) = c /\ Made(view, c, Redo(view, c))
    BY <1>0, RenameMade
  <2>. HIDE DEF c
  <2>. QED  BY <2>1, <2>2, PushMade
<1>. QED  BY <1>1, <1>2, <1>3, <1>4, <1>5, <1>6 DEF Commands, Required, Provided

LEMMA SingleUndoRedo ==
  ASSUME SingleInv, UNCHANGED session, Single, UndoOne \/ RedoOne
  PROVE  SingleInv'
<1>1. History(view, stack, index, past) /\ session \in Sessions
  BY DEF SingleInv
<1>2. CASE UndoOne
  <2>1. History(Undo(view, stack[index]), stack, index - 1, past)
    BY <1>1, <1>2, HistoryBack DEF UndoOne
  <2>2. /\ view' = Undo(view, stack[index]) /\ index' = index - 1
        /\ stack' = stack /\ past' = past
    BY <1>2 DEF UndoOne
  <2>3. History(view', stack', index', past')
    BY <2>1, <2>2, Zenon
  <2>. QED  BY <1>1, <2>3, HistoryNext
<1>3. CASE RedoOne
  <2>1. History(Redo(view, stack[index + 1]), stack, index + 1, past)
    BY <1>1, <1>3, HistoryForth DEF RedoOne
  <2>2. /\ view' = Redo(view, stack[index + 1]) /\ index' = index + 1
        /\ stack' = stack /\ past' = past
    BY <1>3 DEF RedoOne
  <2>3. History(view', stack', index', past')
    BY <2>1, <2>2, Zenon
  <2>. QED  BY <1>1, <2>3, HistoryNext
<1>. QED  BY <1>2, <1>3

\* A loaded model shows what it has.
LEMMA StartSound ==
  ASSUME session \in Sessions, NEW m \in Start(session.ifaces)
  PROVE  Sound(m)
<1>1. PICK f \in [Required -> BOOLEAN], q \in [session.ifaces -> ParamLists] :
        m = [flag |-> f, params |-> q,
             kind |-> [i \in session.ifaces |-> IF i \in Required THEN "Any" ELSE "Sporadic"],
             protos |-> [r \in Required |-> {}], original |-> [r \in Required |-> Unset],
             hears |-> [r \in Required |-> {}],
             links |-> {}, listens |-> [r \in Required |-> << >>]]
  <2>1. PICK f \in [RIs \cap session.ifaces -> BOOLEAN], q \in [session.ifaces -> ParamLists] :
          m = Loaded(session.ifaces, f, q)
    BY DEF Start
  <2>. QED  BY <2>1 DEF Loaded, Required
<1>. DEFINE g == [i \in session.ifaces |-> IF i \in Required THEN "Any" ELSE "Sporadic"]
            k == [flag |-> f, params |-> q, kind |-> g, links |-> {}]
<1>2. "Any" \in Kinds /\ "Sporadic" \in Kinds
  BY InheritAssumption DEF Kinds
<1>3. g \in [session.ifaces -> Kinds]
  BY <1>2
<1>4. m = [flag |-> f, params |-> q, kind |-> g, protos |-> [r \in Required |-> {}],
           original |-> [r \in Required |-> Unset], hears |-> [r \in Required |-> {}],
           links |-> {}, listens |-> [r \in Required |-> << >>]]
  BY <1>1
<1>. HIDE DEF g
<1>5. k \in Sources /\ k.flag = f /\ k.params = q /\ k.kind = g /\ k.links = {}
  BY <1>3 DEF Sources, Owns, OnePerRI
<1>. HIDE DEF k
<1>6. \A r : ~Follows(k, r)
  BY <1>5 DEF Follows
<1>7. \A i : Leader(k, i) = i
  BY <1>6 DEF Leader
<1>8. ShownParams(k) = q /\ ShownKind(k) = g
  <2>1. q = [i \in session.ifaces |-> q[i]] /\ g = [i \in session.ifaces |-> g[i]]
    BY <1>3
  <2>. QED  BY <1>5, <1>7, <2>1 DEF ShownParams, ShownKind
<1>9. /\ ShownProtos(k) = [r \in Required |-> {}] /\ ShownAside(k) = [r \in Required |-> Unset]
      /\ ShownListens(k) = [r \in Required |-> << >>]
  BY <1>6 DEF ShownProtos, ShownAside, ShownListens
<1>10. m = Shown(k)
  BY <1>4, <1>5, <1>8, <1>9 DEF Shown
<1>. QED  BY <1>5, <1>10 DEF Sound, Agreeing

LEMMA SingleInvariant ==
  Spec => []SingleInv
<1>1. Init => SingleInv
  <2>. SUFFICES ASSUME Init, Single  PROVE History(view, stack, index, past) /\ session \in Sessions
    BY DEF Init, SingleInv
  <2>1. Sound(view) /\ session \in Sessions
    BY StartSound DEF Init
  <2>2. stack = << >> /\ index = 0 /\ past = <<view>>
    BY DEF Init
  <2>3. << >> \in Seq({}) /\ <<view>> \in Seq({view}) /\ Len(<< >>) = 0 /\ Len(<<view>>) = 1
        /\ <<view>>[1] = view
    OBVIOUS
  <2>4. History(view, << >>, 0, <<view>>)
    <3>. DEFINE st == << >>
                ps == <<view>>
    <3>1. /\ st \in Seq({}) /\ ps \in Seq({view}) /\ Len(st) = 0 /\ Len(ps) = 1 /\ ps[1] = view
      BY <2>3
    <3>. HIDE DEF st, ps
    <3>2. 0 \in 0..Len(st) /\ Len(ps) = Len(st) + 1 /\ view = ps[0 + 1] /\ 1..Len(st) = {}
      BY <3>1
    <3>3. Sound(ps[1])
      BY <2>1, <3>1
    <3>4. (\E S : st \in Seq(S)) /\ (\E S : ps \in Seq(S))
      BY <3>1
    <3>5. History(view, st, 0, ps)
      BY <3>2, <3>3, <3>4 DEF History
    <3>. QED  BY <3>5 DEF st, ps
  <2>. QED  BY <2>1, <2>2, <2>4
<1>2. SingleInv /\ [Next]_vars => SingleInv'
  <2>. SUFFICES ASSUME SingleInv, [Next]_vars  PROVE SingleInv'
    OBVIOUS
  <2>1. UNCHANGED session
    BY DEF Next, vars
  <2>2. CASE Single
    <3>1. CASE Next
      BY <2>1, <2>2, <3>1, SingleCommand, SingleUndoRedo DEF Next
    <3>2. CASE UNCHANGED vars
      <4>1. session \in Sessions /\ History(view', stack', index', past')
        BY <2>2, <3>2, Zenon DEF vars, SingleInv
      <4>. QED  BY <2>1, <2>2, <4>1, HistoryNext
    <3>. QED  BY <3>1, <3>2
  <2>3. CASE ~Single
    BY <2>1, <2>3 DEF SingleInv, Single
  <2>. QED  BY <2>2, <2>3
<1>. QED  BY <1>1, <1>2, PTL DEF Spec

\* Connecting, removing, editing, switching and renaming (CmdConnectionItemCreate,
\* CmdEntitiesRemove, CmdEntityAttributeChange and CmdIfaceParamChange), undone and redone
\* in any number and as often as one likes, bring back exactly the model there was: also
\* what the interfaces put aside, hear and listen to.
THEOREM InheritanceIsUndone ==
  Spec => []UndoRestores
<1>1. SingleInv => UndoRestores
  BY DEF SingleInv, History, UndoRestores
<1>. QED  BY <1>1, SingleInvariant, PTL

\* An RI with a prototype shows its data, whoever was edited, connected or renamed, and
\* hears no interface that is not its prototype any more.
THEOREM PrototypesAreFollowed ==
  Spec => []FollowsPrototype
<1>1. SingleInv => FollowsPrototype
  <2>. SUFFICES ASSUME SingleInv, Single, NEW r \in RIsOf(view)
                PROVE  /\ view.hears[r] = view.protos[r]
                       /\ \A p \in view.protos[r] : Data(view, r) = Data(view, p)
    BY DEF FollowsPrototype
  <2>1. Sound(view)
    BY HistorySound DEF SingleInv
  <2>2. PICK k \in Sources : view = Shown(k)
    BY <2>1 DEF Sound
  <2>3. r \in Required /\ r \in session.ifaces /\ view.hears[r] = view.protos[r]
        /\ view.protos[r] = IF Follows(k, r) THEN {Leader(k, r)} ELSE {}
    BY <2>2, ShownFields
  <2>4. ASSUME NEW p \in view.protos[r]  PROVE Data(view, r) = Data(view, p)
    <3>1. p = Leader(k, r) /\ Follows(k, r)
      BY <2>3, <2>4
    <3>2. p \in Provided /\ p \in session.ifaces
      <4>1. LinkOf(k, r) \in k.links /\ Leader(k, r) = To(LinkOf(k, r))
        BY <2>3, <3>1, Leaders
      <4>2. LinkOf(k, r) \in Links
        BY <4>1 DEF Sources, Owns
      <4>. QED  BY <3>1, <4>1, <4>2, LinkEnds
    <3>3. Leader(k, p) = p
      BY <3>2, Leaders
    <3>4. view.params = ShownParams(k) /\ view.kind = ShownKind(k)
      BY <2>2 DEF Shown
    <3>. QED  BY <2>3, <3>1, <3>2, <3>3, <3>4 DEF Data, ShownParams, ShownKind
  <2>. QED  BY <2>3, <2>4
<1>. QED  BY <1>1, SingleInvariant, PTL

\* No connection joins different parameters: those that would are removed with the change
\* (CmdIfaceParamBase), and those that inherit follow it.
THEOREM ConnectedParamsAgree ==
  Spec => []ParamsAgree
<1>1. SingleInv => ParamsAgree
  <2>. SUFFICES ASSUME SingleInv, Single, NEW c \in view.links
                PROVE  view.params[From(c)] = view.params[To(c)]
    BY DEF ParamsAgree
  <2>1. Sound(view)
    BY HistorySound DEF SingleInv
  <2>2. PICK k \in Sources : Agreeing(k) /\ view = Shown(k)
    BY <2>1 DEF Sound
  <2>3. c \in k.links /\ c \in Links
    BY <2>2, ShownFields
  <2>4. From(c) \in Required /\ To(c) \in Provided /\ From(c) \in session.ifaces /\ To(c) \in session.ifaces
    BY <2>3, LinkEnds
  <2>5. view.params = ShownParams(k)
    BY <2>2 DEF Shown
  <2>6. Leader(k, To(c)) = To(c)
    BY <2>4, Leaders
  <2>7. CASE k.flag[From(c)]
    <3>1. Leader(k, From(c)) = To(c)
      BY <2>3, <2>4, <2>7, Leaders
    <3>. QED  BY <2>4, <2>5, <2>6, <3>1 DEF ShownParams
  <2>8. CASE ~k.flag[From(c)]
    <3>1. Leader(k, From(c)) = From(c)
      BY <2>3, <2>4, <2>8, Leaders
    <3>2. k.params[From(c)] = k.params[To(c)]
      BY <2>2, <2>3, <2>8 DEF Agreeing
    <3>. QED  BY <2>4, <2>5, <2>6, <3>1, <3>2 DEF ShownParams
  <2>. QED  BY <2>7, <2>8
<1>. QED  BY <1>1, SingleInvariant, PTL
-------------------------------------------------------------------------------
(* Any session.  An RI's own data, shown or put aside, come through every      *)
(* handler; a prototype is what an RI is listening for.                        *)

\* Any number of connections, and InheritPI switched at any time.
Wide ==
  [flag : [Required -> BOOLEAN], params : [session.ifaces -> ParamLists],
   kind : [session.ifaces -> Kinds], protos : [Required -> SUBSET Provided],
   original : [Required -> PutAside], hears : [Required -> SUBSET Provided],
   links : SUBSET Links, listens : [Required -> Seq(Links)]]

\* What an RI has of its own, shown or put aside.
OwnData(m, r) == IF m.original[r] = Unset THEN Data(m, r) ELSE m.original[r].data

\* An RI's connections listen to it, and lead to each of its prototypes.
Backed(m, r) ==
  /\ \A c \in ListeningTo(m, r) : From(c) = r
  /\ \A p \in m.protos[r] : \E c \in ListeningTo(m, r) : To(c) = p

\* An RI has put its data aside while it has a prototype, and only then.
Settled(m, r) ==
  /\ m.protos[r] = {} => m.original[r] = Unset
  /\ m.protos[r] # {} => m.original[r] # Unset /\ m.flag[r]

Steady(m) == m \in Wide /\ \A r \in Required : Backed(m, r) /\ Settled(m, r)

\* n differs from m in what is r's, if at all.
Only(m, n, r) ==
  /\ n.links = m.links
  /\ \A q \in Required \ {r} :
       /\ n.flag[q] = m.flag[q] /\ n.protos[q] = m.protos[q] /\ n.hears[q] = m.hears[q]
       /\ n.original[q] = m.original[q] /\ n.listens[q] = m.listens[q]
  /\ \A i \in session.ifaces \ {r} : n.params[i] = m.params[i] /\ n.kind[i] = m.kind[i]

LEMMA OthersKept ==
  ASSUME NEW m, NEW n, NEW r, Only(m, n, r), NEW q \in Required \ {r}
  PROVE  /\ Backed(m, q) => Backed(n, q)
         /\ Settled(m, q) => Settled(n, q)
         /\ OwnData(n, q) = OwnData(m, q)
<1>1. q \in session.ifaces \ {r}
  BY DEF Required
<1>. QED  BY <1>1 DEF Only, Backed, Settled, OwnData, Data, ListeningTo

\* What SetPrototype does to an RI that inherits.
Adopted(m, n, r, p) ==
  /\ n \in Wide /\ Only(m, n, r)
  /\ n.flag = m.flag /\ n.listens = m.listens
  /\ n.protos[r] = m.protos[r] \cup {p}
  /\ n.original[r] # Unset
  /\ OwnData(n, r) = OwnData(m, r)

LEMMA SetPrototypeAdopts ==
  ASSUME NEW m \in Wide, NEW r \in Required, NEW p \in Provided, m.flag[r]
  PROVE  Adopted(m, SetPrototype(m, r, p), r, p)
<1>. DEFINE n == SetPrototype(m, r, p)
            o == IF m.original[r] = Unset THEN [data |-> Data(m, r), flag |-> m.flag[r]]
                 ELSE m.original[r]
<1>0. r \in session.ifaces /\ p \in session.ifaces
  BY DEF Required, Provided
<1>1. n = [m EXCEPT !.protos[r] = @ \cup {p}, !.original[r] = o, !.kind[r] = m.kind[p],
                    !.params[r] = m.params[p], !.hears[r] = @ \cup {p}]
  BY DEF SetPrototype, CloneInternals, Wide, Data
<1>2. o \in [data : ParamLists \X Kinds, flag : BOOLEAN] /\ o.data = OwnData(m, r)
  <2>1. Data(m, r) \in ParamLists \X Kinds /\ m.flag[r] \in BOOLEAN
    BY <1>0 DEF Data, Wide
  <2>2. CASE m.original[r] = Unset
    BY <2>1, <2>2 DEF OwnData
  <2>3. CASE m.original[r] # Unset
    <3>1. m.original[r] \in [data : ParamLists \X Kinds, flag : BOOLEAN]
      BY <2>3 DEF Wide, PutAside
    <3>. QED  BY <2>3, <3>1 DEF OwnData
  <2>. QED  BY <2>2, <2>3
<1>3. o # Unset
  BY <1>2, InheritAssumption DEF Kinds
<1>. HIDE DEF n, o
<1>4. n \in Wide
  <2>1. /\ m.protos[r] \cup {p} \in SUBSET Provided /\ m.hears[r] \cup {p} \in SUBSET Provided
        /\ m.kind[p] \in Kinds /\ m.params[p] \in ParamLists /\ o \in PutAside
    BY <1>0, <1>2 DEF Wide, PutAside
  <2>2. /\ [m.protos EXCEPT ![r] = m.protos[r] \cup {p}] \in [Required -> SUBSET Provided]
        /\ [m.hears EXCEPT ![r] = m.hears[r] \cup {p}] \in [Required -> SUBSET Provided]
        /\ [m.kind EXCEPT ![r] = m.kind[p]] \in [session.ifaces -> Kinds]
        /\ [m.params EXCEPT ![r] = m.params[p]] \in [session.ifaces -> ParamLists]
        /\ [m.original EXCEPT ![r] = o] \in [Required -> PutAside]
    BY <2>1 DEF Wide
  <2>. QED  BY <1>1, <2>2 DEF Wide
<1>5. Only(m, n, r)
  BY <1>0, <1>1 DEF Only, Wide
<1>6. n.original[r] = o /\ n.flag = m.flag /\ n.listens = m.listens
      /\ n.protos[r] = m.protos[r] \cup {p}
  BY <1>1 DEF Wide
<1>7. OwnData(n, r) = OwnData(m, r)
  BY <1>2, <1>3, <1>6 DEF OwnData
<1>. QED  BY <1>3, <1>4, <1>5, <1>6, <1>7 DEF Adopted, n

\* What UnsetPrototype does.
Dropped(m, n, r, p) ==
  /\ n \in Wide /\ Only(m, n, r)
  /\ n.listens = m.listens
  /\ n.protos[r] = m.protos[r] \ {p}
  /\ OwnData(n, r) = OwnData(m, r)
  /\ n.protos[r] = {} => n.original[r] = Unset
  /\ n.protos[r] # {} /\ m.flag[r] => n.original[r] = m.original[r] /\ n.flag[r] = m.flag[r]

LEMMA UnsetPrototypeDrops ==
  ASSUME NEW m \in Wide, NEW r \in Required, NEW p \in Provided
  PROVE  Dropped(m, UnsetPrototype(m, r, p), r, p)
<1>. DEFINE n == UnsetPrototype(m, r, p)
            a == [m EXCEPT !.protos[r] = @ \ {p}]
            b == [a EXCEPT !.hears[r] = @ \ {p}]
            o == m.original[r]
            d == [b EXCEPT !.params[r] = o.data[1], !.kind[r] = o.data[2],
                           !.flag[r] = o.flag, !.original[r] = Unset]
<1>0. r \in session.ifaces
  BY DEF Required
<1>1. /\ a \in Wide /\ Only(m, a, r) /\ a.listens = m.listens /\ a.protos[r] = m.protos[r] \ {p}
      /\ a.original = m.original /\ a.flag = m.flag /\ a.params = m.params /\ a.kind = m.kind
  BY DEF Wide, Only
<1>2. /\ b \in Wide /\ Only(m, b, r) /\ b.listens = m.listens /\ b.protos[r] = m.protos[r] \ {p}
      /\ b.original = m.original /\ b.flag = m.flag /\ b.params = m.params /\ b.kind = m.kind
  <2>. HIDE DEF a
  <2>. QED  BY <1>1 DEF Wide, Only
<1>3. n = IF a.protos[r] = {} \/ ~a.flag[r] THEN (IF o = Unset THEN b ELSE d) ELSE a
  <2>1. RestoreInternals(a, r, p) = IF a.original[r] = Unset THEN b
          ELSE [b EXCEPT !.params[r] = a.original[r].data[1], !.kind[r] = a.original[r].data[2],
                         !.flag[r] = a.original[r].flag, !.original[r] = Unset]
    BY Zenon DEF RestoreInternals
  <2>2. a.original[r] = o
    BY <1>1
  <2>3. n = IF a.protos[r] = {} \/ ~a.flag[r] THEN RestoreInternals(a, r, p) ELSE a
    BY Zenon DEF UnsetPrototype
  <2>. HIDE DEF a, b, o, n
  <2>4. RestoreInternals(a, r, p) = IF o = Unset THEN b ELSE d
    BY <2>1, <2>2
  <2>. HIDE DEF d
  <2>. QED  BY <2>3, <2>4
<1>4. o # Unset =>
        /\ d \in Wide /\ Only(m, d, r) /\ d.listens = m.listens /\ d.protos[r] = m.protos[r] \ {p}
        /\ d.original[r] = Unset /\ Data(d, r) = o.data
  <2>. SUFFICES ASSUME o # Unset
                PROVE  /\ d \in Wide /\ Only(m, d, r) /\ d.listens = m.listens
                       /\ d.protos[r] = m.protos[r] \ {p}
                       /\ d.original[r] = Unset /\ Data(d, r) = o.data
    OBVIOUS
  <2>1. o \in [data : ParamLists \X Kinds, flag : BOOLEAN]
    BY DEF Wide, PutAside
  <2>2. /\ o.data[1] \in ParamLists /\ o.data[2] \in Kinds /\ o.data = <<o.data[1], o.data[2]>>
        /\ o.flag \in BOOLEAN /\ Unset \in PutAside
    BY <2>1 DEF PutAside
  <2>. HIDE DEF a, b, o
  <2>3. /\ [b.kind EXCEPT ![r] = o.data[2]] \in [session.ifaces -> Kinds]
        /\ [b.params EXCEPT ![r] = o.data[1]] \in [session.ifaces -> ParamLists]
        /\ [b.original EXCEPT ![r] = Unset] \in [Required -> PutAside]
        /\ [b.flag EXCEPT ![r] = o.flag] \in [Required -> BOOLEAN]
    BY <1>2, <2>2 DEF Wide
  <2>4. /\ d.kind = [b.kind EXCEPT ![r] = o.data[2]] /\ d.params = [b.params EXCEPT ![r] = o.data[1]]
        /\ d.original = [b.original EXCEPT ![r] = Unset] /\ d.flag = [b.flag EXCEPT ![r] = o.flag]
        /\ d.links = b.links /\ d.protos = b.protos /\ d.hears = b.hears /\ d.listens = b.listens
    BY <1>2 DEF Wide
  <2>5. d \in Wide
    BY <1>2, <2>3 DEF Wide
  <2>. HIDE DEF d
  <2>6. Only(m, d, r)
    BY <1>2, <2>4 DEF Only, Wide
  <2>7. Data(d, r) = o.data
    BY <1>0, <1>2, <2>2, <2>4 DEF Data, Wide
  <2>. QED  BY <1>2, <2>4, <2>5, <2>6, <2>7 DEF Wide
<1>5. m.original[r] = o
  OBVIOUS
<1>. HIDE DEF n, a, b, d, o
<1>6. CASE a.protos[r] = {} \/ ~a.flag[r]
  <2>1. CASE o = Unset
    <3>1. n = b
      BY <1>3, <1>6, <2>1
    <3>2. OwnData(b, r) = OwnData(m, r)
      BY <1>2 DEF OwnData, Data
    <3>. QED  BY <1>1, <1>2, <1>5, <1>6, <2>1, <3>1, <3>2 DEF Dropped, n
  <2>2. CASE o # Unset
    <3>1. n = d
      BY <1>3, <1>6, <2>2
    <3>2. OwnData(d, r) = OwnData(m, r)
      BY <1>4, <1>5, <2>2 DEF OwnData
    <3>3. ~(d.protos[r] # {} /\ m.flag[r])
      BY <1>1, <1>4, <1>6, <2>2
    <3>. QED  BY <1>4, <2>2, <3>1, <3>2, <3>3 DEF Dropped, n
  <2>. QED  BY <2>1, <2>2
<1>7. CASE ~(a.protos[r] = {} \/ ~a.flag[r])
  <2>1. n = a
    BY <1>3, <1>7
  <2>2. OwnData(a, r) = OwnData(m, r)
    BY <1>1 DEF OwnData, Data
  <2>. QED  BY <1>1, <1>7, <2>1, <2>2 DEF Dropped, n
<1>. QED  BY <1>6, <1>7

\* With one connection told to inherit, an RI that inherits adopts what it leads to.
Joined(m, n, c) ==
  /\ n \in Wide /\ Only(m, n, From(c)) /\ n.flag = m.flag
  /\ n.protos[From(c)] = m.protos[From(c)] \cup {To(c)}
  /\ n.original[From(c)] # Unset
  /\ ListeningTo(n, From(c)) = ListeningTo(m, From(c)) \cup {c}
  /\ OwnData(n, From(c)) = OwnData(m, From(c))

LEMMA InheritJoins ==
  ASSUME NEW m \in Wide, NEW c \in Links, m.flag[From(c)]
  PROVE  Joined(m, Inherit(m, c), c)
<1>. DEFINE r == From(c)
            p == To(c)
            a == SetPrototype(m, r, p)
            l == IF c \in Range(m.listens[r]) THEN m.listens[r] ELSE Append(m.listens[r], c)
            n == Inherit(m, c)
<1>0. r \in Required /\ p \in Provided
  BY LinkEnds
<1>1. Adopted(m, a, r, p)
  BY <1>0, SetPrototypeAdopts
<1>2. n = [a EXCEPT !.listens[r] = l]
  BY <1>1 DEF Inherit, Concerned, Adopted
<1>3. m.listens[r] \in Seq(Links)
  BY <1>0 DEF Wide
<1>4. l \in Seq(Links) /\ Range(l) = Range(m.listens[r]) \cup {c}
  BY <1>3, AppendListProperties
<1>5. From(c) = r /\ To(c) = p
  OBVIOUS
<1>. HIDE DEF a, l, n, r, p
<1>6. /\ n.flag = a.flag /\ n.params = a.params /\ n.kind = a.kind /\ n.protos = a.protos
      /\ n.original = a.original /\ n.hears = a.hears /\ n.links = a.links
      /\ n.listens = [a.listens EXCEPT ![r] = l]
  BY <1>1, <1>2 DEF Adopted, Wide
<1>7. n \in Wide
  <2>1. [a.listens EXCEPT ![r] = l] \in [Required -> Seq(Links)]
    BY <1>1, <1>4 DEF Adopted, Wide
  <2>. QED  BY <1>1, <1>2, <2>1 DEF Adopted, Wide
<1>8. Only(m, n, r)
  BY <1>1, <1>6 DEF Adopted, Only, Wide
<1>9. ListeningTo(n, r) = ListeningTo(m, r) \cup {c}
  BY <1>0, <1>1, <1>4, <1>6 DEF ListeningTo, Adopted, Wide
<1>10. OwnData(n, r) = OwnData(m, r)
  BY <1>1, <1>6 DEF Adopted, OwnData, Data
<1>. QED  BY <1>1, <1>5, <1>6, <1>7, <1>8, <1>9, <1>10 DEF Adopted, Joined, n

\* With one told not to: r listens to it no longer and what it led to is no prototype.
Parting(m, n, c) ==
  /\ n \in Wide /\ Only(m, n, From(c))
  /\ n.protos[From(c)] = m.protos[From(c)] \ {To(c)}
  /\ ListeningTo(n, From(c)) \subseteq ListeningTo(m, From(c))
  /\ \A d \in ListeningTo(m, From(c)) : d # c => d \in ListeningTo(n, From(c))
  /\ OwnData(n, From(c)) = OwnData(m, From(c))
  /\ (m.protos[From(c)] = {} => m.original[From(c)] = Unset)
       => (n.protos[From(c)] = {} => n.original[From(c)] = Unset)
  /\ n.protos[From(c)] # {} /\ m.flag[From(c)]
       => n.original[From(c)] = m.original[From(c)] /\ n.flag[From(c)] = m.flag[From(c)]

LEMMA NotInheritParts ==
  ASSUME NEW m \in Wide, NEW c \in Links
  PROVE  Parting(m, NotInherit(m, c), c)
<1>. DEFINE r == From(c)
            p == To(c)
            l == RemoveAll(m.listens[r], c)
            b == [m EXCEPT !.listens[r] = RemoveAll(@, c)]
            n == NotInherit(m, c)
<1>0. r \in Required /\ p \in Provided
  BY LinkEnds
<1>1. CASE ~Concerned(m, c)
  <2>1. n = m /\ m.protos[r] = {}
    BY <1>1 DEF NotInherit, Concerned
  <2>2. m.protos[r] \ {p} = {}
    BY <2>1
  <2>. QED  BY <2>1, <2>2 DEF Parting, Only
<1>2. CASE Concerned(m, c)
  <2>1. m.listens[r] \in Seq(Links)
    BY <1>0 DEF Wide
  <2>2. l \in Seq(Links) /\ Range(l) = Range(m.listens[r]) \ {c}
    BY <2>1, RemoveAllElements
  <2>3. /\ b.flag = m.flag /\ b.params = m.params /\ b.kind = m.kind /\ b.protos = m.protos
        /\ b.original = m.original /\ b.hears = m.hears /\ b.links = m.links
        /\ b.listens = [m.listens EXCEPT ![r] = l]
    BY <1>0 DEF Wide
  <2>4. n = UnsetPrototype(b, r, p)
    BY <1>2 DEF NotInherit
  <2>5. b \in Wide
    <3>1. [m.listens EXCEPT ![r] = l] \in [Required -> Seq(Links)]
      BY <1>0, <2>2 DEF Wide
    <3>. QED  BY <3>1 DEF Wide
  <2>6. From(c) = r /\ To(c) = p
    OBVIOUS
  <2>. HIDE DEF l, b, n, r, p
  <2>7. Dropped(b, n, r, p)
    BY <1>0, <2>4, <2>5, UnsetPrototypeDrops
  <2>8. Only(m, n, r)
    BY <2>3, <2>7 DEF Dropped, Only, Wide
  <2>9. ListeningTo(n, r) = Range(m.listens[r]) \ {c}
    BY <1>0, <2>2, <2>3, <2>7 DEF Dropped, ListeningTo, Wide
  <2>10. OwnData(n, r) = OwnData(m, r)
    BY <2>3, <2>7 DEF Dropped, OwnData, Data
  <2>11. /\ n.protos[r] = m.protos[r] \ {p}
         /\ n.protos[r] = {} => n.original[r] = Unset
         /\ n.protos[r] # {} /\ m.flag[r] => n.original[r] = m.original[r] /\ n.flag[r] = m.flag[r]
    BY <2>3, <2>7 DEF Dropped
  <2>12. n \in Wide
    BY <2>7 DEF Dropped
  <2>13. /\ ListeningTo(n, r) \subseteq ListeningTo(m, r)
         /\ \A d \in ListeningTo(m, r) : d # c => d \in ListeningTo(n, r)
    BY <2>9 DEF ListeningTo
  <2>. QED  BY <2>6, <2>8, <2>10, <2>11, <2>12, <2>13 DEF Parting, n
<1>. QED  BY <1>1, <1>2

\* n is as steady as m and no RI's own data differ.
Calm(m, n) ==
  Steady(n) /\ \A q \in Required : OwnData(n, q) = OwnData(m, q)

LEMMA CalmTwice ==
  ASSUME NEW m, NEW x, NEW n, Calm(m, x), Calm(x, n)
  PROVE  Calm(m, n)
  BY DEF Calm

\* The connections of a model do not matter here.
LEMMA LinksCalm ==
  ASSUME NEW m, Steady(m), NEW K \in SUBSET Links
  PROVE  Calm(m, [m EXCEPT !.links = K])
<1>. DEFINE n == [m EXCEPT !.links = K]
<1>1. /\ n \in Wide /\ n.flag = m.flag /\ n.protos = m.protos /\ n.original = m.original
      /\ n.listens = m.listens /\ n.params = m.params /\ n.kind = m.kind
  BY DEF Steady, Wide
<1>. HIDE DEF n
<1>2. Calm(m, n)
  BY <1>1 DEF Calm, Steady, Backed, Settled, ListeningTo, OwnData, Data
<1>. QED  BY <1>2 DEF n

LEMMA InheritCalm ==
  ASSUME NEW m, Steady(m), NEW c \in Links
  PROVE  /\ Calm(m, Inherit(m, c))
         /\ \A q \in Required : m.protos[q] \subseteq Inherit(m, c).protos[q]
         /\ Only(m, Inherit(m, c), From(c))
         /\ Inherit(m, c).flag = m.flag
<1>. DEFINE n == Inherit(m, c)
            r == From(c)
<1>0. r \in Required /\ m \in Wide
  BY LinkEnds DEF Steady
<1>1. CASE ~m.flag[r]
  <2>1. m.protos[r] = {}
    BY <1>0, <1>1 DEF Steady, Settled
  <2>2. n = m
    BY <1>1, <2>1 DEF Inherit, Concerned
  <2>. QED  BY <2>2 DEF Calm, Only
<1>2. CASE m.flag[r]
  <2>1. Joined(m, n, c)
    BY <1>0, <1>2, InheritJoins
  <2>2. /\ n \in Wide /\ Only(m, n, r) /\ n.flag = m.flag
        /\ n.protos[r] = m.protos[r] \cup {To(c)} /\ n.original[r] # Unset
        /\ ListeningTo(n, r) = ListeningTo(m, r) \cup {c}
        /\ OwnData(n, r) = OwnData(m, r)
    BY <2>1 DEF Joined
  <2>. HIDE DEF n
  <2>3. Backed(n, r) /\ Settled(n, r)
    BY <1>0, <1>2, <2>2 DEF Steady, Backed, Settled
  <2>4. \A q \in Required : Backed(n, q) /\ Settled(n, q) /\ OwnData(n, q) = OwnData(m, q)
    BY <2>2, <2>3, OthersKept DEF Steady
  <2>5. \A q \in Required : m.protos[q] \subseteq n.protos[q]
    BY <2>2 DEF Only
  <2>. QED  BY <2>2, <2>4, <2>5 DEF Calm, Steady, n
<1>. QED  BY <1>1, <1>2

LEMMA NotInheritCalm ==
  ASSUME NEW m, Steady(m), NEW c \in Links
  PROVE  Calm(m, NotInherit(m, c))
<1>. DEFINE n == NotInherit(m, c)
            r == From(c)
<1>0. r \in Required /\ m \in Wide /\ Backed(m, r) /\ Settled(m, r)
  BY LinkEnds DEF Steady
<1>1. Parting(m, n, c)
  BY <1>0, NotInheritParts
<1>. HIDE DEF n
<1>2. /\ n \in Wide /\ Only(m, n, r)
      /\ n.protos[r] = m.protos[r] \ {To(c)}
      /\ ListeningTo(n, r) \subseteq ListeningTo(m, r)
      /\ \A d \in ListeningTo(m, r) : d # c => d \in ListeningTo(n, r)
      /\ OwnData(n, r) = OwnData(m, r)
      /\ (m.protos[r] = {} => m.original[r] = Unset) => (n.protos[r] = {} => n.original[r] = Unset)
      /\ n.protos[r] # {} /\ m.flag[r] => n.original[r] = m.original[r] /\ n.flag[r] = m.flag[r]
  BY <1>1 DEF Parting
<1>3. Backed(n, r) /\ Settled(n, r)
  BY <1>0, <1>2 DEF Backed, Settled
<1>4. \A q \in Required : Backed(n, q) /\ Settled(n, q) /\ OwnData(n, q) = OwnData(m, q)
  BY <1>2, <1>3, OthersKept DEF Steady
<1>. QED  BY <1>2, <1>4 DEF Calm, Steady, n

LEMMA OneLinkCalm ==
  ASSUME NEW m, Steady(m), NEW c \in Links
  PROVE  Calm(m, AddLink(m, c)) /\ Calm(m, RemoveLink(m, c)) /\ Calm(m, RestoreLink(m, c))
<1>1. ASSUME NEW x, Steady(x)  PROVE Calm(x, AddLink(x, c))
  <2>. DEFINE a == [x EXCEPT !.links = @ \cup {c}]
              K == x.links \cup {c}
  <2>1. K \in SUBSET Links /\ a = [x EXCEPT !.links = K]
    BY <1>1 DEF Steady, Wide
  <2>. HIDE DEF a, K
  <2>2. Calm(x, a)
    BY <1>1, <2>1, LinksCalm
  <2>3. Calm(a, Inherit(a, c))
    BY <2>2, InheritCalm DEF Calm
  <2>4. Calm(x, Inherit(a, c))
    BY <2>2, <2>3, CalmTwice
  <2>. QED  BY <2>4 DEF AddLink, a
<1>2. Calm(m, AddLink(m, c))
  BY <1>1
<1>3. Calm(m, RemoveLink(m, c))
  <2>. DEFINE a == NotInherit(m, c)
              K == a.links \ {c}
  <2>1. Calm(m, a)
    BY NotInheritCalm
  <2>2. K \in SUBSET Links
    BY <2>1 DEF Calm, Steady, Wide
  <2>3. RemoveLink(m, c) = [a EXCEPT !.links = K]
    BY <2>1 DEF RemoveLink, Calm, Steady, Wide
  <2>. HIDE DEF a, K
  <2>4. Calm(a, [a EXCEPT !.links = K])
    BY <2>1, <2>2, LinksCalm DEF Calm
  <2>. QED  BY <2>1, <2>3, <2>4, CalmTwice
<1>4. Calm(m, RestoreLink(m, c))
  <2>. DEFINE b == Inherit(m, c)
  <2>1. Calm(m, b)
    BY InheritCalm
  <2>2. RestoreLink(m, c) = AddLink(b, c)
    BY DEF RestoreLink
  <2>. HIDE DEF b
  <2>3. Calm(b, AddLink(b, c))
    BY <1>1, <2>1 DEF Calm
  <2>. QED  BY <2>1, <2>2, <2>3, CalmTwice
<1>. QED  BY <1>2, <1>3, <1>4

CalmFrom(m) == {x \in Wide : Calm(m, x)}

LEMMA RemoveLinksCalm ==
  ASSUME NEW m, Steady(m), NEW C \in Seq(Links)
  PROVE  Calm(m, RemoveLinks(m, C))
<1>. DEFINE N == Len(C)
            Rec(f) == f = [k \in 0..N |-> IF k = 0 THEN m ELSE RemoveLink(f[k - 1], C[k])]
            after == CHOOSE f : Rec(f)
            T == CalmFrom(m)
            step == [k \in 1..N |-> [x \in T |-> RemoveLink(x, C[k])]]
            S == [k \in 0..N |-> T]
<1>1. N \in Nat /\ \A k \in 1..N : C[k] \in Links /\ k \in 0..N /\ k - 1 \in 0..N /\ k # 0
  <2>1. \A k \in 1..N : N - k + 1 \in 1..N
    OBVIOUS
  <2>. QED  BY <2>1
<1>2. RemoveLinks(m, C) = after[N]
  BY DEF RemoveLinks
<1>. HIDE DEF N
<1>3. \A k \in 1..N : \A x \in T : RemoveLink(x, C[k]) \in T
  <2>1. \A c \in Links : \A x \in T : RemoveLink(x, c) \in T
    BY OneLinkCalm, CalmTwice DEF CalmFrom, Calm, Steady
  <2>. QED  BY <1>1, <2>1
<1>4. m \in T
  BY DEF CalmFrom, Calm, Steady
<1>. HIDE DEF T
<1>15. \A k \in 0..N : S[k] = T
  OBVIOUS
<1>16. \A k \in 1..N : \A x \in T : step[k][x] = RemoveLink(x, C[k])
  OBVIOUS
<1>. HIDE DEF S, step
<1>5. PICK w : RecursionOf(w, m, step, N) /\ \A k \in 0..N : w[k] \in S[k]
  <2>1. m \in S[0]
    BY <1>1, <1>4, <1>15
  <2>2. ASSUME NEW k \in 1..N, NEW x \in S[k - 1]  PROVE step[k][x] \in S[k]
    <3>1. k \in 0..N /\ k - 1 \in 0..N
      BY <1>1
    <3>2. x \in T /\ S[k] = T
      BY <1>15, <3>1
    <3>3. step[k][x] \in T
      BY <1>1, <1>3, <1>16, <3>1, <3>2
    <3>. QED  BY <3>2, <3>3
  <2>. QED  BY <1>1, <2>1, <2>2, RecursionStays
<1>6. Rec(w)
  <2>1. \A k \in 1..N : step[k][w[k - 1]] = RemoveLink(w[k - 1], C[k])
    BY <1>1, <1>5, <1>15, <1>16
  <2>2. w = [k \in 0..N |-> IF k = 0 THEN m ELSE step[k][w[k - 1]]]
    BY <1>5 DEF RecursionOf
  <2>3. \A k \in 0..N : k # 0 => k \in 1..N
    OBVIOUS
  <2>4. \A k \in 0..N : (IF k = 0 THEN m ELSE step[k][w[k - 1]])
                          = (IF k = 0 THEN m ELSE RemoveLink(w[k - 1], C[k]))
    BY <2>1, <2>3, Zenon
  <2>. QED  BY <2>2, <2>4
<1>7. Rec(after)
  BY <1>6, Zenon
<1>. HIDE DEF after
<1>8. after[0] = m
  BY <1>1, <1>7
<1>9. \A k \in 1..N : after[k] = RemoveLink(after[k - 1], C[k])
  BY <1>1, <1>7, Zenon
<1>10. after[N] \in S[N]
  <2>1. after[0] \in S[0] /\ N \in 0..N
    BY <1>1, <1>4, <1>8, <1>15
  <2>2. ASSUME NEW k \in 1..N, after[k - 1] \in S[k - 1]  PROVE after[k] \in S[k]
    <3>1. after[k - 1] \in T /\ S[k] = T
      BY <1>1, <1>15, <2>2
    <3>. QED  BY <1>1, <1>3, <1>9, <3>1
  <2>. QED  BY <1>1, <2>1, <2>2, Carried
<1>11. after[N] \in T
  BY <1>1, <1>10, <1>15
<1>. QED  BY <1>2, <1>11 DEF CalmFrom, T

LEMMA RestoreLinksCalm ==
  ASSUME NEW m, Steady(m), NEW C \in Seq(Links)
  PROVE  Calm(m, RestoreLinks(m, C))
<1>. DEFINE N == Len(C)
            Rec(f) == f = [k \in 0..N |-> IF k = 0 THEN m ELSE RestoreLink(f[k - 1], C[N - k + 1])]
            after == CHOOSE f : Rec(f)
            T == CalmFrom(m)
            step == [k \in 1..N |-> [x \in T |-> RestoreLink(x, C[N - k + 1])]]
            S == [k \in 0..N |-> T]
<1>1. N \in Nat /\ \A k \in 1..N : C[N - k + 1] \in Links /\ k \in 0..N /\ k - 1 \in 0..N /\ k # 0
  <2>1. \A k \in 1..N : N - k + 1 \in 1..N
    OBVIOUS
  <2>. QED  BY <2>1
<1>2. RestoreLinks(m, C) = after[N]
  BY DEF RestoreLinks
<1>. HIDE DEF N
<1>3. \A k \in 1..N : \A x \in T : RestoreLink(x, C[N - k + 1]) \in T
  <2>1. \A c \in Links : \A x \in T : RestoreLink(x, c) \in T
    BY OneLinkCalm, CalmTwice DEF CalmFrom, Calm, Steady
  <2>. QED  BY <1>1, <2>1
<1>4. m \in T
  BY DEF CalmFrom, Calm, Steady
<1>. HIDE DEF T
<1>15. \A k \in 0..N : S[k] = T
  OBVIOUS
<1>16. \A k \in 1..N : \A x \in T : step[k][x] = RestoreLink(x, C[N - k + 1])
  OBVIOUS
<1>. HIDE DEF S, step
<1>5. PICK w : RecursionOf(w, m, step, N) /\ \A k \in 0..N : w[k] \in S[k]
  <2>1. m \in S[0]
    BY <1>1, <1>4, <1>15
  <2>2. ASSUME NEW k \in 1..N, NEW x \in S[k - 1]  PROVE step[k][x] \in S[k]
    <3>1. k \in 0..N /\ k - 1 \in 0..N
      BY <1>1
    <3>2. x \in T /\ S[k] = T
      BY <1>15, <3>1
    <3>3. step[k][x] \in T
      BY <1>1, <1>3, <1>16, <3>1, <3>2
    <3>. QED  BY <3>2, <3>3
  <2>. QED  BY <1>1, <2>1, <2>2, RecursionStays
<1>6. Rec(w)
  <2>1. \A k \in 1..N : step[k][w[k - 1]] = RestoreLink(w[k - 1], C[N - k + 1])
    BY <1>1, <1>5, <1>15, <1>16
  <2>2. w = [k \in 0..N |-> IF k = 0 THEN m ELSE step[k][w[k - 1]]]
    BY <1>5 DEF RecursionOf
  <2>3. \A k \in 0..N : k # 0 => k \in 1..N
    OBVIOUS
  <2>4. \A k \in 0..N : (IF k = 0 THEN m ELSE step[k][w[k - 1]])
                          = (IF k = 0 THEN m ELSE RestoreLink(w[k - 1], C[N - k + 1]))
    BY <2>1, <2>3, Zenon
  <2>. QED  BY <2>2, <2>4
<1>7. Rec(after)
  BY <1>6, Zenon
<1>. HIDE DEF after
<1>8. after[0] = m
  BY <1>1, <1>7
<1>9. \A k \in 1..N : after[k] = RestoreLink(after[k - 1], C[N - k + 1])
  BY <1>1, <1>7, Zenon
<1>10. after[N] \in S[N]
  <2>1. after[0] \in S[0] /\ N \in 0..N
    BY <1>1, <1>4, <1>8, <1>15
  <2>2. ASSUME NEW k \in 1..N, after[k - 1] \in S[k - 1]  PROVE after[k] \in S[k]
    <3>1. after[k - 1] \in T /\ S[k] = T
      BY <1>1, <1>15, <2>2
    <3>. QED  BY <1>1, <1>3, <1>9, <3>1
  <2>. QED  BY <1>1, <2>1, <2>2, Carried
<1>11. after[N] \in T
  BY <1>1, <1>10, <1>15
<1>. QED  BY <1>2, <1>11 DEF CalmFrom, T

\* What an RI that inherits, or one that is told so, takes over is only shown.
LEMMA NotifyOnCalm ==
  ASSUME NEW m, Steady(m), NEW r \in Required
  PROVE  /\ Calm(m, Notify(m, r, TRUE))
         /\ \A q \in Required : m.protos[q] \subseteq Notify(m, r, TRUE).protos[q]
         /\ Only(m, Notify(m, r, TRUE), r)
<1>. DEFINE L == m.listens[r]
            N == Len(L)
            Rec(f) == f = [k \in 0..N |-> IF k = 0 THEN m ELSE HandleInheritPI(f[k - 1], L[k], TRUE)]
            after == CHOOSE f : Rec(f)
            T == {x \in CalmFrom(m) : /\ Only(m, x, r)
                                       /\ \A q \in Required : m.protos[q] \subseteq x.protos[q]}
            step == [k \in 1..N |-> [x \in T |-> HandleInheritPI(x, L[k], TRUE)]]
            S == [k \in 0..N |-> T]
<1>0. L \in Seq(Links)
  BY DEF Steady, Wide
<1>1. N \in Nat /\ \A k \in 1..N : /\ L[k] \in Links /\ From(L[k]) = r
                                   /\ k \in 0..N /\ k - 1 \in 0..N /\ k # 0
  <2>1. \A k \in 1..N : L[k] \in Range(L)
    BY <1>0 DEF Range
  <2>2. \A d \in Range(L) : From(d) = r
    BY DEF Steady, Backed, ListeningTo
  <2>. HIDE DEF L
  <2>. QED  BY <1>0, <2>1, <2>2
<1>2. Notify(m, r, TRUE) = after[N]
  BY DEF Notify
<1>. HIDE DEF L, N
<1>3. \A k \in 1..N : \A x \in T : HandleInheritPI(x, L[k], TRUE) \in T
  <2>. SUFFICES ASSUME NEW k \in 1..N, NEW x \in T
                PROVE  HandleInheritPI(x, L[k], TRUE) \in T
    OBVIOUS
  <2>. DEFINE y == Inherit(x, L[k])
  <2>1. HandleInheritPI(x, L[k], TRUE) = y
    BY DEF HandleInheritPI
  <2>2. /\ Calm(x, y)
        /\ \A q \in Required : x.protos[q] \subseteq y.protos[q]
        /\ Only(x, y, r)
    BY <1>1, InheritCalm DEF CalmFrom, Calm
  <2>. HIDE DEF y
  <2>3. y \in CalmFrom(m)
    BY <2>2, CalmTwice DEF CalmFrom, Calm, Steady
  <2>4. Only(m, y, r)
    BY <2>2 DEF Only
  <2>5. \A q \in Required : m.protos[q] \subseteq y.protos[q]
    BY <2>2
  <2>. QED  BY <2>1, <2>3, <2>4, <2>5
<1>4. m \in T
  BY DEF CalmFrom, Calm, Steady, Only
<1>. HIDE DEF T
<1>15. \A k \in 0..N : S[k] = T
  OBVIOUS
<1>16. \A k \in 1..N : \A x \in T : step[k][x] = HandleInheritPI(x, L[k], TRUE)
  OBVIOUS
<1>. HIDE DEF S, step
<1>5. PICK w : RecursionOf(w, m, step, N) /\ \A k \in 0..N : w[k] \in S[k]
  <2>1. m \in S[0]
    BY <1>1, <1>4, <1>15
  <2>2. ASSUME NEW k \in 1..N, NEW x \in S[k - 1]  PROVE step[k][x] \in S[k]
    <3>1. k \in 0..N /\ k - 1 \in 0..N
      BY <1>1
    <3>2. x \in T /\ S[k] = T
      BY <1>15, <3>1
    <3>3. step[k][x] \in T
      BY <1>1, <1>3, <1>16, <3>1, <3>2
    <3>. QED  BY <3>2, <3>3
  <2>. QED  BY <1>1, <2>1, <2>2, RecursionStays
<1>6. Rec(w)
  <2>1. \A k \in 1..N : step[k][w[k - 1]] = HandleInheritPI(w[k - 1], L[k], TRUE)
    BY <1>1, <1>5, <1>15, <1>16
  <2>2. w = [k \in 0..N |-> IF k = 0 THEN m ELSE step[k][w[k - 1]]]
    BY <1>5 DEF RecursionOf
  <2>3. \A k \in 0..N : k # 0 => k \in 1..N
    OBVIOUS
  <2>4. \A k \in 0..N : (IF k = 0 THEN m ELSE step[k][w[k - 1]])
                          = (IF k = 0 THEN m ELSE HandleInheritPI(w[k - 1], L[k], TRUE))
    BY <2>1, <2>3, Zenon
  <2>. QED  BY <2>2, <2>4
<1>7. Rec(after)
  BY <1>6, Zenon
<1>. HIDE DEF after
<1>8. after[0] = m
  BY <1>1, <1>7
<1>9. \A k \in 1..N : after[k] = HandleInheritPI(after[k - 1], L[k], TRUE)
  BY <1>1, <1>7, Zenon
<1>10. after[N] \in S[N]
  <2>1. after[0] \in S[0] /\ N \in 0..N
    BY <1>1, <1>4, <1>8, <1>15
  <2>2. ASSUME NEW k \in 1..N, after[k - 1] \in S[k - 1]  PROVE after[k] \in S[k]
    <3>1. after[k - 1] \in T /\ S[k] = T
      BY <1>1, <1>15, <2>2
    <3>. QED  BY <1>1, <1>3, <1>9, <3>1
  <2>. QED  BY <1>1, <2>1, <2>2, Carried
<1>11. after[N] \in T
  BY <1>1, <1>10, <1>15
<1>. QED  BY <1>2, <1>11 DEF CalmFrom, T

\* An RI that is switched off has its own data from the first connection that is told, and
\* no prototype after the last.
LEMMA NotifyOffCalm ==
  ASSUME NEW m \in Wide, NEW r \in Required,
         \A q \in Required \ {r} : Backed(m, q) /\ Settled(m, q),
         Backed(m, r), m.protos[r] = {} => m.original[r] = Unset
  PROVE  Calm(m, Notify(m, r, FALSE))
<1>. DEFINE L == m.listens[r]
            N == Len(L)
            Rec(f) == f = [k \in 0..N |-> IF k = 0 THEN m ELSE HandleInheritPI(f[k - 1], L[k], FALSE)]
            after == CHOOSE f : Rec(f)
            T(k) == {x \in Wide :
                       /\ Only(m, x, r) /\ OwnData(x, r) = OwnData(m, r)
                       /\ x.protos[r] = {} => x.original[r] = Unset
                       /\ ListeningTo(x, r) \subseteq ListeningTo(m, r)
                       /\ x.protos[r] \subseteq {To(L[j]) : j \in (k + 1)..N}}
            step == [k \in 1..N |-> [x \in T(k - 1) |-> HandleInheritPI(x, L[k], FALSE)]]
            S == [k \in 0..N |-> T(k)]
<1>0. L \in Seq(Links)
  BY DEF Wide
<1>1. N \in Nat /\ \A k \in 1..N : /\ L[k] \in Links /\ From(L[k]) = r
                                   /\ k \in 0..N /\ k - 1 \in 0..N /\ k # 0
  <2>1. \A k \in 1..N : L[k] \in Range(L)
    BY <1>0 DEF Range
  <2>2. \A d \in Range(L) : From(d) = r
    BY DEF Backed, ListeningTo
  <2>. HIDE DEF L
  <2>. QED  BY <1>0, <2>1, <2>2
<1>2. Notify(m, r, FALSE) = after[N]
  BY DEF Notify
<1>12. m.protos[r] \subseteq {To(L[j]) : j \in 1..N}
  <2>1. \A d \in Range(L) : \E j \in 1..N : d = L[j]
    BY <1>0 DEF Range
  <2>2. \A p \in m.protos[r] : \E d \in Range(L) : To(d) = p
    BY DEF Backed, ListeningTo
  <2>. HIDE DEF L
  <2>. QED  BY <2>1, <2>2
<1>. HIDE DEF L, N
<1>3. \A k \in 1..N : \A x \in T(k - 1) : HandleInheritPI(x, L[k], FALSE) \in T(k)
  <2>. SUFFICES ASSUME NEW k \in 1..N, NEW x \in T(k - 1)
                PROVE  HandleInheritPI(x, L[k], FALSE) \in T(k)
    OBVIOUS
  <2>. DEFINE y == NotInherit(x, L[k])
  <2>1. Parting(x, y, L[k])
    BY <1>1, NotInheritParts
  <2>2. HandleInheritPI(x, L[k], FALSE) = y
    BY DEF HandleInheritPI
  <2>. HIDE DEF y
  <2>3. /\ y \in Wide /\ Only(x, y, r)
        /\ y.protos[r] = x.protos[r] \ {To(L[k])}
        /\ ListeningTo(y, r) \subseteq ListeningTo(x, r)
        /\ OwnData(y, r) = OwnData(x, r)
        /\ y.protos[r] = {} => y.original[r] = Unset
    BY <1>1, <2>1 DEF Parting
  <2>4. Only(m, y, r)
    BY <2>3 DEF Only
  <2>5. y.protos[r] \subseteq {To(L[j]) : j \in (k + 1)..N}
    <3>1. \A j \in ((k - 1) + 1)..N : j = k \/ j \in (k + 1)..N
      BY <1>1
    <3>. QED  BY <2>3, <3>1
  <2>. QED  BY <2>2, <2>3, <2>4, <2>5
<1>4. m \in T(0)
  BY <1>1, <1>12 DEF Only
<1>. HIDE DEF T
<1>15. \A k \in 0..N : S[k] = T(k)
  OBVIOUS
<1>16. \A k \in 1..N : \A x \in T(k - 1) : step[k][x] = HandleInheritPI(x, L[k], FALSE)
  OBVIOUS
<1>. HIDE DEF S, step
<1>5. PICK w : RecursionOf(w, m, step, N) /\ \A k \in 0..N : w[k] \in S[k]
  <2>1. m \in S[0]
    BY <1>1, <1>4, <1>15
  <2>2. ASSUME NEW k \in 1..N, NEW x \in S[k - 1]  PROVE step[k][x] \in S[k]
    <3>1. k \in 0..N /\ k - 1 \in 0..N
      BY <1>1
    <3>2. x \in T(k - 1) /\ S[k] = T(k)
      BY <1>15, <3>1
    <3>3. step[k][x] \in T(k)
      BY <1>1, <1>3, <1>16, <3>1, <3>2
    <3>. QED  BY <3>2, <3>3
  <2>. QED  BY <1>1, <2>1, <2>2, RecursionStays
<1>6. Rec(w)
  <2>1. \A k \in 1..N : step[k][w[k - 1]] = HandleInheritPI(w[k - 1], L[k], FALSE)
    BY <1>1, <1>5, <1>15, <1>16
  <2>2. w = [k \in 0..N |-> IF k = 0 THEN m ELSE step[k][w[k - 1]]]
    BY <1>5 DEF RecursionOf
  <2>3. \A k \in 0..N : k # 0 => k \in 1..N
    OBVIOUS
  <2>4. \A k \in 0..N : (IF k = 0 THEN m ELSE step[k][w[k - 1]])
                          = (IF k = 0 THEN m ELSE HandleInheritPI(w[k - 1], L[k], FALSE))
    BY <2>1, <2>3, Zenon
  <2>. QED  BY <2>2, <2>4
<1>7. Rec(after)
  BY <1>6, Zenon
<1>. HIDE DEF after
<1>8. after[0] = m
  BY <1>1, <1>7
<1>9. \A k \in 1..N : after[k] = HandleInheritPI(after[k - 1], L[k], FALSE)
  BY <1>1, <1>7, Zenon
<1>10. after[N] \in S[N]
  <2>1. after[0] \in S[0] /\ N \in 0..N
    BY <1>1, <1>4, <1>8, <1>15
  <2>2. ASSUME NEW k \in 1..N, after[k - 1] \in S[k - 1]  PROVE after[k] \in S[k]
    <3>1. after[k - 1] \in T(k - 1) /\ S[k] = T(k)
      BY <1>1, <1>15, <2>2
    <3>. QED  BY <1>1, <1>3, <1>9, <3>1
  <2>. QED  BY <1>1, <2>1, <2>2, Carried
<1>11. after[N] \in T(N)
  BY <1>1, <1>10, <1>15
<1>. DEFINE n == after[N]
<1>13. /\ n \in Wide /\ Only(m, n, r) /\ OwnData(n, r) = OwnData(m, r)
       /\ n.protos[r] = {} /\ n.original[r] = Unset
       /\ ListeningTo(n, r) \subseteq ListeningTo(m, r)
  <2>1. (N + 1)..N = {}
    BY <1>1
  <2>. QED  BY <1>11, <2>1 DEF T
<1>. HIDE DEF n
<1>14. Backed(n, r) /\ Settled(n, r)
  BY <1>13 DEF Backed, Settled
<1>17. Calm(m, n)
  BY <1>13, <1>14, OthersKept DEF Calm, Steady
<1>. QED  BY <1>2, <1>17 DEF n

LEMMA SetInheritPICalm ==
  ASSUME NEW m, Steady(m), NEW r \in Required, NEW on \in BOOLEAN
  PROVE  Calm(m, SetInheritPI(m, r, on))
<1>. DEFINE a == [m EXCEPT !.flag[r] = on]
<1>1. CASE m.flag[r] = on
  BY <1>1 DEF SetInheritPI, Calm
<1>2. CASE m.flag[r] # on
  <2>1. /\ a \in Wide /\ a.flag = [m.flag EXCEPT ![r] = on] /\ a.links = m.links
        /\ a.protos = m.protos /\ a.original = m.original /\ a.listens = m.listens
        /\ a.params = m.params /\ a.kind = m.kind
    BY DEF Steady, Wide
  <2>2. SetInheritPI(m, r, on) = Notify(a, r, on)
    BY <1>2 DEF SetInheritPI
  <2>. HIDE DEF a
  <2>3. /\ \A q \in Required : Backed(a, q) /\ OwnData(a, q) = OwnData(m, q)
        /\ \A q \in Required \ {r} : Settled(a, q)
        /\ a.protos[r] = {} => a.original[r] = Unset
    BY <2>1 DEF Steady, Wide, Backed, Settled, ListeningTo, OwnData, Data
  <2>4. Calm(a, Notify(a, r, on))
    <3>1. CASE on
      <4>1. Settled(a, r)
        BY <2>1, <3>1 DEF Steady, Settled, Wide
      <4>2. Steady(a)
        BY <2>1, <2>3, <4>1 DEF Steady
      <4>3. on = TRUE
        BY <3>1
      <4>. QED  BY <4>2, <4>3, NotifyOnCalm
    <3>2. CASE ~on
      <4>1. on = FALSE
        BY <3>2
      <4>. QED  BY <2>1, <2>3, <4>1, NotifyOffCalm
    <3>. QED  BY <3>1, <3>2
  <2>. QED  BY <2>2, <2>3, <2>4 DEF Calm
<1>. QED  BY <1>1, <1>2

\* Only those are told of a new name whose prototype it is or becomes.
LEMMA RenameCalm ==
  ASSUME NEW m, Steady(m), NEW p \in Provided
  PROVE  Calm(m, Rename(m, p))
<1>. DEFINE H == {r \in RIsOf(m) : \E c \in Range(m.listens[r]) : To(c) = p}
            L == SetToSeq(H)
            N == Len(L)
            Rec(f) == f = [k \in 0..N |-> IF k = 0 THEN m ELSE SetPrototype(f[k - 1], L[k], p)]
            after == CHOOSE f : Rec(f)
            T == {x \in CalmFrom(m) : x.listens = m.listens}
            step == [k \in 1..N |-> [x \in T |-> SetPrototype(x, L[k], p)]]
            S == [k \in 0..N |-> T]
<1>0. H \in SUBSET Required /\ L \in Seq(H)
  <2>1. H \in SUBSET Required /\ IsFiniteSet(H)
    <3>1. RIsOf(m) = Required
      BY DEF RIsOf, Steady, Wide
    <3>2. IsFiniteSet(Required)
      <4>1. Required \in SUBSET (RIs \cup PIs)
        BY DEF Required
      <4>. QED  BY <4>1, InheritAssumption, FS_Subset
    <3>. QED  BY <3>1, <3>2, FS_Subset
  <2>. HIDE DEF H
  <2>. QED  BY <2>1, SetToSeqElements
<1>2. Rename(m, p) = after[N]
  BY DEF Rename
<1>17. \A r \in H : r \in Required /\ \E c \in ListeningTo(m, r) : To(c) = p
  BY <1>0 DEF ListeningTo
<1>. HIDE DEF L, H
<1>1. N \in Nat /\ \A k \in 1..N : L[k] \in H /\ k \in 0..N /\ k - 1 \in 0..N /\ k # 0
  BY <1>0
<1>. HIDE DEF N
<1>3. \A k \in 1..N : \A x \in T : SetPrototype(x, L[k], p) \in T
  <2>. SUFFICES ASSUME NEW k \in 1..N, NEW x \in T  PROVE SetPrototype(x, L[k], p) \in T
    OBVIOUS
  <2>. DEFINE r == L[k]
              y == SetPrototype(x, r, p)
  <2>0. r \in Required /\ x \in Wide /\ Steady(x) /\ Calm(m, x) /\ x.listens = m.listens
        /\ \E c \in ListeningTo(x, r) : To(c) = p
    <3>1. x.listens = m.listens /\ L[k] \in H
      BY <1>1
    <3>. QED  BY <1>17, <3>1 DEF CalmFrom, Calm, ListeningTo
  <2>. HIDE DEF r
  <2>1. CASE ~x.flag[r]
    <3>1. y = x
      BY <2>1 DEF SetPrototype
    <3>. QED  BY <3>1 DEF r
  <2>2. CASE x.flag[r]
    <3>1. Adopted(x, y, r, p)
      BY <2>0, <2>2, SetPrototypeAdopts
    <3>. HIDE DEF y
    <3>2. /\ y \in Wide /\ Only(x, y, r) /\ y.flag = x.flag /\ y.listens = x.listens
          /\ y.protos[r] = x.protos[r] \cup {p} /\ y.original[r] # Unset
          /\ OwnData(y, r) = OwnData(x, r)
      BY <3>1 DEF Adopted
    <3>3. Backed(y, r) /\ Settled(y, r)
      BY <2>0, <2>2, <3>2 DEF Steady, Backed, Settled, ListeningTo
    <3>4. Calm(x, y)
      BY <2>0, <3>2, <3>3, OthersKept DEF Calm, Steady
    <3>5. y \in T
      BY <2>0, <3>2, <3>4, CalmTwice DEF CalmFrom
    <3>. QED  BY <3>5 DEF y, r
  <2>. QED  BY <2>1, <2>2
<1>4. m \in T
  BY DEF CalmFrom, Calm, Steady
<1>. HIDE DEF T
<1>15. \A k \in 0..N : S[k] = T
  OBVIOUS
<1>16. \A k \in 1..N : \A x \in T : step[k][x] = SetPrototype(x, L[k], p)
  OBVIOUS
<1>. HIDE DEF S, step
<1>5. PICK w : RecursionOf(w, m, step, N) /\ \A k \in 0..N : w[k] \in S[k]
  <2>1. m \in S[0]
    BY <1>1, <1>4, <1>15
  <2>2. ASSUME NEW k \in 1..N, NEW x \in S[k - 1]  PROVE step[k][x] \in S[k]
    <3>1. k \in 0..N /\ k - 1 \in 0..N
      BY <1>1
    <3>2. x \in T /\ S[k] = T
      BY <1>15, <3>1
    <3>3. step[k][x] \in T
      BY <1>1, <1>3, <1>16, <3>1, <3>2
    <3>. QED  BY <3>2, <3>3
  <2>. QED  BY <1>1, <2>1, <2>2, RecursionStays
<1>6. Rec(w)
  <2>1. \A k \in 1..N : step[k][w[k - 1]] = SetPrototype(w[k - 1], L[k], p)
    BY <1>1, <1>5, <1>15, <1>16
  <2>2. w = [k \in 0..N |-> IF k = 0 THEN m ELSE step[k][w[k - 1]]]
    BY <1>5 DEF RecursionOf
  <2>3. \A k \in 0..N : k # 0 => k \in 1..N
    OBVIOUS
  <2>4. \A k \in 0..N : (IF k = 0 THEN m ELSE step[k][w[k - 1]])
                          = (IF k = 0 THEN m ELSE SetPrototype(w[k - 1], L[k], p))
    BY <2>1, <2>3, Zenon
  <2>. QED  BY <2>2, <2>4
<1>7. Rec(after)
  BY <1>6, Zenon
<1>. HIDE DEF after
<1>8. after[0] = m
  BY <1>1, <1>7
<1>9. \A k \in 1..N : after[k] = SetPrototype(after[k - 1], L[k], p)
  BY <1>1, <1>7, Zenon
<1>10. after[N] \in S[N]
  <2>1. after[0] \in S[0] /\ N \in 0..N
    BY <1>1, <1>4, <1>8, <1>15
  <2>2. ASSUME NEW k \in 1..N, after[k - 1] \in S[k - 1]  PROVE after[k] \in S[k]
    <3>1. after[k - 1] \in T /\ S[k] = T
      BY <1>1, <1>15, <2>2
    <3>. QED  BY <1>1, <1>3, <1>9, <3>1
  <2>. QED  BY <1>1, <2>1, <2>2, Carried
<1>11. after[N] \in T
  BY <1>1, <1>10, <1>15
<1>. QED  BY <1>2, <1>11 DEF CalmFrom, T

\* Parameters are set on what is shown.
LEMMA SetParamsSteady ==
  ASSUME NEW m, Steady(m), NEW i \in session.ifaces, NEW q \in ParamLists
  PROVE  /\ Steady(SetParams(m, i, q))
         /\ SetParams(m, i, q).protos = m.protos /\ SetParams(m, i, q).original = m.original
<1>. DEFINE n == SetParams(m, i, q)
            ps == [j \in session.ifaces |->
                     IF j = i \/ (j \in Required /\ i \in m.hears[j] /\ m.params[i] # q)
                     THEN q ELSE m.params[j]]
<1>0. m \in Wide
  BY DEF Steady
<1>1. n = [m EXCEPT !.params = ps]
  BY <1>0 DEF SetParams, RIsOf, Wide
<1>2. ps \in [session.ifaces -> ParamLists]
  BY <1>0 DEF Wide
<1>. HIDE DEF n, ps
<1>3. /\ n \in Wide /\ n.flag = m.flag /\ n.protos = m.protos /\ n.original = m.original
      /\ n.listens = m.listens
  BY <1>0, <1>1, <1>2 DEF Wide
<1>4. Steady(n)
  BY <1>3 DEF Steady, Backed, Settled, ListeningTo
<1>. QED  BY <1>3, <1>4 DEF n

\* A kind may be what is shown or what an RI has of its own.
LEMMA OneKindSteady ==
  ASSUME NEW m, Steady(m), NEW i \in session.ifaces, NEW kind \in Kinds
  PROVE  LET n == [m EXCEPT !.kind[i] = kind]
         IN  /\ Steady(n) /\ n.kind = [m.kind EXCEPT ![i] = kind]
             /\ n.protos = m.protos /\ n.original = m.original /\ n.params = m.params
<1>. DEFINE n == [m EXCEPT !.kind[i] = kind]
<1>1. /\ n \in Wide /\ n.flag = m.flag /\ n.protos = m.protos /\ n.original = m.original
      /\ n.listens = m.listens /\ n.params = m.params /\ n.kind = [m.kind EXCEPT ![i] = kind]
  BY DEF Steady, Wide
<1>. HIDE DEF n
<1>2. Steady(n)
  BY <1>1 DEF Steady, Backed, Settled, ListeningTo
<1>. QED  BY <1>1, <1>2 DEF n

\* n has the own data of m wherever one of them shows another's.
Carries(m, n) ==
  /\ Steady(n)
  /\ \A q \in Required : m.protos[q] # {} \/ n.protos[q] # {} => OwnData(n, q) = OwnData(m, q)

\* Those who hear of a new kind are first told to inherit, again, and then take it over.
LEMMA SetKindCarries ==
  ASSUME NEW m, Steady(m), NEW i \in session.ifaces, NEW kind \in Kinds
  PROVE  Carries(m, SetKind(m, i, kind))
<1>. DEFINE H == {r \in RIsOf(m) : i \in m.hears[r] /\ m.kind[i] # kind}
            L == SetToSeq(H)
            N == Len(L)
            first == [m EXCEPT !.kind[i] = kind]
            Told(x) == /\ Steady(x)
                       /\ \A q \in Required :
                            /\ m.protos[q] \subseteq x.protos[q]
                            /\ OwnData(x, q) = OwnData(m, q)
                                 \/ (x.protos[q] = {} /\ x.kind[q] = x.kind[i])
            Rec(f) == f = [k \in 0..N |-> IF k = 0 THEN first ELSE ReflectAttrs(f[k - 1], L[k], i)]
            after == CHOOSE f : Rec(f)
            T == {x \in Wide : Told(x)}
            step == [k \in 1..N |-> [x \in T |-> ReflectAttrs(x, L[k], i)]]
            S == [k \in 0..N |-> T]
<1>0. L \in Seq(Required)
  <2>1. H \in SUBSET Required /\ IsFiniteSet(H)
    <3>1. RIsOf(m) = Required
      BY DEF RIsOf, Steady, Wide
    <3>2. IsFiniteSet(Required)
      <4>1. Required \in SUBSET (RIs \cup PIs)
        BY DEF Required
      <4>. QED  BY <4>1, InheritAssumption, FS_Subset
    <3>. QED  BY <3>1, <3>2, FS_Subset
  <2>. HIDE DEF H
  <2>. QED  BY <2>1, SetToSeqElements
<1>2. SetKind(m, i, kind) = after[N]
  BY DEF SetKind
<1>. HIDE DEF L
<1>1. N \in Nat /\ \A k \in 1..N : L[k] \in Required /\ k \in 0..N /\ k - 1 \in 0..N /\ k # 0
  BY <1>0
<1>. HIDE DEF N
<1>3. \A k \in 1..N : \A x \in T : ReflectAttrs(x, L[k], i) \in T
  <2>. SUFFICES ASSUME NEW k \in 1..N, NEW x \in T  PROVE ReflectAttrs(x, L[k], i) \in T
    OBVIOUS
  <2>. DEFINE r == L[k]
              a == IF x.flag[r] THEN Notify(x, r, TRUE) ELSE x
              y == [a EXCEPT !.kind[r] = x.kind[i]]
  <2>0. r \in Required /\ r \in session.ifaces /\ Steady(x) /\ x.kind[i] \in Kinds
    BY <1>1 DEF Required, Wide
  <2>1. CASE x.kind[r] = x.kind[i]
    BY <2>1 DEF ReflectAttrs
  <2>2. CASE x.kind[r] # x.kind[i]
    <3>1. ReflectAttrs(x, r, i) = y
      BY <2>2 DEF ReflectAttrs
    <3>2. /\ Calm(x, a) /\ Only(x, a, r)
          /\ \A q \in Required : x.protos[q] \subseteq a.protos[q]
      <4>1. CASE x.flag[r]
        BY <2>0, <4>1, NotifyOnCalm
      <4>2. CASE ~x.flag[r]
        BY <2>0, <4>2 DEF Calm, Only
      <4>. QED  BY <4>1, <4>2
    <3>. HIDE DEF a, r
    <3>3. /\ Steady(y) /\ y.kind = [a.kind EXCEPT ![r] = x.kind[i]]
          /\ y.protos = a.protos /\ y.original = a.original /\ y.params = a.params
      BY <2>0, <3>2, OneKindSteady DEF Calm
    <3>. HIDE DEF y
    <3>4. i # r /\ y.kind[r] = x.kind[i] /\ y.kind[i] = x.kind[i]
          /\ \A q \in Required \ {r} : y.kind[q] = x.kind[q]
      <4>1. a \in Wide
        BY <3>2 DEF Calm, Steady
      <4>2. i # r
        BY <2>2
      <4>3. \A j \in session.ifaces \ {r} : a.kind[j] = x.kind[j]
        BY <3>2 DEF Only
      <4>4. \A j \in session.ifaces \ {r} : y.kind[j] = x.kind[j]
        BY <3>3, <4>1, <4>3 DEF Wide
      <4>5. y.kind[r] = x.kind[i]
        BY <2>0, <3>3, <4>1 DEF Wide
      <4>. QED  BY <4>2, <4>4, <4>5 DEF Required
    <3>5. \A q \in Required : m.protos[q] \subseteq y.protos[q]
      BY <3>2, <3>3
    <3>6. ASSUME NEW q \in Required \ {r}
          PROVE  OwnData(y, q) = OwnData(m, q) \/ (y.protos[q] = {} /\ y.kind[q] = y.kind[i])
      <4>1. OwnData(y, q) = OwnData(a, q)
        <5>1. y.kind[q] = a.kind[q]
          BY <3>4, <3>2 DEF Only, Required
        <5>. QED  BY <3>3, <5>1 DEF OwnData, Data
      <4>2. OwnData(a, q) = OwnData(x, q) /\ y.protos[q] = x.protos[q]
        BY <3>2, <3>3 DEF Calm, Only
      <4>. QED  BY <3>4, <4>1, <4>2
    <3>7. OwnData(y, r) = OwnData(m, r) \/ (y.protos[r] = {} /\ y.kind[r] = y.kind[i])
      <4>1. OwnData(a, r) = OwnData(m, r)
        BY <2>0, <2>2, <3>2 DEF Calm
      <4>2. CASE y.protos[r] # {}
        <5>1. y.original[r] # Unset
          BY <2>0, <3>3, <4>2 DEF Steady, Settled
        <5>. QED  BY <3>3, <4>1, <5>1 DEF OwnData
      <4>3. CASE y.protos[r] = {}
        BY <3>4, <4>3
      <4>. QED  BY <4>2, <4>3
    <3>8. y \in T
      BY <3>3, <3>5, <3>6, <3>7 DEF Steady
    <3>. QED  BY <3>1, <3>8 DEF r
  <2>. QED  BY <2>1, <2>2
<1>4. first \in T
  <2>1. /\ Steady(first) /\ first.kind = [m.kind EXCEPT ![i] = kind]
        /\ first.protos = m.protos /\ first.original = m.original /\ first.params = m.params
    BY OneKindSteady
  <2>. HIDE DEF first
  <2>2. m \in Wide
    BY DEF Steady
  <2>3. ASSUME NEW q \in Required
        PROVE  OwnData(first, q) = OwnData(m, q) \/ (first.protos[q] = {} /\ first.kind[q] = first.kind[i])
    <3>1. CASE q # i
      <4>1. first.kind[q] = m.kind[q]
        BY <2>1, <2>2, <3>1 DEF Wide, Required
      <4>. QED  BY <2>1, <4>1 DEF OwnData, Data
    <3>2. CASE q = i
      <4>1. CASE first.protos[q] # {}
        <5>1. first.original[q] # Unset
          BY <2>1, <4>1 DEF Steady, Settled
        <5>. QED  BY <2>1, <5>1 DEF OwnData
      <4>2. CASE first.protos[q] = {}
        BY <3>2, <4>2
      <4>. QED  BY <4>1, <4>2
    <3>. QED  BY <3>1, <3>2
  <2>. QED  BY <2>1, <2>3 DEF Steady
<1>. HIDE DEF T, first
<1>15. \A k \in 0..N : S[k] = T
  OBVIOUS
<1>16. \A k \in 1..N : \A x \in T : step[k][x] = ReflectAttrs(x, L[k], i)
  OBVIOUS
<1>. HIDE DEF S, step
<1>5. PICK w : RecursionOf(w, first, step, N) /\ \A k \in 0..N : w[k] \in S[k]
  <2>1. first \in S[0]
    BY <1>1, <1>4, <1>15
  <2>2. ASSUME NEW k \in 1..N, NEW x \in S[k - 1]  PROVE step[k][x] \in S[k]
    <3>1. k \in 0..N /\ k - 1 \in 0..N
      BY <1>1
    <3>2. x \in T /\ S[k] = T
      BY <1>15, <3>1
    <3>3. step[k][x] \in T
      BY <1>1, <1>3, <1>16, <3>1, <3>2
    <3>. QED  BY <3>2, <3>3
  <2>. QED  BY <1>1, <2>1, <2>2, RecursionStays
<1>6. Rec(w)
  <2>1. \A k \in 1..N : step[k][w[k - 1]] = ReflectAttrs(w[k - 1], L[k], i)
    BY <1>1, <1>5, <1>15, <1>16
  <2>2. w = [k \in 0..N |-> IF k = 0 THEN first ELSE step[k][w[k - 1]]]
    BY <1>5 DEF RecursionOf
  <2>3. \A k \in 0..N : k # 0 => k \in 1..N
    OBVIOUS
  <2>4. \A k \in 0..N : (IF k = 0 THEN first ELSE step[k][w[k - 1]])
                          = (IF k = 0 THEN first ELSE ReflectAttrs(w[k - 1], L[k], i))
    BY <2>1, <2>3, Zenon
  <2>. QED  BY <2>2, <2>4
<1>7. Rec(after)
  BY <1>6, Zenon
<1>. HIDE DEF after
<1>8. after[0] = first
  BY <1>1, <1>7
<1>9. \A k \in 1..N : after[k] = ReflectAttrs(after[k - 1], L[k], i)
  BY <1>1, <1>7, Zenon
<1>10. after[N] \in S[N]
  <2>1. after[0] \in S[0] /\ N \in 0..N
    BY <1>1, <1>4, <1>8, <1>15
  <2>2. ASSUME NEW k \in 1..N, after[k - 1] \in S[k - 1]  PROVE after[k] \in S[k]
    <3>1. after[k - 1] \in T /\ S[k] = T
      BY <1>1, <1>15, <2>2
    <3>. QED  BY <1>1, <1>3, <1>9, <3>1
  <2>. QED  BY <1>1, <2>1, <2>2, Carried
<1>11. after[N] \in T
  BY <1>1, <1>10, <1>15
<1>12. Told(after[N])
  BY <1>11 DEF T
<1>. QED  BY <1>2, <1>12 DEF Carries

WideGiven ==
  [kind : {"connect"}, c : Links] \cup [kind : {"remove"}, C : Seq(Links)]
  \cup [kind : {"params"}, i : session.ifaces, new : ParamLists, old : ParamLists,
        parted : Seq(Links)]
  \cup [kind : {"kind"}, i : session.ifaces, new : Kinds, old : Kinds]
  \cup [kind : {"inherit"}, i : Required, new : BOOLEAN, old : BOOLEAN]
  \cup [kind : {"rename"}, i : Provided]

LEMMA LinksFinite ==
  ASSUME session \in Sessions
  PROVE  IsFiniteSet(Links)
<1>. DEFINE P == (Required \X Provided) \X (1..session.copies)
            f == [e \in P |-> <<e[1][1], e[1][2], e[2]>>]
<1>1. Required \in SUBSET (RIs \cup PIs) /\ Provided \in SUBSET (RIs \cup PIs)
  BY DEF Required, Provided
<1>2. IsFiniteSet(Required) /\ IsFiniteSet(Provided)
  BY <1>1, InheritAssumption, FS_Subset
<1>3. IsFiniteSet(1..session.copies)
  <2>1. session.copies \in Nat
    BY InheritAssumption
  <2>. QED  BY <2>1, FS_Interval
<1>4. IsFiniteSet(P)
  <2>1. IsFiniteSet(Required \X Provided)
    BY <1>2, FS_Product
  <2>. QED  BY <1>3, <2>1, FS_Product
<1>5. f \in Injection(P, Links)
  <2>1. f \in [P -> Links]
    BY DEF Links
  <2>2. ASSUME NEW d \in P, NEW e \in P, f[d] = f[e]  PROVE d = e
    BY <2>2
  <2>. QED  BY <2>1, <2>2 DEF Injection, IsInjective
<1>6. f \in Surjection(P, Links)
  <2>1. ASSUME NEW c \in Links  PROVE \E e \in P : f[e] = c
    <3>1. <<<<c[1], c[2]>>, c[3]>> \in P /\ f[<<<<c[1], c[2]>>, c[3]>>] = c
      BY DEF Links
    <3>. QED  BY <3>1
  <2>. QED  BY <1>5, <2>1 DEF Surjection, Injection, Range
<1>7. ExistsBijection(P, Links)
  BY <1>5, <1>6 DEF ExistsBijection, Bijection
<1>. QED  BY <1>4, <1>7, FS_Bijection

LEMMA NotingWide ==
  ASSUME session \in Sessions, NEW m, Steady(m), NEW c \in WideGiven
  PROVE  /\ Noting(m, c) \in WideGiven
         /\ \A back \in BOOLEAN : Edited(m, Noting(m, c), back) = Edited(m, c, back)
<1>1. CASE c.kind # "params"
  BY <1>1 DEF Noting
<1>2. CASE c.kind = "params"
  <2>. DEFINE x == SetParams(m, c.i, c.new)
              P == {d \in LinksOf(x, c.i) : x.params[From(d)] # x.params[To(d)]}
              q == Parted(x, c.i)
  <2>0. c \in [kind : {"params"}, i : session.ifaces, new : ParamLists, old : ParamLists,
               parted : Seq(Links)]
    BY <1>2 DEF WideGiven
  <2>1. q \in Seq(Links)
    <3>1. Steady(x)
      BY <2>0, SetParamsSteady
    <3>. HIDE DEF x
    <3>2. P \in SUBSET Links
      BY <3>1 DEF LinksOf, Steady, Wide
    <3>3. IsFiniteSet(P)
      BY <3>2, LinksFinite, FS_Subset
    <3>4. q = SetToSeq(P)
      BY DEF Parted
    <3>. HIDE DEF P, q
    <3>5. SetToSeq(P) \in Seq(P)
      BY <3>3, SetToSeqElements
    <3>. QED  BY <3>2, <3>4, <3>5
  <2>2. Noting(m, c) = [c EXCEPT !.parted = q]
    BY <1>2 DEF Noting
  <2>. HIDE DEF q
  <2>3. /\ [c EXCEPT !.parted = q] \in WideGiven
        /\ [c EXCEPT !.parted = q].kind = c.kind /\ [c EXCEPT !.parted = q].i = c.i
        /\ [c EXCEPT !.parted = q].old = c.old /\ [c EXCEPT !.parted = q].new = c.new
    BY <2>0, <2>1 DEF WideGiven
  <2>. QED  BY <2>2, <2>3 DEF Edited
<1>. QED  BY <1>1, <1>2

\* Whatever a command does or takes back, what RIs have of their own comes through it.
LEMMA CommandsCarry ==
  ASSUME NEW m, Steady(m), NEW c \in WideGiven
  PROVE  /\ Carries(Edited(m, c, FALSE), Redo(m, c))
         /\ Carries(Edited(m, c, TRUE), Undo(m, c))
<1>0. /\ c.kind \in {"connect", "remove", "params", "kind", "inherit", "rename"}
      /\ c.kind = "connect" => c.c \in Links
      /\ c.kind = "remove" => c.C \in Seq(Links)
      /\ c.kind = "params" => c.i \in session.ifaces /\ c.old \in ParamLists /\ c.new \in ParamLists
      /\ c.kind = "params" => c.parted \in Seq(Links)
      /\ c.kind = "kind" => c.i \in session.ifaces /\ c.old \in Kinds /\ c.new \in Kinds
      /\ c.kind = "inherit" => c.i \in Required /\ c.new \in BOOLEAN /\ c.old \in BOOLEAN
      /\ c.kind = "rename" => c.i \in Provided
  BY DEF WideGiven
<1>1. \A x, n : Calm(x, n) => Carries(x, n)
  BY DEF Calm, Carries
<1>2. c.kind # "params" => Edited(m, c, FALSE) = m /\ Edited(m, c, TRUE) = m
  BY DEF Edited
<1>3. CASE c.kind = "connect"
  <2>1. <<c.c>> \in Seq(Links)
    BY <1>0, <1>3
  <2>2. Calm(m, AddLink(m, c.c)) /\ Calm(m, RemoveLinks(m, <<c.c>>))
    BY <1>0, <1>3, <2>1, OneLinkCalm, RemoveLinksCalm
  <2>. QED  BY <1>1, <1>2, <1>3, <2>2 DEF Redo, Undo
<1>4. CASE c.kind = "remove"
  <2>1. Calm(m, RemoveLinks(m, c.C)) /\ Calm(m, RestoreLinks(m, c.C))
    BY <1>0, <1>4, RemoveLinksCalm, RestoreLinksCalm
  <2>. QED  BY <1>1, <1>2, <1>4, <2>1 DEF Redo, Undo
<1>5. CASE c.kind = "params"
  <2>. DEFINE x == SetParams(m, c.i, c.new)
              y == SetParams(m, c.i, c.old)
  <2>1. Steady(x) /\ Steady(y)
    BY <1>0, <1>5, SetParamsSteady
  <2>2. Edited(m, c, FALSE) = x /\ Edited(m, c, TRUE) = y
    BY <1>5 DEF Edited
  <2>3. Redo(m, c) = RemoveLinks(x, c.parted) /\ Undo(m, c) = RestoreLinks(y, c.parted)
    BY <1>5 DEF Redo, Undo
  <2>. HIDE DEF x, y
  <2>4. Calm(x, RemoveLinks(x, c.parted)) /\ Calm(y, RestoreLinks(y, c.parted))
    BY <1>0, <1>5, <2>1, RemoveLinksCalm, RestoreLinksCalm
  <2>. QED  BY <1>1, <2>2, <2>3, <2>4
<1>6. CASE c.kind = "kind"
  <2>1. Carries(m, SetKind(m, c.i, c.new)) /\ Carries(m, SetKind(m, c.i, c.old))
    BY <1>0, <1>6, SetKindCarries
  <2>. QED  BY <1>2, <1>6, <2>1 DEF Redo, Undo
<1>7. CASE c.kind = "inherit"
  <2>1. Calm(m, SetInheritPI(m, c.i, c.new)) /\ Calm(m, SetInheritPI(m, c.i, c.old))
    BY <1>0, <1>7, SetInheritPICalm
  <2>. QED  BY <1>1, <1>2, <1>7, <2>1 DEF Redo, Undo
<1>8. CASE c.kind = "rename"
  <2>1. Calm(m, Rename(m, c.i))
    BY <1>0, <1>8, RenameCalm
  <2>. QED  BY <1>1, <1>2, <1>8, <2>1 DEF Redo, Undo
<1>. QED  BY <1>0, <1>3, <1>4, <1>5, <1>6, <1>7, <1>8

KeptInv ==
  /\ session \in Sessions
  /\ Steady(view) /\ stack \in Seq(WideGiven) /\ index \in 0..Len(stack)
  /\ kept = [r \in Required |-> OwnData(view, r)]

\* What a step has to leave behind, with what it promises.
OwnKept ==
  \A r \in RIsOf(view) : view.protos[r] # {} /\ view'.protos[r] = {} => Data(view', r) = kept[r]

LEMMA KeptNext ==
  ASSUME KeptInv, UNCHANGED session, Steady(view'), stack' \in Seq(WideGiven),
         index' \in 0..Len(stack'), kept' = [r \in Required |-> OwnData(view', r)]
  PROVE  KeptInv'
<1>1. Required' = Required /\ Provided' = Provided
  BY DEF Required, Provided
<1>2. Links' = Links
  BY <1>1 DEF Links
<1>3. Wide' = Wide /\ WideGiven' = WideGiven
  BY <1>1, <1>2 DEF Wide, WideGiven, Kinds, PutAside
<1>4. Steady(view)'
  BY <1>1, <1>3 DEF Steady, Backed, Settled, ListeningTo
<1>5. session' \in Sessions
  BY DEF KeptInv
<1>. QED  BY <1>1, <1>3, <1>4, <1>5 DEF KeptInv, OwnData, Data

LEMMA KeptStep ==
  ASSUME KeptInv, UNCHANGED session, NEW c \in WideGiven, NEW back \in BOOLEAN,
         Carries(Edited(view, c, back), view'), Keep(c, back),
         stack' \in Seq(WideGiven), index' \in 0..Len(stack')
  PROVE  KeptInv' /\ OwnKept
<1>. DEFINE x == Edited(view, c, back)
<1>0. Steady(view) /\ view \in Wide /\ kept = [r \in Required |-> OwnData(view, r)]
  BY DEF KeptInv, Steady
<1>1. x.protos = view.protos /\ x.original = view.original /\ Steady(x)
  <2>1. CASE c.kind # "params"
    BY <1>0, <2>1 DEF Edited
  <2>2. CASE c.kind = "params"
    <3>1. c.i \in session.ifaces /\ c.old \in ParamLists /\ c.new \in ParamLists
      BY <2>2 DEF WideGiven
    <3>2. x = SetParams(view, c.i, IF back THEN c.old ELSE c.new)
      BY <2>2 DEF Edited
    <3>. HIDE DEF x
    <3>. QED  BY <1>0, <3>1, <3>2, SetParamsSteady
  <2>. QED  BY <2>1, <2>2
<1>2. /\ Steady(view')
      /\ \A q \in Required : x.protos[q] # {} \/ view'.protos[q] # {} => OwnData(view', q) = OwnData(x, q)
  BY DEF Carries
<1>3. kept' = [r \in Required |->
                 CASE view'.protos[r] = {}                          -> Data(view', r)
                   [] view'.protos[r] # {} /\ view.protos[r] = {}  -> Data(x, r)
                   [] view'.protos[r] # {} /\ view.protos[r] # {} -> kept[r]]
  BY <1>0 DEF Keep, RIsOf, Wide
<1>. HIDE DEF x
<1>4. \A r \in Required : view'.protos[r] = {} => OwnData(view', r) = Data(view', r)
  BY <1>2 DEF Steady, Settled, OwnData
<1>5. \A r \in Required : view.protos[r] = {} => OwnData(x, r) = Data(x, r)
  BY <1>1 DEF Steady, Settled, OwnData
<1>6. \A r \in Required : view.protos[r] # {} => OwnData(x, r) = kept[r]
  <2>. SUFFICES ASSUME NEW r \in Required, view.protos[r] # {}  PROVE OwnData(x, r) = kept[r]
    OBVIOUS
  <2>1. view.original[r] # Unset
    BY <1>0 DEF Steady, Settled
  <2>. QED  BY <1>0, <1>1, <2>1 DEF OwnData
<1>7. \A r \in Required : kept'[r] = OwnData(view', r)
  <2>. TAKE r \in Required
  <2>1. CASE view'.protos[r] = {}
    BY <1>3, <1>4, <2>1
  <2>2. CASE view'.protos[r] # {} /\ view.protos[r] = {}
    BY <1>1, <1>2, <1>3, <1>5, <2>2
  <2>3. CASE view'.protos[r] # {} /\ view.protos[r] # {}
    BY <1>1, <1>2, <1>3, <1>6, <2>3
  <2>. QED  BY <2>1, <2>2, <2>3
<1>8. kept' = [r \in Required |-> OwnData(view', r)]
  BY <1>3, <1>7
<1>9. KeptInv'
  BY <1>2, <1>8, KeptNext
<1>10. OwnKept
  <2>. SUFFICES ASSUME NEW r \in RIsOf(view), view.protos[r] # {}, view'.protos[r] = {}
                PROVE  Data(view', r) = kept[r]
    BY DEF OwnKept
  <2>1. r \in Required
    BY <1>0 DEF RIsOf, Wide
  <2>2. OwnData(view', r) = OwnData(x, r)
    BY <1>1, <1>2, <2>1
  <2>. QED  BY <1>4, <1>6, <2>1, <2>2
<1>. QED  BY <1>9, <1>10

LEMMA PushKept ==
  ASSUME KeptInv, UNCHANGED session, NEW c \in WideGiven, Push(c)
  PROVE  KeptInv' /\ OwnKept
<1>. DEFINE n == Noting(view, c)
<1>1. Steady(view) /\ stack \in Seq(WideGiven) /\ index \in 0..Len(stack) /\ session \in Sessions
  BY DEF KeptInv
<1>2. n \in WideGiven /\ Edited(view, n, FALSE) = Edited(view, c, FALSE)
  BY <1>1, NotingWide
<1>3. /\ view' = Redo(view, n) /\ stack' = Append(SubSeq(stack, 1, index), n)
      /\ index' = index + 1 /\ Keep(c, FALSE)
  BY DEF Push
<1>. HIDE DEF n
<1>4. Carries(Edited(view, c, FALSE), view')
  BY <1>1, <1>2, <1>3, CommandsCarry
<1>5. SubSeq(stack, 1, index) \in Seq(WideGiven) /\ Len(SubSeq(stack, 1, index)) = index
  BY <1>1
<1>6. stack' \in Seq(WideGiven) /\ index' \in 0..Len(stack')
  BY <1>1, <1>2, <1>3, <1>5
<1>. QED  BY <1>3, <1>4, <1>6, KeptStep

LEMMA CommandKept ==
  ASSUME KeptInv, UNCHANGED session, Commands(session.ifaces)
  PROVE  KeptInv' /\ OwnKept
<1>0. session \in Sessions /\ view \in Wide
  BY DEF KeptInv, Steady
<1>1. ASSUME NEW r \in Required, NEW p \in Provided, NEW k \in 1..session.copies, Connect(r, p, k)
      PROVE  KeptInv' /\ OwnKept
  <2>1. [kind |-> "connect", c |-> <<r, p, k>>] \in WideGiven
    BY DEF WideGiven, Links
  <2>. QED  BY <1>1, <2>1, PushKept DEF Connect
<1>2. ASSUME NEW C \in BoundedSeq(view.links, 2), RemoveConnections(C)
      PROVE  KeptInv' /\ OwnKept
  <2>1. C \in Seq(view.links)
    <3>1. PICK n \in 0..2 : C \in [1..n -> view.links]
      BY DEF BoundedSeq, SeqOf
    <3>. QED  BY <3>1, SeqDef
  <2>2. C \in Seq(Links)
    BY <1>0, <2>1 DEF Wide
  <2>3. [kind |-> "remove", C |-> C] \in WideGiven
    BY <2>2 DEF WideGiven
  <2>. QED  BY <1>2, <2>3, PushKept DEF RemoveConnections
<1>3. ASSUME NEW i \in session.ifaces, NEW q \in ParamLists, ChangeParams(i, q)
      PROVE  KeptInv' /\ OwnKept
  <2>1. << >> \in Seq(Links) /\ view.params[i] \in ParamLists
    BY <1>0 DEF Wide
  <2>2. [kind |-> "params", i |-> i, new |-> q, old |-> view.params[i], parted |-> << >>] \in WideGiven
    BY <2>1 DEF WideGiven
  <2>. QED  BY <1>3, <2>2, PushKept DEF ChangeParams
<1>4. ASSUME NEW i \in session.ifaces, NEW k \in RIKinds \cup PIKinds, ChangeKind(i, k)
      PROVE  KeptInv' /\ OwnKept
  <2>1. k \in Kinds /\ view.kind[i] \in Kinds
    BY <1>0 DEF Wide, Kinds
  <2>2. [kind |-> "kind", i |-> i, new |-> k, old |-> view.kind[i]] \in WideGiven
    BY <2>1 DEF WideGiven
  <2>. QED  BY <1>4, <2>2, PushKept DEF ChangeKind
<1>5. ASSUME NEW r \in Required, ChangeInheritPI(r)
      PROVE  KeptInv' /\ OwnKept
  <2>1. view.flag[r] \in BOOLEAN
    BY <1>0 DEF Wide
  <2>2. [kind |-> "inherit", i |-> r, new |-> ~view.flag[r], old |-> view.flag[r]] \in WideGiven
    BY <2>1 DEF WideGiven
  <2>. QED  BY <1>5, <2>2, PushKept DEF ChangeInheritPI
<1>6. ASSUME NEW p \in Provided, RenamePI(p)
      PROVE  KeptInv' /\ OwnKept
  <2>1. [kind |-> "rename", i |-> p] \in WideGiven
    BY DEF WideGiven
  <2>. QED  BY <1>6, <2>1, PushKept DEF RenamePI
<1>. QED  BY <1>1, <1>2, <1>3, <1>4, <1>5, <1>6 DEF Commands, Required, Provided

LEMMA UndoRedoKept ==
  ASSUME KeptInv, UNCHANGED session, UndoOne \/ RedoOne
  PROVE  KeptInv' /\ OwnKept
<1>1. Steady(view) /\ stack \in Seq(WideGiven) /\ index \in 0..Len(stack)
  BY DEF KeptInv
<1>2. CASE UndoOne
  <2>1. stack[index] \in WideGiven /\ index' \in 0..Len(stack)
    BY <1>1, <1>2 DEF UndoOne
  <2>2. Carries(Edited(view, stack[index], TRUE), view')
    BY <1>1, <1>2, <2>1, CommandsCarry DEF UndoOne
  <2>. QED  BY <1>1, <1>2, <2>1, <2>2, KeptStep DEF UndoOne
<1>3. CASE RedoOne
  <2>1. stack[index + 1] \in WideGiven /\ index' \in 0..Len(stack)
    BY <1>1, <1>3 DEF RedoOne
  <2>2. Carries(Edited(view, stack[index + 1], FALSE), view')
    BY <1>1, <1>3, <2>1, CommandsCarry DEF RedoOne
  <2>. QED  BY <1>1, <1>3, <2>1, <2>2, KeptStep DEF RedoOne
<1>. QED  BY <1>2, <1>3

LEMMA StartKept ==
  ASSUME Init
  PROVE  KeptInv
<1>1. PICK f \in [Required -> BOOLEAN], q \in [session.ifaces -> ParamLists] :
        view = [flag |-> f, params |-> q,
                kind |-> [i \in session.ifaces |-> IF i \in Required THEN "Any" ELSE "Sporadic"],
                protos |-> [r \in Required |-> {}], original |-> [r \in Required |-> Unset],
                hears |-> [r \in Required |-> {}],
                links |-> {}, listens |-> [r \in Required |-> << >>]]
  <2>1. PICK f \in [RIs \cap session.ifaces -> BOOLEAN], q \in [session.ifaces -> ParamLists] :
          view = Loaded(session.ifaces, f, q)
    <3>1. view \in Start(session.ifaces)
      BY DEF Init
    <3>. QED  BY <3>1 DEF Start
  <2>. QED  BY <2>1 DEF Loaded, Required
<1>2. "Any" \in Kinds /\ "Sporadic" \in Kinds /\ << >> \in Seq(Links) /\ Unset \in PutAside
  BY InheritAssumption DEF Kinds, PutAside
<1>3. view \in Wide
  BY <1>1, <1>2 DEF Wide
<1>4. Range(<< >>) = {}
  BY DEF Range
<1>5. \A r \in Required : view.protos[r] = {} /\ view.listens[r] = << >> /\ view.original[r] = Unset
  BY <1>1
<1>6. Steady(view)
  BY <1>3, <1>4, <1>5 DEF Steady, Backed, Settled, ListeningTo
<1>7. kept = [r \in Required |-> OwnData(view, r)]
  <2>1. RIsOf(view) = Required
    BY <1>3 DEF RIsOf, Wide
  <2>. QED  BY <1>5, <2>1 DEF Init, OwnData
<1>8. << >> \in Seq(WideGiven)
  OBVIOUS
<1>. QED  BY <1>6, <1>7, <1>8 DEF Init, KeptInv

\* An RI's own parameters and kind (m_originalFields) come back with the loss of its last
\* prototype: however many connections there are between whatever interfaces, whenever
\* InheritPI is switched, and whatever is undone in whatever state.
THEOREM OwnDataIsKept ==
  Spec => OwnDataComesBack
<1>1. Init => KeptInv
  BY StartKept
<1>2. KeptInv /\ [Next]_vars => KeptInv' /\ [OwnKept]_vars
  <2>. SUFFICES ASSUME KeptInv, [Next]_vars  PROVE KeptInv' /\ [OwnKept]_vars
    OBVIOUS
  <2>1. CASE Next
    BY <2>1, CommandKept, UndoRedoKept DEF Next
  <2>2. CASE UNCHANGED vars
    <3>1. UNCHANGED <<view, stack, index, kept, session>>
      BY <2>2 DEF vars
    <3>2. /\ Steady(view') /\ stack' \in Seq(WideGiven) /\ index' \in 0..Len(stack')
          /\ kept' = [r \in Required |-> OwnData(view', r)]
      BY <3>1 DEF KeptInv
    <3>3. KeptInv'
      BY <3>1, <3>2, KeptNext
    <3>. QED  BY <2>2, <3>3
  <2>. QED  BY <2>1, <2>2
<1>. QED  BY <1>1, <1>2, PTL DEF Spec, OwnDataComesBack, OwnKept
================================================================================
