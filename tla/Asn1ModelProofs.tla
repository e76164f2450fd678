--------------------------- MODULE Asn1ModelProofs ----------------------------
(* Asn1Model for any projects, files and handlers: the guard counts the work,   *)
(* and for projects opened once late answers do no harm.                        *)
EXTENDS Asn1Model, MscListsProofs

-------------------------------------------------------------------------------
(* Counting.                                                                    *)

\* A function that keeps its arguments apart has as many values as arguments.
LEMMA OneValueEach ==
  ASSUME NEW P, IsFiniteSet(P), NEW g, DOMAIN g = P, g = [p \in P |-> g[p]],
         \A p, q \in P : g[p] = g[q] => p = q
  PROVE  IsFiniteSet(Range(g)) /\ Cardinality(Range(g)) = Cardinality(P)
<1>1. g \in Bijection(P, Range(g))
  BY DEF Bijection, Injection, Surjection, IsInjective, Range
<1>. QED
  BY <1>1, FS_Bijection DEF ExistsBijection

JobsOf(J, h) == {j \in J : j.handler = h}

\* What the guard counts, with what makes it a count.
Counted ==
  /\ IsFiniteSet(jobs)
  /\ DOMAIN pending \subseteq Handlers /\ pending = [h \in DOMAIN pending |-> pending[h]]
  /\ modifiers = Cardinality(DOMAIN pending)
  /\ \A h \in DOMAIN pending : pending[h] = Cardinality(JobsOf(jobs, h)) /\ pending[h] # 0
  /\ \A j \in jobs : j.handler \in DOMAIN pending

\* The jobs that a new handler starts.
NewJobs(h, lists) ==
  {[handler |-> h, project |-> p, index |-> ProjectBuildersCount(p) + 1,
    documents |-> Restrict(contents, lists[p])] : p \in DOMAIN lists}

LEMMA NewJobsCounted ==
  ASSUME NEW h, NEW lists, IsFiniteSet(DOMAIN lists)
  PROVE  /\ IsFiniteSet(NewJobs(h, lists))
         /\ Cardinality(NewJobs(h, lists)) = Cardinality(DOMAIN lists)
         /\ \A j \in NewJobs(h, lists) : j.handler = h
<1>. DEFINE g == [p \in DOMAIN lists |->
                    [handler |-> h, project |-> p, index |-> ProjectBuildersCount(p) + 1,
                     documents |-> Restrict(contents, lists[p])]]
<1>1. NewJobs(h, lists) = Range(g)
  BY DEF NewJobs, Range
<1>2. \A p, q \in DOMAIN lists : g[p] = g[q] => p = q
  <2>. SUFFICES ASSUME NEW p \in DOMAIN lists, NEW q \in DOMAIN lists, g[p] = g[q] PROVE p = q
    OBVIOUS
  <2>1. g[p].project = p /\ g[q].project = q
    OBVIOUS
  <2>. QED
    BY <2>1
<1>3. DOMAIN g = DOMAIN lists /\ g = [p \in DOMAIN lists |-> g[p]]
  OBVIOUS
<1>. HIDE DEF g
<1>4. IsFiniteSet(Range(g)) /\ Cardinality(Range(g)) = Cardinality(DOMAIN lists)
  BY <1>2, <1>3, OneValueEach
<1>5. \A j \in NewJobs(h, lists) : j.handler = h
  BY DEF NewJobs
<1>. QED
  BY <1>1, <1>4, <1>5

LEMMA FewHandlers ==
  ASSUME NEW S \in SUBSET Handlers
  PROVE  IsFiniteSet(S)
  BY FS_Subset, BoundsAssumption

LEMMA HandlerCounted ==
  ASSUME Counted, NEW h \in Handlers, h \notin DOMAIN pending,
         NEW lists, IsFiniteSet(DOMAIN lists), DOMAIN lists # {},
         StartHandler(h, lists)
  PROVE  Counted'
<1>. DEFINE new == NewJobs(h, lists)
<1>1. /\ jobs' = jobs \cup new
      /\ pending' = [g \in DOMAIN pending \cup {h} |->
                       IF g = h THEN Cardinality(DOMAIN lists) ELSE pending[g]]
      /\ modifiers' = modifiers + 1
  BY DEF StartHandler, NewJobs
<1>2. /\ IsFiniteSet(new) /\ Cardinality(new) = Cardinality(DOMAIN lists)
      /\ \A j \in new : j.handler = h
  BY NewJobsCounted
<1>. HIDE DEF new
<1>3. Cardinality(DOMAIN lists) # 0
  BY FS_EmptySet
<1>4. IsFiniteSet(jobs')
  BY <1>1, <1>2, FS_Union DEF Counted
<1>5. DOMAIN pending' = DOMAIN pending \cup {h}
  BY <1>1
<1>6. modifiers' = Cardinality(DOMAIN pending')
  <2>1. IsFiniteSet(DOMAIN pending)
    BY FewHandlers DEF Counted
  <2>. QED
    BY <1>1, <1>5, <2>1, FS_AddElement DEF Counted
<1>7. ASSUME NEW g \in DOMAIN pending'
      PROVE  pending'[g] = Cardinality(JobsOf(jobs', g)) /\ pending'[g] # 0
  <2>1. CASE g = h
    <3>1. JobsOf(jobs', g) = new
      BY <1>1, <1>2, <2>1 DEF JobsOf, Counted
    <3>. QED
      BY <1>1, <1>2, <1>3, <1>5, <2>1, <3>1
  <2>2. CASE g # h
    <3>1. JobsOf(jobs', g) = JobsOf(jobs, g)
      BY <1>1, <1>2, <2>2 DEF JobsOf
    <3>. QED
      BY <1>1, <1>5, <2>2, <3>1 DEF Counted
  <2>. QED
    BY <2>1, <2>2
<1>8. \A j \in jobs' : j.handler \in DOMAIN pending'
  BY <1>1, <1>2, <1>5 DEF Counted
<1>. QED
  BY <1>1, <1>4, <1>5, <1>6, <1>7, <1>8 DEF Counted

LEMMA AnswerCounted ==
  ASSUME Counted, NEW job \in jobs, jobs' = jobs \ {job}, CountDown(job)
  PROVE  Counted'
<1>. DEFINE h == job.handler
<1>1. h \in DOMAIN pending /\ IsFiniteSet(jobs) /\ IsFiniteSet(jobs')
  BY FS_RemoveElement DEF Counted
<1>2. \A g : IsFiniteSet(JobsOf(jobs, g)) /\ Cardinality(JobsOf(jobs, g)) \in Nat
  <2>1. \A g : JobsOf(jobs, g) \in SUBSET jobs
    BY DEF JobsOf
  <2>. QED
    BY <1>1, <2>1, FS_Subset, FS_CardinalityType
<1>3. /\ JobsOf(jobs', h) = JobsOf(jobs, h) \ {job} /\ job \in JobsOf(jobs, h)
      /\ \A g : g # h => JobsOf(jobs', g) = JobsOf(jobs, g)
  BY DEF JobsOf
<1>4. Cardinality(JobsOf(jobs', h)) = pending[h] - 1 /\ pending[h] \in Nat
  <2>1. pending[h] = Cardinality(JobsOf(jobs, h))
    BY <1>1 DEF Counted
  <2>2. Cardinality(JobsOf(jobs, h) \ {job}) = Cardinality(JobsOf(jobs, h)) - 1
    BY <1>2, <1>3, FS_RemoveElement
  <2>. QED
    BY <1>2, <1>3, <2>1, <2>2
<1>5. CASE pending[h] = 1
  <2>1. /\ pending' = Restrict(pending, DOMAIN pending \ {h})
        /\ modifiers' = modifiers - 1
    BY <1>5 DEF CountDown
  <2>2. DOMAIN pending' = DOMAIN pending \ {h} /\ \A g \in DOMAIN pending' : pending'[g] = pending[g]
    BY <2>1 DEF Restrict
  <2>3. pending' = [g \in DOMAIN pending' |-> pending'[g]]
    BY <2>1 DEF Restrict
  <2>4. JobsOf(jobs', h) = {}
    <3>1. IsFiniteSet(JobsOf(jobs', h))
      BY <1>2, <1>3, FS_RemoveElement
    <3>. QED
      BY <1>4, <1>5, <3>1, FS_EmptySet
  <2>5. modifiers' = Cardinality(DOMAIN pending')
    <3>1. IsFiniteSet(DOMAIN pending)
      BY FewHandlers DEF Counted
    <3>2. Cardinality(DOMAIN pending \ {h}) = Cardinality(DOMAIN pending) - 1
      BY <1>1, <3>1, FS_RemoveElement
    <3>. QED
      BY <2>1, <2>2, <3>2 DEF Counted
  <2>6. \A j \in jobs' : j.handler \in DOMAIN pending'
    BY <2>2, <2>4 DEF JobsOf, Counted
  <2>7. \A g \in DOMAIN pending' : pending'[g] = Cardinality(JobsOf(jobs', g)) /\ pending'[g] # 0
    BY <1>3, <2>2 DEF Counted
  <2>. QED
    BY <1>1, <2>2, <2>3, <2>5, <2>6, <2>7 DEF Counted
<1>6. CASE pending[h] # 1
  <2>1. /\ pending' = [pending EXCEPT ![h] = @ - 1]
        /\ modifiers' = modifiers
    BY <1>6 DEF CountDown
  <2>2. DOMAIN pending' = DOMAIN pending /\ pending' = [g \in DOMAIN pending' |-> pending'[g]]
    BY <2>1
  <2>3. pending'[h] = pending[h] - 1 /\ \A g \in DOMAIN pending : g # h => pending'[g] = pending[g]
    BY <1>1, <2>1
  <2>4. pending[h] # 0
    BY <1>1 DEF Counted
  <2>5. \A g \in DOMAIN pending' : pending'[g] = Cardinality(JobsOf(jobs', g)) /\ pending'[g] # 0
    <3>1. ASSUME NEW g \in DOMAIN pending, g # h
          PROVE  pending'[g] = Cardinality(JobsOf(jobs', g)) /\ pending'[g] # 0
      BY <1>3, <2>3, <3>1 DEF Counted
    <3>2. pending'[h] = Cardinality(JobsOf(jobs', h)) /\ pending'[h] # 0
      BY <1>4, <1>6, <2>3
    <3>. QED
      BY <2>2, <3>1, <3>2
  <2>. QED
    BY <1>1, <2>1, <2>2, <2>5 DEF Counted
<1>. QED
  BY <1>5, <1>6
-------------------------------------------------------------------------------
(* Types.                                                                       *)

\* TypeOK without what follows from the count.
Typed ==
  /\ opens \in [Projects -> 0 .. MaxOpens]
  /\ listed \in [Projects -> SUBSET Files]
  /\ contents \in [Files -> 1 .. MaxVersion]
  /\ timers \subseteq Files
  /\ projects \in Seq(Projects) /\ NoRepeat(projects)
  /\ builders \in [Stored -> 0 .. MaxBuilders]
  /\ DOMAIN files = Stored
  /\ \A p \in Stored : files[p] \in [DOMAIN files[p] -> Entry] /\ DOMAIN files[p] \subseteq Files
  /\ \A h \in DOMAIN pending : pending[h] \in 1 .. Cardinality(Projects)
  /\ jobs \subseteq Job

LEMMA StoredProjects ==
  ASSUME Typed
  PROVE  Stored \subseteq Projects /\ IsFiniteSet(Stored)
<1>1. Stored \subseteq Projects
  BY RangeOfSeq DEF Typed, Stored
<1>. QED
  BY <1>1, FS_Subset, BoundsAssumption

LEMMA ProjectCounted ==
  ASSUME Typed, NEW P \in SUBSET Stored
  PROVE  IsFiniteSet(P) /\ Cardinality(P) \in Nat /\ Cardinality(P) <= Cardinality(Projects)
<1>1. P \in SUBSET Projects
  BY StoredProjects
<1>. QED
  BY <1>1, FS_Subset, FS_CardinalityType, BoundsAssumption

\* The types that a new handler may disturb.
LEMMA HandlerTyped ==
  ASSUME Typed, Counted, NEW h \in Handlers, NEW lists, DOMAIN lists \in SUBSET Stored,
         DOMAIN lists # {}, MayStart(h, DOMAIN lists),
         \A p \in DOMAIN lists : lists[p] \subseteq Files,
         StartHandler(h, lists)
  PROVE  /\ builders' \in [Stored -> 0 .. MaxBuilders]
         /\ \A g \in DOMAIN pending' : pending'[g] \in 1 .. Cardinality(Projects)
         /\ jobs' \subseteq Job
<1>1. \A p \in DOMAIN lists : ProjectBuildersCount(p) = builders[p] /\ builders[p] < MaxBuilders
  BY DEF MayStart, ProjectBuildersCount
<1>2. \A p \in Stored : builders[p] \in 0 .. MaxBuilders
  BY DEF Typed
<1>3. MaxBuilders \in Nat
  BY BoundsAssumption
<1>4. builders' \in [Stored -> 0 .. MaxBuilders]
  <2>1. builders' = [p \in Stored |-> builders[p] + (IF p \in DOMAIN lists THEN 1 ELSE 0)]
    BY DEF StartHandler
  <2>2. \A p \in Stored : builders[p] + (IF p \in DOMAIN lists THEN 1 ELSE 0) \in 0 .. MaxBuilders
    BY <1>1, <1>2, <1>3
  <2>. QED
    BY <2>1, <2>2
<1>5. ASSUME NEW g \in DOMAIN pending'
      PROVE  pending'[g] \in 1 .. Cardinality(Projects)
  <2>1. Cardinality(DOMAIN lists) \in 1 .. Cardinality(Projects)
    <3>1. IsFiniteSet(DOMAIN lists) /\ Cardinality(DOMAIN lists) \in Nat
          /\ Cardinality(DOMAIN lists) <= Cardinality(Projects)
      BY ProjectCounted
    <3>2. Cardinality(DOMAIN lists) # 0
      BY <3>1, FS_EmptySet
    <3>3. Cardinality(Projects) \in Nat
      BY FS_CardinalityType, BoundsAssumption
    <3>. QED
      BY <3>1, <3>2, <3>3
  <2>2. pending' = [k \in DOMAIN pending \cup {h} |->
                     IF k = h THEN Cardinality(DOMAIN lists) ELSE pending[k]]
    BY DEF StartHandler
  <2>. QED
    BY <2>1, <2>2 DEF Typed
<1>6. ASSUME NEW p \in DOMAIN lists
      PROVE  [handler |-> h, project |-> p, index |-> ProjectBuildersCount(p) + 1,
              documents |-> Restrict(contents, lists[p])] \in Job
  <2>1. p \in Projects
    BY StoredProjects
  <2>2. ProjectBuildersCount(p) + 1 \in 0 .. MaxBuilders + 1
    BY <1>1, <1>2, <1>3
  <2>3. Restrict(contents, lists[p]) \in [lists[p] -> 1 .. MaxVersion]
    BY DEF Restrict, Typed
  <2>4. Restrict(contents, lists[p]) \in UNION {[F -> 1 .. MaxVersion] : F \in SUBSET Files}
    BY <2>3
  <2>. QED
    BY <2>1, <2>2, <2>4 DEF Job
<1>7. jobs' \subseteq Job
  BY <1>6 DEF StartHandler, Typed
<1>. QED
  BY <1>4, <1>5, <1>7

\* A reset leaves counts, and counts of zero only when none is at work.
LEMMA ResetTyped ==
  ASSUME NEW left, NEW D, NEW counts \in [D -> 0 .. MaxBuilders]
  PROVE  /\ ResetAtLast(left, counts) \in [D -> 0 .. MaxBuilders]
         /\ left # 0 => ResetAtLast(left, counts) = counts
  BY BoundsAssumption DEF ResetAtLast
LEMMA ProjectAddedTyped ==
  ASSUME Typed, NEW p \in Projects, ProjectAdded(p)
  PROVE  Typed'
<1>1. /\ projects' = Append(projects, p) /\ p \notin Stored
      /\ files' = [q \in Stored \cup {p} |-> IF q = p THEN << >> ELSE files[q]]
      /\ UNCHANGED <<listed, contents, timers, pending, jobs>>
  BY DEF ProjectAdded, PassingHandler
<1>2. projects' \in Seq(Projects) /\ NoRepeat(projects') /\ Stored' = Stored \cup {p}
  BY <1>1, AppendListProperties DEF Typed, Stored
<1>3. opens' \in [Projects -> 0 .. MaxOpens]
  BY BoundsAssumption DEF ProjectAdded, Typed
<1>4. builders' \in [Stored' -> 0 .. MaxBuilders]
  <2>1. [q \in Stored \cup {p} |-> IF q = p THEN 0 ELSE builders[q]] \in [Stored \cup {p} -> 0 .. MaxBuilders]
    BY BoundsAssumption DEF Typed
  <2>. QED
    BY <1>2, <2>1, ResetTyped DEF ProjectAdded, PassingHandler
<1>5. DOMAIN files' = Stored'
  BY <1>1, <1>2
<1>6. ASSUME NEW q \in Stored'
      PROVE  files'[q] \in [DOMAIN files'[q] -> Entry] /\ DOMAIN files'[q] \subseteq Files
  <2>1. CASE q = p
    <3>1. files'[q] = << >>
      BY <1>1, <2>1
    <3>. QED
      BY <3>1
  <2>2. CASE q # p
    BY <1>1, <1>2, <2>2 DEF Typed
  <2>. QED
    BY <2>1, <2>2
<1>. QED
  BY <1>1, <1>2, <1>3, <1>4, <1>5, <1>6 DEF Typed

LEMMA ProjectRemovedTyped ==
  ASSUME Typed, NEW p \in Projects, ProjectRemoved(p)
  PROVE  Typed'
<1>1. /\ projects' = RemoveOne(projects, p)
      /\ files' = Restrict(files, Stored \ {p})
      /\ UNCHANGED <<opens, contents, timers, pending, jobs>>
  BY DEF ProjectRemoved, PassingHandler
<1>2. projects' \in Seq(Projects) /\ NoRepeat(projects') /\ Stored' = Stored \ {p}
  BY <1>1, RemoveOneProperties DEF Typed, Stored
<1>3. listed' \in [Projects -> SUBSET Files]
  BY DEF ProjectRemoved, Typed
<1>4. builders' \in [Stored' -> 0 .. MaxBuilders]
  <2>1. Restrict(builders, Stored \ {p}) \in [Stored \ {p} -> 0 .. MaxBuilders]
    BY DEF Typed, Restrict
  <2>. QED
    BY <1>2, <2>1, ResetTyped DEF ProjectRemoved, PassingHandler
<1>5. DOMAIN files' = Stored' /\ \A q \in Stored' : files'[q] = files[q]
  BY <1>1, <1>2 DEF Restrict
<1>6. \A q \in Stored' : files'[q] \in [DOMAIN files'[q] -> Entry] /\ DOMAIN files'[q] \subseteq Files
  BY <1>2, <1>5 DEF Typed
<1>. QED
  BY <1>1, <1>2, <1>3, <1>4, <1>5, <1>6 DEF Typed

LEMMA FileListChangedTyped ==
  ASSUME Typed, Counted, NEW h \in Handlers, NEW p \in Projects, NEW list \in SUBSET Files,
         FileListChanged(h, p, list)
  PROVE  Typed'
<1>. DEFINE lists == [q \in {p} |-> list]
<1>1. /\ p \in Stored /\ MayStart(h, {p})
      /\ listed' = [listed EXCEPT ![p] = list]
      /\ files' = [files EXCEPT ![p] = WithoutStale(p, list)]
      /\ StartHandler(h, lists)
      /\ UNCHANGED <<opens, contents, timers, projects>>
  BY DEF FileListChanged
<1>2. DOMAIN lists = {p} /\ \A q \in DOMAIN lists : lists[q] \subseteq Files
  OBVIOUS
<1>. HIDE DEF lists
<1>3. /\ builders' \in [Stored -> 0 .. MaxBuilders]
      /\ \A g \in DOMAIN pending' : pending'[g] \in 1 .. Cardinality(Projects)
      /\ jobs' \subseteq Job
  BY <1>1, <1>2, HandlerTyped
<1>4. Stored' = Stored
  BY <1>1 DEF Stored
<1>5. WithoutStale(p, list) \in [DOMAIN files[p] \cap list -> Entry]
  BY <1>1 DEF WithoutStale, Restrict, Typed
<1>6. DOMAIN files' = Stored /\ files'[p] = WithoutStale(p, list)
      /\ \A q \in Stored \ {p} : files'[q] = files[q]
  BY <1>1 DEF Typed
<1>7. ASSUME NEW q \in Stored
      PROVE  files'[q] \in [DOMAIN files'[q] -> Entry] /\ DOMAIN files'[q] \subseteq Files
  <2>1. CASE q = p
    BY <1>5, <1>6, <2>1
  <2>2. CASE q # p
    BY <1>6, <2>2 DEF Typed
  <2>. QED
    BY <2>1, <2>2
<1>8. listed' \in [Projects -> SUBSET Files]
  BY <1>1 DEF Typed
<1>. QED
  BY <1>1, <1>3, <1>4, <1>6, <1>7, <1>8 DEF Typed

LEMMA ProcessDocumentTyped ==
  ASSUME Typed, Counted, NEW h \in Handlers, NEW f \in Files, ProcessDocument(h, f)
  PROVE  Typed'
<1>. DEFINE P == ProjectsForFile(f)
            lists == [p \in P |-> DOMAIN files[p]]
<1>1. /\ timers' = timers \ {f} /\ MayStart(h, P)
      /\ UNCHANGED <<opens, listed, contents, projects, files>>
  BY DEF ProcessDocument
<1>2. Stored' = Stored /\ P \subseteq Stored /\ DOMAIN lists = P
  BY <1>1 DEF Stored, ProjectsForFile
<1>3. /\ builders' \in [Stored -> 0 .. MaxBuilders]
      /\ \A g \in DOMAIN pending' : pending'[g] \in 1 .. Cardinality(Projects)
      /\ jobs' \subseteq Job
  <2>1. CASE P = {}
    <3>1. PassingHandler(builders)
      BY <2>1 DEF ProcessDocument
    <3>2. builders \in [Stored -> 0 .. MaxBuilders]
      BY DEF Typed
    <3>. QED
      BY <3>1, <3>2, ResetTyped DEF PassingHandler, Typed
  <2>2. CASE P # {}
    <3>1. StartHandler(h, lists)
      BY <2>2 DEF ProcessDocument
    <3>2. \A p \in DOMAIN lists : lists[p] \subseteq Files
      BY <1>2 DEF Typed
    <3>. HIDE DEF lists, P
    <3>. QED
      BY <1>1, <1>2, <2>2, <3>1, <3>2, HandlerTyped
  <2>. QED
    BY <2>1, <2>2
<1>. QED
  BY <1>1, <1>2, <1>3 DEF Typed
\* The project whose entry an edit pollutes is stored and has the file.
LEMMA AnyFileHasIt ==
  ASSUME Typed, NEW f, Having(f) # {}
  PROVE  AnyFile(f) \in DOMAIN projects /\ projects[AnyFile(f)] \in Stored
         /\ f \in DOMAIN files[projects[AnyFile(f)]]
<1>1. Having(f) \in SUBSET Nat
  BY LenProperties DEF Having, Typed
<1>2. \E k \in Having(f) : \A m \in Having(f) : k <= m
  BY <1>1, LeastNat
<1>3. AnyFile(f) \in Having(f)
  BY <1>2 DEF AnyFile
<1>. QED
  BY <1>3 DEF Having, Stored, Range

\* An edit keeps the entries there are, and their versions.
LEMMA EntriesKept ==
  ASSUME Typed, NEW f \in Files, FileContentChanged(f)
  PROVE  /\ DOMAIN files' = Stored
         /\ \A p \in Stored :
              /\ files'[p] \in [DOMAIN files[p] -> Entry]
              /\ \A g \in DOMAIN files[p] : files'[p][g].version = files[p][g].version
         /\ Having(f) # {} => f \in timers'
         /\ timers \subseteq timers' /\ timers' \subseteq timers \cup {f}
<1>1. CASE Having(f) = {}
  BY <1>1 DEF FileContentChanged, Typed
<1>2. CASE Having(f) # {}
  <2>. DEFINE r == projects[AnyFile(f)]
  <2>1. r \in Stored /\ f \in DOMAIN files[r] /\ files[r] \in [DOMAIN files[r] -> Entry]
    BY <1>2, AnyFileHasIt DEF Typed
  <2>2. files' = [files EXCEPT ![r][f].polluted = TRUE] /\ timers' = timers \cup {f}
    BY <1>2 DEF FileContentChanged
  <2>. HIDE DEF r
  <2>3. DOMAIN files' = Stored /\ \A p \in Stored : p # r => files'[p] = files[p]
    BY <2>2 DEF Typed
  <2>4. files'[r] = [files[r] EXCEPT ![f].polluted = TRUE]
    BY <2>1, <2>2 DEF Typed
  <2>5. files[r][f] \in Entry /\ [files[r][f] EXCEPT !.polluted = TRUE] \in Entry
        /\ [files[r][f] EXCEPT !.polluted = TRUE].version = files[r][f].version
    BY <2>1 DEF Entry
  <2>6. /\ files'[r] \in [DOMAIN files[r] -> Entry]
        /\ \A g \in DOMAIN files[r] : files'[r][g].version = files[r][g].version
    BY <2>1, <2>4, <2>5
  <2>. QED
    BY <2>2, <2>3, <2>6 DEF Typed
<1>. QED
  BY <1>1, <1>2

LEMMA FileContentChangedTyped ==
  ASSUME Typed, NEW f \in Files, FileContentChanged(f)
  PROVE  Typed'
<1>1. /\ contents[f] < MaxVersion /\ contents' = [contents EXCEPT ![f] = @ + 1]
      /\ UNCHANGED <<opens, listed, projects, builders, modifiers, pending, jobs>>
  BY DEF FileContentChanged
<1>2. contents' \in [Files -> 1 .. MaxVersion]
  BY <1>1, BoundsAssumption DEF Typed
<1>3. Stored' = Stored
  BY <1>1 DEF Stored
<1>4. \A p \in Stored : files'[p] \in [DOMAIN files'[p] -> Entry] /\ DOMAIN files'[p] \subseteq Files
  <2>. SUFFICES ASSUME NEW p \in Stored
                PROVE  files'[p] \in [DOMAIN files'[p] -> Entry] /\ DOMAIN files'[p] \subseteq Files
    OBVIOUS
  <2>1. files'[p] \in [DOMAIN files[p] -> Entry] /\ DOMAIN files[p] \subseteq Files
    BY EntriesKept DEF Typed
  <2>. QED
    BY <2>1
<1>. QED
  BY <1>1, <1>2, <1>3, <1>4, EntriesKept DEF Typed

\* What an answer makes of the entries.
LEMMA HandledEntries ==
  ASSUME Typed, NEW job \in jobs, NEW outcome \in [DOMAIN job.documents -> Outcomes]
  PROVE  /\ DOMAIN Handled(job, outcome) = Stored
         /\ \A p \in Stored : Handled(job, outcome)[p] \in [DOMAIN Handled(job, outcome)[p] -> Entry]
         /\ \A p \in Stored : DOMAIN Handled(job, outcome)[p] \subseteq Files
         /\ \A p \in Stored :
              Handled(job, outcome)[p] = files[p]
              \/ /\ p = job.project /\ ~Outdated(job)
                 /\ DOMAIN Handled(job, outcome)[p] \subseteq DOMAIN files[p] \cup DOMAIN job.documents
                 /\ \A f \in DOMAIN Handled(job, outcome)[p] :
                      \/ f \in DOMAIN files[p] /\ Handled(job, outcome)[p][f].version = files[p][f].version
                      \/ /\ f \in DOMAIN job.documents
                         /\ Handled(job, outcome)[p][f].version = job.documents[f]
                      \/ f \notin DOMAIN files[p] /\ Handled(job, outcome)[p][f].version = 0
<1>1. job.documents \in [DOMAIN job.documents -> 1 .. MaxVersion] /\ DOMAIN job.documents \subseteq Files
  BY DEF Typed, Job
<1>2. MaxVersion \in Nat
  BY BoundsAssumption
<1>3. DOMAIN outcome = DOMAIN job.documents
  OBVIOUS
<1>4. CASE job.project \notin Stored \/ Outdated(job)
  <2>1. Handled(job, outcome) = files
    BY <1>4 DEF Handled
  <2>. QED
    BY <2>1 DEF Typed
<1>5. CASE job.project \in Stored /\ ~Outdated(job)
  <2>. DEFINE p == job.project
              made == IF Errored(outcome) THEN FailureEntries(files[p], job, outcome)
                                          ELSE SuccessEntries(files[p], job, outcome)
  <2>1. Handled(job, outcome) = [files EXCEPT ![p] = made]
    BY <1>5 DEF Handled, Typed
  <2>2. files[p] \in [DOMAIN files[p] -> Entry] /\ DOMAIN files[p] \subseteq Files
    BY <1>5 DEF Typed
  <2>3. /\ made \in [DOMAIN made -> Entry]
        /\ DOMAIN made \subseteq DOMAIN files[p] \cup DOMAIN job.documents
        /\ \A f \in DOMAIN made :
             \/ f \in DOMAIN files[p] /\ made[f].version = files[p][f].version
             \/ f \in DOMAIN job.documents /\ made[f].version = job.documents[f]
             \/ f \notin DOMAIN files[p] /\ made[f].version = 0
    <3>1. CASE Errored(outcome)
      <4>1. made = FailureEntries(files[p], job, outcome)
        BY <3>1
      <4>2. DOMAIN made = DOMAIN files[p] \cup DOMAIN job.documents
        BY <1>3, <4>1 DEF FailureEntries
      <4>3. ASSUME NEW f \in DOMAIN made
            PROVE  /\ made[f] \in Entry
                   /\ \/ f \in DOMAIN files[p] /\ made[f].version = files[p][f].version
                      \/ f \notin DOMAIN files[p] /\ made[f].version = 0
        <5>. DEFINE kept == [files[p][f] EXCEPT !.errors = (outcome[f] = "located")]
                    empty == [version |-> 0, errors |-> (outcome[f] = "located"), polluted |-> FALSE]
        <5>1. made[f] = IF f \notin DOMAIN outcome THEN files[p][f]
                        ELSE IF f \in DOMAIN files[p] THEN kept ELSE empty
          BY <1>3, <4>1, <4>2 DEF FailureEntries
        <5>2. f \in DOMAIN files[p] =>
                files[p][f] \in Entry /\ kept \in Entry /\ kept.version = files[p][f].version
          BY <2>2 DEF Entry
        <5>3. empty \in Entry /\ empty.version = 0
          BY <1>2 DEF Entry
        <5>. HIDE DEF made, kept, empty
        <5>. QED
          BY <1>3, <4>2, <5>1, <5>2, <5>3
      <4>4. made = [f \in DOMAIN made |-> made[f]]
        BY <4>1 DEF FailureEntries
      <4>. QED
        BY <4>2, <4>3, <4>4
    <3>2. CASE ~Errored(outcome)
      <4>. DEFINE parsed == {f \in DOMAIN outcome : outcome[f] = "parsed"}
      <4>1. made = SuccessEntries(files[p], job, outcome)
        BY <3>2
      <4>2. DOMAIN made = DOMAIN files[p] \cup parsed
        BY <4>1 DEF SuccessEntries
      <4>3. ASSUME NEW f \in DOMAIN made
            PROVE  /\ made[f] \in Entry
                   /\ \/ f \in DOMAIN files[p] /\ made[f].version = files[p][f].version
                      \/ f \in DOMAIN job.documents /\ made[f].version = job.documents[f]
        <5>1. made[f] = IF f \in parsed
                          THEN [version |-> job.documents[f], errors |-> FALSE, polluted |-> FALSE]
                          ELSE files[p][f]
          BY <4>1, <4>2 DEF SuccessEntries
        <5>2. f \in parsed => f \in DOMAIN job.documents /\ job.documents[f] \in 0 .. MaxVersion
          BY <1>1, <1>2, <1>3
        <5>3. f \notin parsed => f \in DOMAIN files[p] /\ files[p][f] \in Entry
          BY <2>2, <4>2
        <5>. HIDE DEF made, parsed
        <5>. QED
          BY <5>1, <5>2, <5>3 DEF Entry
      <4>4. made = [f \in DOMAIN made |-> made[f]]
        BY <4>1 DEF SuccessEntries
      <4>5. parsed \subseteq DOMAIN job.documents
        BY <1>3
      <4>. HIDE DEF made, parsed
      <4>. QED
        BY <4>2, <4>3, <4>4, <4>5
    <3>. QED
      BY <3>1, <3>2
  <2>. HIDE DEF made
  <2>4. DOMAIN [files EXCEPT ![p] = made] = Stored /\ [files EXCEPT ![p] = made][p] = made
        /\ \A q \in Stored : q # p => [files EXCEPT ![p] = made][q] = files[q]
    BY <1>5 DEF Typed
  <2>5. DOMAIN made \subseteq Files
    BY <1>1, <2>2, <2>3
  <2>. HIDE DEF p
  <2>6. ASSUME NEW q \in Stored, q # p
        PROVE  files[q] \in [DOMAIN files[q] -> Entry] /\ DOMAIN files[q] \subseteq Files
    BY DEF Typed
  <2>7. p = job.project
    BY DEF p
  <2>. QED
    BY <1>5, <2>1, <2>3, <2>4, <2>5, <2>6, <2>7
<1>. QED
  BY <1>4, <1>5
LEMMA FilesProcessedTyped ==
  ASSUME Typed, Counted, NEW h \in Handlers, NEW p \in Projects, FilesProcessed(h, p)
  PROVE  Typed' /\ Counted'
<1>1. PICK job \in jobs : /\ jobs' = jobs \ {job}
                          /\ \E outcome \in [DOMAIN job.documents -> Outcomes] :
                               files' = Handled(job, outcome)
                          /\ CountDown(job)
                          /\ UNCHANGED <<session, projects>>
  BY DEF FilesProcessed
<1>2. PICK outcome \in [DOMAIN job.documents -> Outcomes] : files' = Handled(job, outcome)
  BY <1>1
<1>3. Stored' = Stored
  BY <1>1 DEF Stored
<1>4. /\ DOMAIN files' = Stored
      /\ \A q \in Stored : files'[q] \in [DOMAIN files'[q] -> Entry] /\ DOMAIN files'[q] \subseteq Files
  BY <1>2, HandledEntries
<1>5. builders' \in [Stored -> 0 .. MaxBuilders]
  <2>1. builders \in [Stored -> 0 .. MaxBuilders]
    BY DEF Typed
  <2>2. builders' = builders \/ builders' = ResetAtLast(modifiers - 1, builders)
    BY <1>1 DEF CountDown
  <2>. QED
    BY <2>1, <2>2, ResetTyped
<1>6. Counted'
  BY <1>1, AnswerCounted
<1>7. ASSUME NEW g \in DOMAIN pending'
      PROVE  pending'[g] \in 1 .. Cardinality(Projects)
  <2>1. job.handler \in DOMAIN pending /\ \A k \in DOMAIN pending : pending[k] \in 1 .. Cardinality(Projects)
    BY DEF Typed, Counted
  <2>2. CASE pending[job.handler] = 1
    BY <1>1, <2>1, <2>2 DEF CountDown, Restrict
  <2>3. CASE pending[job.handler] # 1
    <3>1. pending' = [pending EXCEPT ![job.handler] = @ - 1]
      BY <1>1, <2>3 DEF CountDown
    <3>2. Cardinality(Projects) \in Nat
      BY FS_CardinalityType, BoundsAssumption
    <3>. QED
      BY <2>1, <2>3, <3>1, <3>2
  <2>. QED
    BY <2>2, <2>3
<1>. QED
  BY <1>1, <1>3, <1>4, <1>5, <1>6, <1>7 DEF Typed, session

\* A handler that starts no processor leaves the count alone.
LEMMA PassingCounted ==
  ASSUME Counted, UNCHANGED <<modifiers, pending, jobs>>
  PROVE  Counted'
BY DEF Counted, JobsOf

Sound == Typed /\ Counted

LEMMA InitSound == Init => Sound
<1>. SUFFICES ASSUME Init PROVE Sound
  OBVIOUS
<1>1. Stored = {}
  BY DEF Init, Stored, Range
<1>2. NoRepeat(projects) /\ projects \in Seq(Projects)
  BY DEF Init, NoRepeat
<1>3. DOMAIN pending = {} /\ DOMAIN builders = {} /\ DOMAIN files = {}
  BY DEF Init
<1>4. builders \in [Stored -> 0 .. MaxBuilders]
  BY <1>1 DEF Init
<1>5. Typed
  BY <1>1, <1>2, <1>3, <1>4, BoundsAssumption DEF Init, Typed
<1>6. Counted
  BY <1>3, FS_EmptySet DEF Init, Counted
<1>. QED
  BY <1>5, <1>6 DEF Sound

LEMMA StepSound == Sound /\ [Next]_vars => Sound'
<1>. SUFFICES ASSUME Sound, [Next]_vars PROVE Sound'
  OBVIOUS
<1>. USE DEF Sound
<1>1. ASSUME NEW p \in Projects, ProjectAdded(p) PROVE Sound'
  BY <1>1, ProjectAddedTyped, PassingCounted DEF ProjectAdded, PassingHandler
<1>2. ASSUME NEW p \in Projects, ProjectRemoved(p) PROVE Sound'
  BY <1>2, ProjectRemovedTyped, PassingCounted DEF ProjectRemoved, PassingHandler
<1>3. ASSUME NEW h \in Handlers, NEW p \in Projects, NEW list \in SUBSET Files, FileListChanged(h, p, list)
      PROVE  Sound'
  <2>1. Typed'
    BY <1>3, FileListChangedTyped
  <2>. DEFINE lists == [q \in {p} |-> list]
  <2>2. StartHandler(h, lists) /\ h \notin DOMAIN pending /\ DOMAIN lists = {p}
    BY <1>3 DEF FileListChanged, MayStart
  <2>3. IsFiniteSet(DOMAIN lists) /\ DOMAIN lists # {}
    BY <2>2, FS_Singleton
  <2>. HIDE DEF lists
  <2>4. Counted'
    BY <2>2, <2>3, HandlerCounted
  <2>. QED
    BY <2>1, <2>4
<1>4. ASSUME NEW f \in Files, FileContentChanged(f) PROVE Sound'
  BY <1>4, FileContentChangedTyped, PassingCounted DEF FileContentChanged
<1>5. ASSUME NEW h \in Handlers, NEW f \in Files, ProcessDocument(h, f) PROVE Sound'
  <2>1. Typed'
    BY <1>5, ProcessDocumentTyped
  <2>2. CASE ProjectsForFile(f) = {}
    BY <1>5, <2>1, <2>2, PassingCounted DEF ProcessDocument, PassingHandler
  <2>3. CASE ProjectsForFile(f) # {}
    <3>. DEFINE lists == [p \in ProjectsForFile(f) |-> DOMAIN files[p]]
    <3>1. StartHandler(h, lists) /\ h \notin DOMAIN pending /\ DOMAIN lists = ProjectsForFile(f)
      BY <1>5, <2>3 DEF ProcessDocument, MayStart
    <3>2. IsFiniteSet(ProjectsForFile(f))
      BY ProjectCounted DEF ProjectsForFile
    <3>. HIDE DEF lists
    <3>. QED
      BY <2>1, <2>3, <3>1, <3>2, HandlerCounted
  <2>. QED
    BY <2>2, <2>3
<1>6. ASSUME NEW h \in Handlers, NEW p \in Projects, FilesProcessed(h, p) PROVE Sound'
  BY <1>6, FilesProcessedTyped
<1>7. CASE UNCHANGED vars
  BY <1>7 DEF vars, session, Typed, Counted, JobsOf, Stored
<1>. QED
  BY <1>1, <1>2, <1>3, <1>4, <1>5, <1>6, <1>7 DEF Next

LEMMA SoundHolds == Spec => []Sound
  BY InitSound, StepSound, PTL DEF Spec

-------------------------------------------------------------------------------
(* The order of answers, for projects in their first life.                      *)

First == {p \in Stored : opens[p] = 1}

\* The answer that counts, if it is to one of the project's processors at work.
IsLast(j) == j.project \in First /\ j.index = builders[j.project]

\* Jobs are numbered in their order, and the last one has none but listed files.
InOrder ==
  /\ \A p \in Stored : opens[p] # 0
  /\ \A j \in jobs : opens[j.project] # 0
  /\ \A p \in First : DOMAIN files[p] \subseteq listed[p]
  /\ \A j \in jobs : j.project \in First => j.index <= builders[j.project]
  /\ \A i, j \in jobs : IsLast(i) /\ IsLast(j) /\ i.project = j.project => i = j
  /\ \A j \in jobs : IsLast(j) => DOMAIN j.documents \subseteq listed[j.project]

\* The last job has no older text than the model, and none has a text to come.
NotOlder ==
  /\ \A p \in First : \A f \in DOMAIN files[p] : files[p][f].version <= contents[f]
  /\ \A j \in jobs : \A f \in DOMAIN j.documents : j.documents[f] <= contents[f]
  /\ \A j \in jobs : IsLast(j) =>
       \A f \in DOMAIN j.documents \cap DOMAIN files[j.project] :
         files[j.project][f].version <= j.documents[f]

LEMMA NoneWaitedFor ==
  ASSUME NEW D \in SUBSET Handlers, Cardinality(D) = 0, NEW J, \A j \in J : j.handler \in D
  PROVE  J = {}
<1>1. D = {}
  BY FewHandlers, FS_EmptySet
<1>. QED
  BY <1>1

LEMMA NoneAtWork ==
  ASSUME Counted, modifiers = 0
  PROVE  jobs = {}
BY NoneWaitedFor DEF Counted

\* The jobs after a handler started: what was last, and its own.
LEMMA LastOfHandler ==
  ASSUME Sound, InOrder, NEW h \in Handlers, NEW lists, DOMAIN lists \in SUBSET Stored,
         StartHandler(h, lists), UNCHANGED <<opens, projects>>
  PROVE  /\ First' = First /\ Stored' = Stored
         /\ jobs' = jobs \cup NewJobs(h, lists)
         /\ \A j \in NewJobs(h, lists) :
              /\ j.project \in DOMAIN lists /\ j.index = builders'[j.project]
              /\ j.documents = Restrict(contents, lists[j.project])
         /\ \A j \in jobs' : j.project \in First => j.index <= builders'[j.project]
         /\ \A j \in jobs' : IsLast(j)' =>
              \/ j \in jobs /\ IsLast(j) /\ j.project \notin DOMAIN lists
              \/ j \in NewJobs(h, lists)
         /\ \A i, j \in jobs' : IsLast(i)' /\ IsLast(j)' /\ i.project = j.project => i = j
         /\ \A j \in jobs : IsLast(j) /\ j.project \notin DOMAIN lists => IsLast(j)'
<1>1. First' = First /\ Stored' = Stored
  BY DEF First, Stored
<1>2. jobs' = jobs \cup NewJobs(h, lists)
  BY DEF StartHandler, NewJobs
<1>3. /\ \A p \in Stored : builders[p] \in Nat
      /\ \A p \in Stored : builders'[p] = builders[p] + (IF p \in DOMAIN lists THEN 1 ELSE 0)
  BY BoundsAssumption DEF Sound, Typed, StartHandler
<1>4. \A j \in jobs : j.index \in Nat
  BY BoundsAssumption DEF Sound, Typed, Job
<1>5. ASSUME NEW j \in NewJobs(h, lists)
      PROVE  /\ j.project \in DOMAIN lists /\ j.index = builders'[j.project]
             /\ j = [handler |-> h, project |-> j.project, index |-> builders'[j.project],
                     documents |-> Restrict(contents, lists[j.project])]
  <2>1. PICK p \in DOMAIN lists :
           j = [handler |-> h, project |-> p, index |-> ProjectBuildersCount(p) + 1,
                documents |-> Restrict(contents, lists[p])]
    BY DEF NewJobs
  <2>2. ProjectBuildersCount(p) + 1 = builders'[p]
    BY <1>3 DEF ProjectBuildersCount
  <2>. QED
    BY <2>1, <2>2
<1>6. ASSUME NEW j \in jobs, j.project \in First
      PROVE  /\ j.index <= builders'[j.project]
             /\ j.index = builders'[j.project] => IsLast(j) /\ j.project \notin DOMAIN lists
  <2>1. j.project \in Stored /\ j.index <= builders[j.project]
    BY <1>6 DEF InOrder, First
  <2>. QED
    BY <1>3, <1>4, <1>6, <2>1 DEF IsLast
<1>7. ASSUME NEW j \in jobs', IsLast(j)'
      PROVE  \/ j \in jobs /\ IsLast(j) /\ j.project \notin DOMAIN lists
             \/ j \in NewJobs(h, lists)
  <2>1. j.project \in First /\ j.index = builders'[j.project]
    BY <1>1, <1>7 DEF IsLast
  <2>. QED
    BY <1>2, <1>6, <2>1
<1>8. ASSUME NEW i \in jobs', NEW j \in jobs', IsLast(i)', IsLast(j)', i.project = j.project
      PROVE  i = j
  <2>1. CASE i.project \in DOMAIN lists
    <3>1. i \in NewJobs(h, lists) /\ j \in NewJobs(h, lists)
      BY <1>7, <1>8, <2>1
    <3>. QED
      BY <1>5, <1>8, <3>1
  <2>2. CASE i.project \notin DOMAIN lists
    <3>1. i \in jobs /\ IsLast(i) /\ j \in jobs /\ IsLast(j)
      BY <1>5, <1>7, <1>8, <2>2
    <3>. QED
      BY <1>8, <3>1 DEF InOrder
  <2>. QED
    BY <2>1, <2>2
<1>9. ASSUME NEW j \in jobs, IsLast(j), j.project \notin DOMAIN lists
      PROVE  IsLast(j)'
  BY <1>1, <1>3, <1>4, <1>9 DEF IsLast, First
<1>10. \A j \in NewJobs(h, lists) :
          /\ j.project \in DOMAIN lists /\ j.index = builders'[j.project]
          /\ j.documents = Restrict(contents, lists[j.project])
  BY <1>5
<1>11. \A j \in jobs' : j.project \in First => j.index <= builders'[j.project]
  <2>1. \A p \in Stored : builders'[p] <= builders'[p]
    BY <1>3
  <2>. QED
    BY <1>2, <1>5, <1>6, <2>1 DEF First
<1>. QED
  BY <1>1, <1>2, <1>7, <1>8, <1>9, <1>10, <1>11

\* A project that comes or goes leaves the jobs of the others, or there are none.
LEMMA PassingInOrder ==
  ASSUME Sound, InOrder, UNCHANGED jobs, NEW counts, builders' = ResetAtLast(modifiers, counts),
         \A p \in First' : (p \in First /\ counts[p] = builders[p]) \/ \A j \in jobs : j.project # p
  PROVE  \A j \in jobs : j.project \in First' =>
           j.project \in First /\ builders'[j.project] = builders[j.project] /\ (IsLast(j)' <=> IsLast(j))
<1>1. CASE modifiers = 0
  BY <1>1, NoneAtWork DEF Sound
<1>2. CASE modifiers # 0
  <2>1. builders' = counts
    BY <1>2 DEF ResetAtLast
  <2>. QED
    BY <2>1 DEF IsLast
<1>. QED
  BY <1>1, <1>2
Ordered == InOrder /\ NotOlder

LEMMA ProjectAddedOrdered ==
  ASSUME Sound, Ordered, NEW p \in Projects, ProjectAdded(p)
  PROVE  Ordered'
<1>. DEFINE counts == [q \in Stored \cup {p} |-> IF q = p THEN 0 ELSE builders[q]]
<1>1. /\ p \notin Stored /\ opens' = [opens EXCEPT ![p] = @ + 1]
      /\ projects' = Append(projects, p)
      /\ files' = [q \in Stored \cup {p} |-> IF q = p THEN << >> ELSE files[q]]
      /\ builders' = ResetAtLast(modifiers, counts)
      /\ UNCHANGED <<listed, contents, jobs>>
  BY DEF ProjectAdded, PassingHandler
<1>2. Stored' = Stored \cup {p}
  BY <1>1, AppendListProperties DEF Sound, Typed, Stored
<1>3. /\ \A q \in Projects : opens[q] \in Nat
      /\ opens'[p] = opens[p] + 1 /\ \A q \in Projects : q # p => opens'[q] = opens[q]
  BY <1>1, BoundsAssumption DEF Sound, Typed
<1>4. Stored \subseteq Projects /\ \A j \in jobs : j.project \in Projects
  BY StoredProjects DEF Sound, Typed, Job
<1>5. \A q \in First' : (q \in First /\ q # p) \/ (q = p /\ \A j \in jobs : j.project # p)
  <2>. SUFFICES ASSUME NEW q \in First'
                PROVE  (q \in First /\ q # p) \/ (q = p /\ \A j \in jobs : j.project # p)
    OBVIOUS
  <2>1. CASE q = p
    <3>1. opens[p] = 0
      BY <1>3, <2>1 DEF First
    <3>. QED
      BY <2>1, <3>1 DEF Ordered, InOrder
  <2>2. CASE q # p
    BY <1>2, <1>3, <1>4, <2>2 DEF First
  <2>. QED
    BY <2>1, <2>2
<1>6. \A q \in First' : (q \in First /\ counts[q] = builders[q]) \/ \A j \in jobs : j.project # q
  BY <1>5 DEF First
<1>. HIDE DEF counts
<1>7. \A j \in jobs : j.project \in First' =>
        j.project \in First /\ builders'[j.project] = builders[j.project] /\ (IsLast(j)' <=> IsLast(j))
  BY <1>1, <1>6, PassingInOrder DEF Ordered
<1>8. \A q \in First' : (q \in First /\ files'[q] = files[q]) \/ DOMAIN files'[q] = {}
  BY <1>1, <1>5 DEF First
<1>9. \A j : IsLast(j)' => j.project \in First'
  BY DEF IsLast
<1>10. \A j \in jobs : j.project \in First => p # j.project
  BY <1>1 DEF First
<1>11. InOrder'
  <2>1. \A q \in Stored' : opens'[q] # 0
    BY <1>2, <1>3, <1>4 DEF Ordered, InOrder
  <2>2. \A j \in jobs : opens'[j.project] # 0
    BY <1>3, <1>4 DEF Ordered, InOrder
  <2>3. \A q \in First' : DOMAIN files'[q] \subseteq listed'[q]
    BY <1>1, <1>8 DEF Ordered, InOrder
  <2>. QED
    BY <1>1, <1>7, <1>9, <2>1, <2>2, <2>3 DEF Ordered, InOrder
<1>12. NotOlder'
  <2>1. \A j \in jobs : j.project \in First' => files'[j.project] = files[j.project]
    BY <1>1, <1>7, <1>10 DEF First
  <2>. QED
    BY <1>1, <1>7, <1>8, <1>9, <2>1 DEF Ordered, NotOlder
<1>. QED
  BY <1>11, <1>12 DEF Ordered

LEMMA ProjectRemovedOrdered ==
  ASSUME Sound, Ordered, NEW p \in Projects, ProjectRemoved(p)
  PROVE  Ordered'
<1>. DEFINE counts == Restrict(builders, Stored \ {p})
<1>1. /\ projects' = RemoveOne(projects, p)
      /\ listed' = [listed EXCEPT ![p] = {}]
      /\ files' = Restrict(files, Stored \ {p})
      /\ builders' = ResetAtLast(modifiers, counts)
      /\ UNCHANGED <<opens, contents, jobs>>
  BY DEF ProjectRemoved, PassingHandler
<1>2. Stored' = Stored \ {p}
  BY <1>1, RemoveOneProperties DEF Sound, Typed, Stored
<1>3. First' = First \ {p}
  BY <1>1, <1>2 DEF First
<1>4. /\ \A q \in First' : counts[q] = builders[q] /\ files'[q] = files[q]
      /\ \A q \in First' : listed'[q] = listed[q]
  BY <1>1, <1>3, StoredProjects DEF First, Restrict, Sound, Typed
<1>. HIDE DEF counts
<1>5. \A j \in jobs : j.project \in First' =>
        j.project \in First /\ builders'[j.project] = builders[j.project] /\ (IsLast(j)' <=> IsLast(j))
  BY <1>1, <1>3, <1>4, PassingInOrder DEF Ordered
<1>6. \A j : IsLast(j)' => j.project \in First'
  BY DEF IsLast
<1>7. InOrder'
  BY <1>1, <1>2, <1>3, <1>4, <1>5, <1>6 DEF Ordered, InOrder
<1>8. NotOlder'
  BY <1>1, <1>3, <1>4, <1>5, <1>6 DEF Ordered, NotOlder
<1>. QED
  BY <1>7, <1>8 DEF Ordered

LEMMA FileListChangedOrdered ==
  ASSUME Sound, Ordered, NEW h \in Handlers, NEW p \in Projects, NEW list \in SUBSET Files,
         FileListChanged(h, p, list)
  PROVE  Ordered'
<1>. DEFINE lists == [q \in {p} |-> list]
<1>1. /\ p \in Stored /\ listed' = [listed EXCEPT ![p] = list]
      /\ files' = [files EXCEPT ![p] = WithoutStale(p, list)]
      /\ StartHandler(h, lists)
      /\ UNCHANGED <<opens, contents, projects>>
  BY DEF FileListChanged
<1>2. DOMAIN lists = {p} /\ lists[p] = list
  OBVIOUS
<1>. HIDE DEF lists
<1>3. DOMAIN lists \in SUBSET Stored
  BY <1>1, <1>2
<1>4. /\ First' = First /\ Stored' = Stored
      /\ jobs' = jobs \cup NewJobs(h, lists)
      /\ \A j \in NewJobs(h, lists) :
           /\ j.project \in DOMAIN lists /\ j.index = builders'[j.project]
           /\ j.documents = Restrict(contents, lists[j.project])
      /\ \A j \in jobs' : j.project \in First => j.index <= builders'[j.project]
      /\ \A j \in jobs' : IsLast(j)' =>
           \/ j \in jobs /\ IsLast(j) /\ j.project \notin DOMAIN lists
           \/ j \in NewJobs(h, lists)
      /\ \A i, j \in jobs' : IsLast(i)' /\ IsLast(j)' /\ i.project = j.project => i = j
  BY <1>1, <1>3, LastOfHandler DEF Ordered
<1>5. /\ listed'[p] = list /\ \A q \in Projects : q # p => listed'[q] = listed[q]
      /\ \A q \in Stored : q # p => files'[q] = files[q]
      /\ DOMAIN files'[p] = DOMAIN files[p] \cap list
      /\ \A f \in DOMAIN files'[p] : files'[p][f] = files[p][f]
  BY <1>1 DEF Sound, Typed, WithoutStale, Restrict
<1>6. \A j \in NewJobs(h, lists) :
        /\ j.project = p /\ DOMAIN j.documents = list
        /\ \A f \in DOMAIN j.documents : j.documents[f] = contents[f]
  BY <1>2, <1>4 DEF Restrict
<1>7. \A j \in jobs : IsLast(j) => j.project \in Stored /\ j.project \in Projects
  BY StoredProjects DEF IsLast, First, Sound
<1>8. \A f \in Files : contents[f] \in Nat
  BY BoundsAssumption DEF Sound, Typed
<1>9. Stored \subseteq Projects
  BY StoredProjects DEF Sound
<1>10. InOrder'
  <2>1. \A q \in Stored' : opens'[q] # 0
    BY <1>1, <1>4 DEF Ordered, InOrder
  <2>2. \A j \in jobs' : opens'[j.project] # 0
    BY <1>1, <1>4, <1>6 DEF Ordered, InOrder
  <2>3. \A q \in First' : DOMAIN files'[q] \subseteq listed'[q]
    BY <1>4, <1>5, <1>9 DEF Ordered, InOrder, First
  <2>4. \A j \in jobs' : IsLast(j)' => DOMAIN j.documents \subseteq listed'[j.project]
    BY <1>2, <1>4, <1>5, <1>6, <1>7 DEF Ordered, InOrder
  <2>. QED
    BY <1>4, <2>1, <2>2, <2>3, <2>4 DEF InOrder
<1>11. NotOlder'
  <2>1. \A q \in First' : \A f \in DOMAIN files'[q] : files'[q][f].version <= contents'[f]
    BY <1>1, <1>4, <1>5 DEF Ordered, NotOlder, First
  <2>2. \A j \in jobs' : \A f \in DOMAIN j.documents : j.documents[f] <= contents'[f]
    BY <1>1, <1>4, <1>6, <1>8 DEF Ordered, NotOlder
  <2>3. ASSUME NEW j \in jobs', IsLast(j)', NEW f \in DOMAIN j.documents \cap DOMAIN files'[j.project]
        PROVE  files'[j.project][f].version <= j.documents[f]
    <3>1. CASE j \in jobs /\ IsLast(j) /\ j.project \notin DOMAIN lists
      BY <1>2, <1>5, <1>7, <2>3, <3>1 DEF Ordered, NotOlder
    <3>2. CASE j \in NewJobs(h, lists)
      <4>1. j.project = p /\ p \in First' /\ j.documents[f] = contents[f]
        BY <1>6, <2>3, <3>2 DEF IsLast
      <4>. QED
        BY <1>1, <2>1, <2>3, <4>1
    <3>. QED
      BY <1>4, <2>3, <3>1, <3>2
  <2>. QED
    BY <2>1, <2>2, <2>3 DEF NotOlder
<1>. QED
  BY <1>10, <1>11 DEF Ordered
LEMMA FileContentChangedOrdered ==
  ASSUME Sound, Ordered, NEW f \in Files, FileContentChanged(f)
  PROVE  Ordered'
<1>1. /\ contents' = [contents EXCEPT ![f] = @ + 1]
      /\ UNCHANGED <<opens, listed, projects, builders, jobs>>
  BY DEF FileContentChanged
<1>2. First' = First /\ Stored' = Stored /\ \A j : IsLast(j)' <=> IsLast(j)
  BY <1>1 DEF First, Stored, IsLast
<1>3. \A p \in First : /\ DOMAIN files'[p] = DOMAIN files[p]
                       /\ \A g \in DOMAIN files[p] : files'[p][g].version = files[p][g].version
  BY EntriesKept DEF Sound, First
<1>4. \A g \in Files : contents[g] \in Nat /\ contents'[g] \in Nat /\ contents[g] <= contents'[g]
  BY <1>1, BoundsAssumption DEF Sound, Typed
<1>5. InOrder'
  BY <1>1, <1>2, <1>3 DEF Ordered, InOrder
<1>6. NotOlder'
  <2>1. ASSUME NEW p \in First, NEW g \in DOMAIN files'[p]
        PROVE  files'[p][g].version <= contents'[g]
    <3>1. g \in Files /\ files[p][g].version \in Nat /\ files[p][g].version <= contents[g]
      BY <1>3, BoundsAssumption DEF Sound, Typed, Entry, First, Ordered, NotOlder
    <3>. QED
      BY <1>3, <1>4, <3>1
  <2>2. ASSUME NEW j \in jobs, NEW g \in DOMAIN j.documents
        PROVE  j.documents[g] <= contents'[g]
    <3>1. g \in Files /\ j.documents[g] \in Nat /\ j.documents[g] <= contents[g]
      BY BoundsAssumption DEF Sound, Typed, Job, Ordered, NotOlder
    <3>. QED
      BY <1>4, <3>1
  <2>3. \A j \in jobs : IsLast(j) =>
          \A g \in DOMAIN j.documents \cap DOMAIN files'[j.project] :
            files'[j.project][g].version <= j.documents[g]
    BY <1>3 DEF Ordered, NotOlder, IsLast
  <2>. QED
    BY <1>1, <1>2, <2>1, <2>2, <2>3 DEF NotOlder
<1>. QED
  BY <1>5, <1>6 DEF Ordered

LEMMA ProcessDocumentOrdered ==
  ASSUME Sound, Ordered, NEW h \in Handlers, NEW f \in Files, ProcessDocument(h, f)
  PROVE  Ordered'
<1>. DEFINE P == ProjectsForFile(f)
            lists == [p \in P |-> DOMAIN files[p]]
<1>1. UNCHANGED <<opens, listed, contents, projects, files>> /\ P \subseteq Stored
  BY DEF ProcessDocument, ProjectsForFile
<1>2. First' = First /\ Stored' = Stored
  BY <1>1 DEF First, Stored
<1>3. CASE P = {}
  <2>1. PassingHandler(builders)
    BY <1>3 DEF ProcessDocument
  <2>2. \A j \in jobs : j.project \in First' =>
          j.project \in First /\ builders'[j.project] = builders[j.project] /\ (IsLast(j)' <=> IsLast(j))
    BY <1>2, <2>1, PassingInOrder DEF PassingHandler, Ordered
  <2>3. \A j : IsLast(j)' => j.project \in First'
    BY DEF IsLast
  <2>. QED
    BY <1>1, <1>2, <2>1, <2>2, <2>3 DEF PassingHandler, Ordered, InOrder, NotOlder
<1>4. CASE P # {}
  <2>1. StartHandler(h, lists) /\ DOMAIN lists = P /\ \A p \in P : lists[p] = DOMAIN files[p]
    BY <1>4 DEF ProcessDocument
  <2>. HIDE DEF lists
  <2>2. /\ jobs' = jobs \cup NewJobs(h, lists)
        /\ \A j \in NewJobs(h, lists) :
             /\ j.project \in DOMAIN lists /\ j.index = builders'[j.project]
             /\ j.documents = Restrict(contents, lists[j.project])
        /\ \A j \in jobs' : j.project \in First => j.index <= builders'[j.project]
        /\ \A j \in jobs' : IsLast(j)' =>
             \/ j \in jobs /\ IsLast(j) /\ j.project \notin DOMAIN lists
             \/ j \in NewJobs(h, lists)
        /\ \A i, j \in jobs' : IsLast(i)' /\ IsLast(j)' /\ i.project = j.project => i = j
    BY <1>1, <2>1, LastOfHandler DEF Ordered
  <2>3. \A j \in NewJobs(h, lists) :
          /\ j.project \in Stored /\ DOMAIN j.documents = DOMAIN files[j.project]
          /\ \A g \in DOMAIN j.documents : j.documents[g] = contents[g]
    BY <1>1, <2>1, <2>2 DEF Restrict
  <2>4. \A p \in Stored : \A g \in DOMAIN files[p] : contents[g] \in Nat
    BY BoundsAssumption DEF Sound, Typed
  <2>5. \A j : IsLast(j)' => j.project \in First
    BY <1>2 DEF IsLast
  <2>6. InOrder'
    <3>1. \A j \in jobs' : opens'[j.project] # 0
      BY <1>1, <2>2, <2>3 DEF Ordered, InOrder
    <3>2. \A j \in jobs' : IsLast(j)' => DOMAIN j.documents \subseteq listed'[j.project]
      BY <1>1, <2>2, <2>3, <2>5 DEF Ordered, InOrder
    <3>. QED
      BY <1>1, <1>2, <2>2, <3>1, <3>2 DEF Ordered, InOrder
  <2>7. NotOlder'
    <3>1. \A j \in jobs' : \A g \in DOMAIN j.documents : j.documents[g] <= contents'[g]
      BY <1>1, <2>2, <2>3, <2>4 DEF Ordered, NotOlder
    <3>2. ASSUME NEW j \in jobs', IsLast(j)', NEW g \in DOMAIN j.documents \cap DOMAIN files[j.project]
          PROVE  files[j.project][g].version <= j.documents[g]
      BY <2>2, <2>3, <2>5, <3>2 DEF Ordered, NotOlder
    <3>. QED
      BY <1>1, <1>2, <3>1, <3>2 DEF Ordered, NotOlder
  <2>. QED
    BY <2>6, <2>7 DEF Ordered
<1>. QED
  BY <1>3, <1>4

\* The jobs after an answer are those that were, unless the counts start again.
LEMMA LastOfAnswer ==
  ASSUME Sound, InOrder, NEW job \in jobs, jobs' = jobs \ {job}, CountDown(job),
         UNCHANGED <<opens, projects>>
  PROVE  /\ First' = First /\ Stored' = Stored
         /\ \A j \in jobs' : builders'[j.project] = builders[j.project] /\ (IsLast(j)' <=> IsLast(j))
<1>1. First' = First /\ Stored' = Stored
  BY DEF First, Stored
<1>2. Counted'
  BY AnswerCounted DEF Sound
<1>3. CASE modifiers' = 0
  <2>1. jobs' = {}
    BY <1>2, <1>3, NoneWaitedFor DEF Counted
  <2>. QED
    BY <1>1, <2>1
<1>4. CASE modifiers' # 0
  <2>1. builders' = builders
    BY <1>4 DEF CountDown, ResetAtLast
  <2>. QED
    BY <1>1, <2>1 DEF IsLast
<1>. QED
  BY <1>3, <1>4

LEMMA FilesProcessedOrdered ==
  ASSUME Sound, Ordered, NEW h \in Handlers, NEW p \in Projects, FilesProcessed(h, p)
  PROVE  /\ Ordered'
         /\ \A q \in First : \A f \in DOMAIN files[q] \cap DOMAIN files'[q] :
              files'[q][f].version >= files[q][f].version
<1>1. PICK job \in jobs : /\ jobs' = jobs \ {job}
                          /\ \E outcome \in [DOMAIN job.documents -> Outcomes] :
                               files' = Handled(job, outcome)
                          /\ CountDown(job)
                          /\ UNCHANGED <<session, projects>>
  BY DEF FilesProcessed
<1>2. PICK outcome \in [DOMAIN job.documents -> Outcomes] : files' = Handled(job, outcome)
  BY <1>1
<1>3. UNCHANGED <<opens, listed, contents, timers, projects>>
  BY <1>1 DEF session
<1>4. /\ First' = First /\ Stored' = Stored
      /\ \A j \in jobs' : builders'[j.project] = builders[j.project] /\ (IsLast(j)' <=> IsLast(j))
  BY <1>1, <1>3, LastOfAnswer DEF Ordered
<1>5. \A q \in Stored :
        files'[q] = files[q]
        \/ /\ q = job.project /\ ~Outdated(job)
           /\ DOMAIN files'[q] \subseteq DOMAIN files[q] \cup DOMAIN job.documents
           /\ \A f \in DOMAIN files'[q] :
                \/ f \in DOMAIN files[q] /\ files'[q][f].version = files[q][f].version
                \/ f \in DOMAIN job.documents /\ files'[q][f].version = job.documents[f]
                \/ f \notin DOMAIN files[q] /\ files'[q][f].version = 0
  BY <1>2, HandledEntries DEF Sound
<1>6. job.project \in First /\ ~Outdated(job) => IsLast(job)
  <2>1. SUFFICES ASSUME job.project \in First, ~Outdated(job) PROVE IsLast(job)
    OBVIOUS
  <2>2. job.project \in Stored /\ job.index <= builders[job.project]
    BY <2>1 DEF Ordered, InOrder, First
  <2>3. ~(job.index < builders[job.project])
    BY <2>1, <2>2 DEF Outdated, ProjectBuildersCount
  <2>4. job.index \in Nat /\ builders[job.project] \in Nat
    BY <2>2, BoundsAssumption DEF Sound, Typed, Job
  <2>. QED
    BY <2>1, <2>2, <2>3, <2>4 DEF IsLast
<1>7. /\ \A f \in DOMAIN job.documents : job.documents[f] \in Nat /\ job.documents[f] <= contents[f]
      /\ \A f \in Files : contents[f] \in Nat /\ 0 <= contents[f]
      /\ \A q \in Stored : DOMAIN files[q] \subseteq Files /\ DOMAIN files'[q] \subseteq Files
      /\ \A q \in Stored : \A f \in DOMAIN files[q] : files[q][f].version \in Nat
  <2>1. \A q \in Stored : DOMAIN files'[q] \subseteq Files
    BY <1>2, HandledEntries DEF Sound
  <2>. QED
    BY <2>1, BoundsAssumption DEF Sound, Typed, Job, Entry, Ordered, NotOlder
<1>8. InOrder'
  <2>1. \A q \in First : DOMAIN files'[q] \subseteq listed[q]
    BY <1>5, <1>6 DEF Ordered, InOrder, First
  <2>. QED
    BY <1>1, <1>3, <1>4, <2>1 DEF Ordered, InOrder
<1>9. ASSUME NEW q \in First, NEW f \in DOMAIN files'[q]
      PROVE  files'[q][f].version <= contents[f]
  BY <1>5, <1>7, <1>9 DEF Ordered, NotOlder, First
<1>10. NotOlder'
  <2>1. ASSUME NEW j \in jobs', IsLast(j), NEW f \in DOMAIN j.documents \cap DOMAIN files'[j.project]
        PROVE  files'[j.project][f].version <= j.documents[f]
    <3>1. files'[j.project] = files[j.project]
      BY <1>1, <1>5, <1>6, <2>1 DEF Ordered, InOrder, IsLast, First
    <3>. QED
      BY <1>1, <2>1, <3>1 DEF Ordered, NotOlder
  <2>. QED
    BY <1>1, <1>3, <1>4, <1>9, <2>1 DEF Ordered, NotOlder
<1>11. ASSUME NEW q \in First, NEW f \in DOMAIN files[q] \cap DOMAIN files'[q]
       PROVE  files'[q][f].version >= files[q][f].version
  <2>1. q \in Stored /\ files[q][f].version \in Nat
    BY <1>7 DEF First
  <2>2. CASE files'[q][f].version = files[q][f].version
    BY <2>1, <2>2
  <2>3. CASE files'[q][f].version # files[q][f].version
    <3>1. q = job.project /\ IsLast(job) /\ f \in DOMAIN job.documents
          /\ files'[q][f].version = job.documents[f]
      BY <1>5, <1>6, <2>1, <2>3
    <3>. QED
      BY <1>7, <2>1, <3>1 DEF Ordered, NotOlder
  <2>. QED
    BY <2>2, <2>3
<1>. QED
  BY <1>8, <1>10, <1>11 DEF Ordered

LEMMA InitOrdered == Init => Ordered
<1>. SUFFICES ASSUME Init PROVE Ordered
  OBVIOUS
<1>1. Stored = {} /\ jobs = {}
  BY DEF Init, Stored, Range
<1>2. First = {}
  BY <1>1 DEF First
<1>. QED
  BY <1>1, <1>2 DEF Ordered, InOrder, NotOlder

LEMMA StepOrdered == Sound /\ Ordered /\ [Next]_vars => Ordered'
<1>. SUFFICES ASSUME Sound, Ordered, [Next]_vars PROVE Ordered'
  OBVIOUS
<1>1. CASE UNCHANGED vars
  <2>1. UNCHANGED <<opens, listed, contents, projects, builders, files, jobs>>
    BY <1>1 DEF vars, session
  <2>2. First' = First /\ Stored' = Stored /\ \A j : IsLast(j)' <=> IsLast(j)
    BY <2>1 DEF First, Stored, IsLast
  <2>. QED
    BY <2>1, <2>2 DEF Ordered, InOrder, NotOlder
<1>. QED
  BY <1>1, ProjectAddedOrdered, ProjectRemovedOrdered, FileListChangedOrdered,
     FileContentChangedOrdered, ProcessDocumentOrdered, FilesProcessedOrdered DEF Next

LEMMA OrderedHolds == Spec => [](Sound /\ Ordered)
<1>1. Init => Sound /\ Ordered
  BY InitSound, InitOrdered
<1>2. Sound /\ Ordered /\ [Next]_vars => Sound' /\ Ordered'
  BY StepSound, StepOrdered
<1>. QED
  BY <1>1, <1>2, PTL DEF Spec

\* Where a project is opened but once, each stored project is in its first life.
LEMMA OnlyFirst ==
  ASSUME MaxOpens <= 1, Sound, Ordered
  PROVE  First = Stored
BY StoredProjects, BoundsAssumption DEF First, Sound, Typed, Ordered, InOrder

\* No step but an answer changes the version of an entry that stays.
LEMMA OthersKeepVersions ==
  ASSUME Sound, Next, ~\E h \in Handlers, p \in Projects : FilesProcessed(h, p),
         NEW q \in Stored \cap Stored', NEW f \in DOMAIN files[q] \cap DOMAIN files'[q]
  PROVE  files'[q][f].version = files[q][f].version
<1>1. ASSUME NEW p \in Projects, ProjectAdded(p) PROVE files'[q][f].version = files[q][f].version
  BY <1>1 DEF ProjectAdded
<1>2. ASSUME NEW p \in Projects, ProjectRemoved(p) PROVE files'[q][f].version = files[q][f].version
  <2>1. files' = Restrict(files, Stored \ {p}) /\ Stored' = Stored \ {p}
    BY <1>2, RemoveOneProperties DEF ProjectRemoved, Sound, Typed, Stored
  <2>. QED
    BY <2>1 DEF Restrict
<1>3. ASSUME NEW h \in Handlers, NEW p \in Projects, NEW list \in SUBSET Files, FileListChanged(h, p, list)
      PROVE  files'[q][f].version = files[q][f].version
  <2>1. files' = [files EXCEPT ![p] = WithoutStale(p, list)] /\ DOMAIN files = Stored
    BY <1>3 DEF FileListChanged, Sound, Typed
  <2>2. CASE q = p
    BY <2>1, <2>2 DEF WithoutStale, Restrict
  <2>3. CASE q # p
    BY <2>1, <2>3
  <2>. QED
    BY <2>2, <2>3
<1>4. ASSUME NEW g \in Files, FileContentChanged(g) PROVE files'[q][f].version = files[q][f].version
  BY <1>4, EntriesKept DEF Sound
<1>5. ASSUME NEW h \in Handlers, NEW g \in Files, ProcessDocument(h, g)
      PROVE  files'[q][f].version = files[q][f].version
  BY <1>5 DEF ProcessDocument
<1>. QED
  BY <1>1, <1>2, <1>3, <1>4, <1>5 DEF Next

-------------------------------------------------------------------------------
(* Where all parses work and no file is edited before its first one, the model  *)
(* has the last texts, or a timer or the last job will see to it.               *)

UpToDate ==
  /\ \A j \in jobs : IsLast(j) => \A f \in DOMAIN j.documents :
       j.documents[f] = contents[f] \/ (f \in timers /\ f \in DOMAIN files[j.project])
  /\ \A p \in First : \A f \in DOMAIN files[p] :
       \/ files[p][f].version = contents[f] \/ f \in timers
       \/ \E j \in jobs : IsLast(j) /\ j.project = p /\ f \in DOMAIN j.documents

LEMMA ProjectAddedUpToDate ==
  ASSUME Sound, Ordered, UpToDate, NEW p \in Projects, ProjectAdded(p)
  PROVE  UpToDate'
<1>. DEFINE counts == [q \in Stored \cup {p} |-> IF q = p THEN 0 ELSE builders[q]]
<1>1. /\ p \notin Stored /\ opens' = [opens EXCEPT ![p] = @ + 1]
      /\ projects' = Append(projects, p)
      /\ files' = [q \in Stored \cup {p} |-> IF q = p THEN << >> ELSE files[q]]
      /\ builders' = ResetAtLast(modifiers, counts)
      /\ UNCHANGED <<contents, timers, jobs>>
  BY DEF ProjectAdded, PassingHandler
<1>2. Stored' = Stored \cup {p}
  BY <1>1, AppendListProperties DEF Sound, Typed, Stored
<1>3. \A q \in First' : q # p => q \in First /\ files'[q] = files[q] /\ counts[q] = builders[q]
  BY <1>1, <1>2, StoredProjects DEF First, Sound, Typed
<1>4. p \in First' => \A j \in jobs : j.project # p
  <2>1. \A j \in jobs : j.project \in Projects
    BY DEF Sound, Typed, Job
  <2>2. p \in First' => opens[p] = 0
    BY <1>1, BoundsAssumption DEF First, Sound, Typed
  <2>. QED
    BY <2>1, <2>2 DEF Ordered, InOrder
<1>. HIDE DEF counts
<1>5. \A j \in jobs : j.project \in First' =>
        j.project \in First /\ builders'[j.project] = builders[j.project] /\ (IsLast(j)' <=> IsLast(j))
  BY <1>1, <1>3, <1>4, PassingInOrder DEF Ordered
<1>6. \A j : /\ IsLast(j)' => j.project \in First'
             /\ IsLast(j) => j.project \in First
  BY DEF IsLast
<1>7. files'[p] = << >>
  BY <1>1
<1>8. ASSUME NEW q \in First', NEW f \in DOMAIN files'[q]
      PROVE  \/ files'[q][f].version = contents'[f] \/ f \in timers'
             \/ \E j \in jobs' : IsLast(j)' /\ j.project = q /\ f \in DOMAIN j.documents
  <2>1. q # p
    BY <1>7
  <2>2. q \in First /\ files'[q] = files[q]
    BY <1>3, <2>1
  <2>. QED
    BY <1>1, <1>5, <1>6, <2>2 DEF UpToDate
<1>9. ASSUME NEW j \in jobs', IsLast(j)', NEW f \in DOMAIN j.documents
      PROVE  j.documents[f] = contents'[f] \/ (f \in timers' /\ f \in DOMAIN files'[j.project])
  <2>1. IsLast(j) /\ j.project # p /\ files'[j.project] = files[j.project]
    BY <1>1, <1>3, <1>4, <1>5, <1>6, <1>9
  <2>. QED
    BY <1>1, <2>1 DEF UpToDate
<1>. QED
  BY <1>8, <1>9 DEF UpToDate

LEMMA ProjectRemovedUpToDate ==
  ASSUME Sound, Ordered, UpToDate, NEW p \in Projects, ProjectRemoved(p)
  PROVE  UpToDate'
<1>. DEFINE counts == Restrict(builders, Stored \ {p})
<1>1. /\ projects' = RemoveOne(projects, p)
      /\ files' = Restrict(files, Stored \ {p})
      /\ builders' = ResetAtLast(modifiers, counts)
      /\ UNCHANGED <<opens, contents, timers, jobs>>
  BY DEF ProjectRemoved, PassingHandler
<1>2. Stored' = Stored \ {p}
  BY <1>1, RemoveOneProperties DEF Sound, Typed, Stored
<1>3. First' = First \ {p}
  BY <1>1, <1>2 DEF First
<1>4. \A q \in First' : counts[q] = builders[q] /\ files'[q] = files[q]
  BY <1>1, <1>3 DEF First, Restrict
<1>. HIDE DEF counts
<1>5. \A j \in jobs : j.project \in First' =>
        j.project \in First /\ builders'[j.project] = builders[j.project] /\ (IsLast(j)' <=> IsLast(j))
  BY <1>1, <1>3, <1>4, PassingInOrder DEF Ordered
<1>6. \A j : IsLast(j)' => j.project \in First'
  BY DEF IsLast
<1>7. ASSUME NEW q \in First', NEW f \in DOMAIN files'[q]
      PROVE  \/ files'[q][f].version = contents'[f] \/ f \in timers'
             \/ \E j \in jobs' : IsLast(j)' /\ j.project = q /\ f \in DOMAIN j.documents
  <2>1. q \in First /\ files'[q] = files[q]
    BY <1>3, <1>4
  <2>2. \A j \in jobs : IsLast(j) /\ j.project = q => IsLast(j)'
    BY <1>5
  <2>. QED
    BY <1>1, <2>1, <2>2 DEF UpToDate
<1>8. ASSUME NEW j \in jobs', IsLast(j)', NEW f \in DOMAIN j.documents
      PROVE  j.documents[f] = contents'[f] \/ (f \in timers' /\ f \in DOMAIN files'[j.project])
  <2>1. IsLast(j) /\ j.project \in First' /\ files'[j.project] = files[j.project]
    BY <1>1, <1>4, <1>5, <1>6, <1>8
  <2>. QED
    BY <1>1, <1>8, <2>1 DEF UpToDate
<1>. QED
  BY <1>7, <1>8 DEF UpToDate

LEMMA FileListChangedUpToDate ==
  ASSUME Sound, Ordered, UpToDate, NEW h \in Handlers, NEW p \in Projects,
         NEW list \in SUBSET Files, FileListChanged(h, p, list)
  PROVE  UpToDate'
<1>. DEFINE lists == [q \in {p} |-> list]
            new   == [handler |-> h, project |-> p, index |-> ProjectBuildersCount(p) + 1,
                      documents |-> Restrict(contents, lists[p])]
<1>1. /\ p \in Stored
      /\ files' = [files EXCEPT ![p] = WithoutStale(p, list)]
      /\ StartHandler(h, lists)
      /\ UNCHANGED <<opens, contents, timers, projects>>
  BY DEF FileListChanged
<1>2. DOMAIN lists = {p} /\ lists[p] = list
  OBVIOUS
<1>3. new \in NewJobs(h, lists) /\ new.project = p
  BY <1>2 DEF NewJobs
<1>. HIDE DEF lists, new
<1>4. DOMAIN lists \in SUBSET Stored
  BY <1>1, <1>2
<1>5. /\ First' = First
      /\ jobs' = jobs \cup NewJobs(h, lists)
      /\ \A j \in NewJobs(h, lists) :
           /\ j.project \in DOMAIN lists /\ j.index = builders'[j.project]
           /\ j.documents = Restrict(contents, lists[j.project])
      /\ \A j \in jobs' : IsLast(j)' =>
           \/ j \in jobs /\ IsLast(j) /\ j.project \notin DOMAIN lists
           \/ j \in NewJobs(h, lists)
      /\ \A j \in jobs : IsLast(j) /\ j.project \notin DOMAIN lists => IsLast(j)'
  BY <1>1, <1>4, LastOfHandler DEF Ordered
<1>6. /\ \A q \in Stored : q # p => files'[q] = files[q]
      /\ DOMAIN files'[p] = DOMAIN files[p] \cap list
  BY <1>1 DEF Sound, Typed, WithoutStale, Restrict
<1>7. \A j \in NewJobs(h, lists) :
        /\ j.project = p /\ DOMAIN j.documents = list
        /\ \A f \in DOMAIN j.documents : j.documents[f] = contents[f]
  BY <1>2, <1>5 DEF Restrict
<1>8. \A j : IsLast(j) => j.project \in Stored /\ j.project \in First
  BY DEF IsLast, First
<1>9. ASSUME NEW j \in jobs', IsLast(j)', NEW f \in DOMAIN j.documents
      PROVE  j.documents[f] = contents'[f] \/ (f \in timers' /\ f \in DOMAIN files'[j.project])
  BY <1>1, <1>2, <1>5, <1>6, <1>7, <1>8, <1>9 DEF UpToDate
<1>10. ASSUME NEW q \in First', NEW f \in DOMAIN files'[q]
       PROVE  \/ files'[q][f].version = contents'[f] \/ f \in timers'
              \/ \E j \in jobs' : IsLast(j)' /\ j.project = q /\ f \in DOMAIN j.documents
  <2>1. CASE q = p
    <3>1. PICK j \in NewJobs(h, lists) : j.project = p
      BY <1>3
    <3>2. j \in jobs' /\ j.project = q /\ j.project \in First' /\ j.index = builders'[j.project]
      BY <1>5, <2>1, <3>1
    <3>3. IsLast(j)'
      BY <3>2 DEF IsLast
    <3>4. f \in DOMAIN j.documents
      BY <1>6, <1>7, <2>1, <3>1
    <3>. QED
      BY <3>2, <3>3, <3>4
  <2>2. CASE q # p
    <3>1. q \in First /\ q \in Stored /\ files'[q] = files[q] /\ f \in DOMAIN files[q]
      BY <1>5, <1>6, <2>2 DEF First
    <3>2. ASSUME NEW j \in jobs, IsLast(j), j.project = q
          PROVE  j \in jobs' /\ IsLast(j)'
      BY <1>2, <1>5, <2>2, <3>2
    <3>. QED
      BY <1>1, <3>1, <3>2 DEF UpToDate
  <2>. QED
    BY <2>1, <2>2
<1>. QED
  BY <1>9, <1>10 DEF UpToDate

LEMMA FileContentChangedUpToDate ==
  ASSUME EditUnparsed = FALSE, Sound, Ordered, UpToDate, NEW f \in Files, FileContentChanged(f)
  PROVE  UpToDate'
<1>1. /\ contents' = [contents EXCEPT ![f] = @ + 1]
      /\ \A p \in Stored : f \in listed[p] => f \in DOMAIN files[p]
      /\ UNCHANGED <<opens, listed, projects, builders, jobs>>
  BY DEF FileContentChanged
<1>2. First' = First /\ Stored' = Stored /\ \A j : IsLast(j)' <=> IsLast(j)
  BY <1>1 DEF First, Stored, IsLast
<1>3. /\ \A p \in First : /\ DOMAIN files'[p] = DOMAIN files[p]
                          /\ \A g \in DOMAIN files[p] : files'[p][g].version = files[p][g].version
      /\ Having(f) # {} => f \in timers'
      /\ timers \subseteq timers'
  BY EntriesKept DEF Sound, First
<1>4. \A g \in Files : g # f => contents'[g] = contents[g]
  BY <1>1 DEF Sound, Typed
<1>5. ASSUME NEW p \in Stored, f \in DOMAIN files[p]
      PROVE  f \in timers'
  <2>1. Having(f) # {}
    BY <1>5 DEF Having, Stored, Range
  <2>. QED
    BY <1>3, <2>1
<1>6. ASSUME NEW j \in jobs, IsLast(j), NEW g \in DOMAIN j.documents
      PROVE  j.documents[g] = contents'[g] \/ (g \in timers' /\ g \in DOMAIN files'[j.project])
  <2>1. j.project \in First /\ j.project \in Stored /\ g \in listed[j.project] /\ g \in Files
    BY <1>6 DEF IsLast, First, Ordered, InOrder, Sound, Typed, Job
  <2>2. CASE g = f
    BY <1>1, <1>3, <1>5, <2>1, <2>2
  <2>3. CASE g # f
    BY <1>3, <1>4, <1>6, <2>1, <2>3 DEF UpToDate
  <2>. QED
    BY <2>2, <2>3
<1>7. ASSUME NEW p \in First, NEW g \in DOMAIN files[p]
      PROVE  \/ files[p][g].version = contents'[g] \/ g \in timers'
             \/ \E j \in jobs : IsLast(j) /\ j.project = p /\ g \in DOMAIN j.documents
  <2>1. p \in Stored /\ g \in Files
    BY DEF First, Sound, Typed
  <2>2. CASE g = f
    BY <1>5, <2>1, <2>2
  <2>3. CASE g # f
    BY <1>3, <1>4, <2>1, <2>3 DEF UpToDate
  <2>. QED
    BY <2>2, <2>3
<1>. QED
  BY <1>1, <1>2, <1>3, <1>6, <1>7 DEF UpToDate

LEMMA ProcessDocumentUpToDate ==
  ASSUME Sound, Ordered, UpToDate, NEW h \in Handlers, NEW f \in Files, ProcessDocument(h, f)
  PROVE  UpToDate'
<1>. DEFINE P == ProjectsForFile(f)
            lists == [p \in P |-> DOMAIN files[p]]
<1>1. /\ timers' = timers \ {f} /\ UNCHANGED <<opens, listed, contents, projects, files>>
      /\ P = {p \in Stored : f \in DOMAIN files[p]}
  BY DEF ProcessDocument, ProjectsForFile
<1>2. First' = First /\ Stored' = Stored
  BY <1>1 DEF First, Stored
<1>3. \A j : IsLast(j) => j.project \in First /\ j.project \in Stored
  BY DEF IsLast, First
<1>4. ASSUME NEW j \in jobs, IsLast(j), j.project \notin P, NEW g \in DOMAIN j.documents
      PROVE  j.documents[g] = contents'[g] \/ (g \in timers' /\ g \in DOMAIN files'[j.project])
  BY <1>1, <1>3, <1>4 DEF UpToDate
<1>5. CASE P = {}
  <2>1. PassingHandler(builders)
    BY <1>5 DEF ProcessDocument
  <2>2. \A j \in jobs : j.project \in First' =>
          j.project \in First /\ builders'[j.project] = builders[j.project] /\ (IsLast(j)' <=> IsLast(j))
    BY <1>2, <2>1, PassingInOrder DEF PassingHandler, Ordered
  <2>3. jobs' = jobs /\ \A j : IsLast(j)' => j.project \in First'
    BY <2>1 DEF IsLast, PassingHandler
  <2>4. \A p \in First : f \notin DOMAIN files[p]
    BY <1>1, <1>5 DEF First
  <2>5. ASSUME NEW j \in jobs', IsLast(j)', NEW g \in DOMAIN j.documents
        PROVE  j.documents[g] = contents'[g] \/ (g \in timers' /\ g \in DOMAIN files'[j.project])
    BY <1>4, <1>5, <2>2, <2>3, <2>5
  <2>6. ASSUME NEW p \in First, NEW g \in DOMAIN files[p]
        PROVE  \/ files[p][g].version = contents[g] \/ g \in timers'
               \/ \E j \in jobs' : IsLast(j)' /\ j.project = p /\ g \in DOMAIN j.documents
    <3>1. g # f
      BY <2>4
    <3>. QED
      BY <1>1, <1>2, <1>3, <2>2, <2>3, <3>1 DEF UpToDate
  <2>. QED
    BY <1>1, <1>2, <2>5, <2>6 DEF UpToDate
<1>6. CASE P # {}
  <2>1. StartHandler(h, lists) /\ DOMAIN lists = P /\ \A p \in P : lists[p] = DOMAIN files[p]
    BY <1>6 DEF ProcessDocument
  <2>2. \A p \in P : [handler |-> h, project |-> p, index |-> ProjectBuildersCount(p) + 1,
                      documents |-> Restrict(contents, lists[p])] \in NewJobs(h, lists)
    BY <2>1 DEF NewJobs
  <2>. HIDE DEF lists, P
  <2>3. /\ jobs' = jobs \cup NewJobs(h, lists)
        /\ \A j \in NewJobs(h, lists) :
             /\ j.project \in DOMAIN lists /\ j.index = builders'[j.project]
             /\ j.documents = Restrict(contents, lists[j.project])
        /\ \A j \in jobs' : IsLast(j)' =>
             \/ j \in jobs /\ IsLast(j) /\ j.project \notin DOMAIN lists
             \/ j \in NewJobs(h, lists)
        /\ \A j \in jobs : IsLast(j) /\ j.project \notin DOMAIN lists => IsLast(j)'
    BY <1>1, <2>1, LastOfHandler DEF Ordered
  <2>4. \A j \in NewJobs(h, lists) :
          /\ j.project \in P /\ DOMAIN j.documents = DOMAIN files[j.project]
          /\ \A g \in DOMAIN j.documents : j.documents[g] = contents[g]
    BY <2>1, <2>3 DEF Restrict
  <2>5. ASSUME NEW j \in jobs', IsLast(j)', NEW g \in DOMAIN j.documents
        PROVE  j.documents[g] = contents'[g] \/ (g \in timers' /\ g \in DOMAIN files'[j.project])
    BY <1>1, <1>4, <2>1, <2>3, <2>4, <2>5
  <2>6. ASSUME NEW p \in First, NEW g \in DOMAIN files[p]
        PROVE  \/ files[p][g].version = contents[g] \/ g \in timers'
               \/ \E j \in jobs' : IsLast(j)' /\ j.project = p /\ g \in DOMAIN j.documents
    <3>1. CASE p \in P
      <4>1. PICK j \in NewJobs(h, lists) : j.project = p
        BY <2>2, <3>1
      <4>2. j \in jobs' /\ IsLast(j)' /\ g \in DOMAIN j.documents
        BY <1>2, <2>3, <2>4, <4>1 DEF IsLast
      <4>. QED
        BY <4>1, <4>2
    <3>2. CASE p \notin P
      <4>1. g # f /\ p \in Stored
        BY <1>1, <3>2 DEF First
      <4>2. ASSUME NEW j \in jobs, IsLast(j), j.project = p
            PROVE  j \in jobs' /\ IsLast(j)'
        BY <2>1, <2>3, <3>2, <4>2
      <4>. QED
        BY <1>1, <4>1, <4>2 DEF UpToDate
    <3>. QED
      BY <3>1, <3>2
  <2>. QED
    BY <1>1, <1>2, <2>5, <2>6 DEF UpToDate
<1>. QED
  BY <1>5, <1>6

\* A run in which every file parses replaces the entries of all its files.
LEMMA AllParsed ==
  ASSUME Outcomes = {"parsed"}, Sound, NEW job \in jobs, job.project \in Stored, ~Outdated(job),
         NEW outcome \in [DOMAIN job.documents -> Outcomes]
  PROVE  LET made == Handled(job, outcome)[job.project]
         IN  /\ DOMAIN made = DOMAIN files[job.project] \cup DOMAIN job.documents
             /\ \A f \in DOMAIN job.documents : made[f].version = job.documents[f]
             /\ \A f \in DOMAIN made \ DOMAIN job.documents :
                  made[f].version = files[job.project][f].version
<1>1. DOMAIN outcome = DOMAIN job.documents /\ \A f \in DOMAIN outcome : outcome[f] = "parsed"
  OBVIOUS
<1>2. ~Errored(outcome)
  BY <1>1 DEF Errored
<1>3. Handled(job, outcome)[job.project] = SuccessEntries(files[job.project], job, outcome)
  BY <1>2 DEF Handled, Sound, Typed
<1>. QED
  BY <1>1, <1>3 DEF SuccessEntries

LEMMA FilesProcessedUpToDate ==
  ASSUME Outcomes = {"parsed"}, Sound, Ordered, UpToDate,
         NEW h \in Handlers, NEW p \in Projects, FilesProcessed(h, p)
  PROVE  UpToDate'
<1>1. PICK job \in jobs : /\ jobs' = jobs \ {job}
                          /\ \E outcome \in [DOMAIN job.documents -> Outcomes] :
                               files' = Handled(job, outcome)
                          /\ CountDown(job)
                          /\ UNCHANGED <<session, projects>>
  BY DEF FilesProcessed
<1>2. PICK outcome \in [DOMAIN job.documents -> Outcomes] : files' = Handled(job, outcome)
  BY <1>1
<1>3. UNCHANGED <<opens, listed, contents, timers, projects>>
  BY <1>1 DEF session
<1>4. /\ First' = First /\ Stored' = Stored
      /\ \A j \in jobs' : IsLast(j)' <=> IsLast(j)
  BY <1>1, <1>3, LastOfAnswer DEF Ordered
<1>5. \A j : IsLast(j) => j.project \in First /\ j.project \in Stored
  BY DEF IsLast, First
<1>6. CASE IsLast(job)
  <2>. DEFINE q == job.project
  <2>1. q \in Stored /\ q \in First /\ ~Outdated(job)
    <3>1. job.index \in Nat
      BY BoundsAssumption DEF Sound, Typed, Job
    <3>. QED
      BY <1>5, <1>6, <3>1 DEF Outdated, ProjectBuildersCount, IsLast
  <2>2. /\ DOMAIN files'[q] = DOMAIN files[q] \cup DOMAIN job.documents
        /\ \A f \in DOMAIN job.documents : files'[q][f].version = job.documents[f]
        /\ \A f \in DOMAIN files'[q] \ DOMAIN job.documents : files'[q][f].version = files[q][f].version
    BY <1>2, <2>1, AllParsed
  <2>3. \A r \in Stored : r # q => files'[r] = files[r]
    BY <1>2, HandledEntries DEF Sound
  <2>4. \A j \in jobs : IsLast(j) /\ j # job => j.project # q
    BY <1>6 DEF Ordered, InOrder
  <2>. HIDE DEF q
  <2>5. ASSUME NEW j \in jobs', IsLast(j)', NEW f \in DOMAIN j.documents
        PROVE  j.documents[f] = contents[f] \/ (f \in timers /\ f \in DOMAIN files'[j.project])
    <3>1. IsLast(j) /\ j \in jobs /\ j.project # q /\ files'[j.project] = files[j.project]
      BY <1>1, <1>4, <1>5, <2>3, <2>4, <2>5
    <3>. QED
      BY <3>1 DEF UpToDate
  <2>6. ASSUME NEW r \in First, NEW f \in DOMAIN files'[r]
        PROVE  \/ files'[r][f].version = contents[f] \/ f \in timers
               \/ \E j \in jobs' : IsLast(j)' /\ j.project = r /\ f \in DOMAIN j.documents
    <3>0. r \in Stored
      BY DEF First
    <3>1. CASE r = q /\ f \in DOMAIN job.documents
      BY <1>6, <2>2, <3>1 DEF UpToDate
    <3>2. CASE r = q /\ f \notin DOMAIN job.documents
      <4>1. f \in DOMAIN files[r] /\ files'[r][f].version = files[r][f].version
        BY <2>2, <3>2
      <4>2. \A j \in jobs : IsLast(j) /\ j.project = r => f \notin DOMAIN j.documents
        BY <2>4, <3>2
      <4>. QED
        BY <4>1, <4>2 DEF UpToDate
    <3>3. CASE r # q
      <4>1. f \in DOMAIN files[r] /\ files'[r] = files[r]
        BY <2>3, <3>0, <3>3
      <4>2. \A j \in jobs : IsLast(j) /\ j.project = r => j \in jobs' /\ IsLast(j)'
        BY <1>1, <1>4, <3>3 DEF q
      <4>. QED
        BY <4>1, <4>2 DEF UpToDate
    <3>. QED
      BY <3>1, <3>2, <3>3
  <2>. QED
    BY <1>3, <1>4, <2>5, <2>6 DEF UpToDate
<1>7. CASE ~IsLast(job)
  <2>1. \A r \in First : files'[r] = files[r]
    <3>1. job.project \in First => Outdated(job)
      <4>1. SUFFICES ASSUME job.project \in First PROVE Outdated(job)
        OBVIOUS
      <4>2. job.project \in Stored /\ job.index <= builders[job.project]
        BY <4>1 DEF Ordered, InOrder, First
      <4>3. job.index \in Nat /\ builders[job.project] \in Nat
        BY <4>2, BoundsAssumption DEF Sound, Typed, Job
      <4>. QED
        BY <1>7, <4>1, <4>2, <4>3 DEF IsLast, Outdated, ProjectBuildersCount
    <3>. QED
      BY <1>2, <3>1, HandledEntries DEF Sound, First
  <2>2. \A j \in jobs : IsLast(j) => j \in jobs' /\ IsLast(j)'
    BY <1>1, <1>4, <1>7
  <2>. QED
    BY <1>1, <1>3, <1>4, <1>5, <2>1, <2>2 DEF UpToDate
<1>. QED
  BY <1>6, <1>7

LEMMA UpToDateHolds ==
  ASSUME EditUnparsed = FALSE, Outcomes = {"parsed"}
  PROVE  Spec => [](Sound /\ Ordered /\ UpToDate)
<1>1. Init => Sound /\ Ordered /\ UpToDate
  <2>. SUFFICES ASSUME Init PROVE UpToDate
    BY InitSound, InitOrdered
  <2>1. jobs = {} /\ First = {}
    BY DEF Init, First, Stored, Range
  <2>. QED
    BY <2>1 DEF UpToDate
<1>2. Sound /\ Ordered /\ UpToDate /\ [Next]_vars => Sound' /\ Ordered' /\ UpToDate'
  <2>. SUFFICES ASSUME Sound, Ordered, UpToDate, [Next]_vars PROVE UpToDate'
    BY StepSound, StepOrdered
  <2>1. CASE UNCHANGED vars
    <3>1. UNCHANGED <<opens, contents, timers, projects, builders, files, jobs>>
      BY <2>1 DEF vars, session
    <3>2. First' = First /\ \A j : IsLast(j)' <=> IsLast(j)
      BY <3>1 DEF First, Stored, IsLast
    <3>. QED
      BY <3>1, <3>2 DEF UpToDate
  <2>. QED
    BY <2>1, ProjectAddedUpToDate, ProjectRemovedUpToDate, FileListChangedUpToDate,
       FileContentChangedUpToDate, ProcessDocumentUpToDate, FilesProcessedUpToDate DEF Next
<1>. QED
  BY <1>1, <1>2, PTL DEF Spec

-------------------------------------------------------------------------------
(* Theorems.                                                                    *)

\* The guard counts the handlers at work, whatever opens, closes, changes and ends.
THEOREM GuardCounts == Spec => []GuardCountsWork
<1>1. Sound => GuardCountsWork
  BY DEF Sound, Counted, GuardCountsWork, JobsOf
<1>. QED
  BY <1>1, SoundHolds, PTL

\* The storage's tables cover the stored projects, and everything keeps its type.
THEOREM ModelTyped == Spec => []TypeOK
<1>1. ASSUME Sound PROVE TypeOK
  <2>1. modifiers \in 0 .. Cardinality(Handlers)
    <3>1. IsFiniteSet(Handlers) /\ DOMAIN pending \in SUBSET Handlers
      BY <1>1, BoundsAssumption DEF Sound, Counted
    <3>2. Cardinality(DOMAIN pending) <= Cardinality(Handlers)
      BY <3>1, FS_Subset
    <3>3. Cardinality(DOMAIN pending) \in Nat /\ Cardinality(Handlers) \in Nat
      BY <3>1, FS_Subset, FS_CardinalityType
    <3>. QED
      BY <1>1, <3>2, <3>3 DEF Sound, Counted
  <2>. QED
    BY <1>1, <2>1 DEF Sound, Typed, Counted, TypeOK
<1>. QED
  BY <1>1, SoundHolds, PTL

\* Where projects are opened once, the answer to an earlier, longer list brings in no
\* file that the project no longer lists.
THEOREM ListedOnly ==
  ASSUME MaxOpens <= 1
  PROVE  Spec => []OnlyListedFiles
<1>1. Sound /\ Ordered => OnlyListedFiles
  BY OnlyFirst DEF OnlyListedFiles, Ordered, InOrder
<1>. QED
  BY <1>1, OrderedHolds, PTL

\* Where projects are opened once, no answer takes an entry back to an older text,
\* whatever order the answers come in.
THEOREM NoneOlder ==
  ASSUME MaxOpens <= 1
  PROVE  Spec => NoOlderAnswer
<1>. DEFINE Step == \A p \in Stored \cap Stored' :
                      \A f \in DOMAIN files[p] \cap DOMAIN files'[p] :
                        files'[p][f].version >= files[p][f].version
<1>1. Sound /\ Ordered /\ [Next]_vars => [Step]_vars
  <2>. SUFFICES ASSUME Sound, Ordered, Next PROVE Step
    OBVIOUS
  <2>1. CASE \E h \in Handlers, p \in Projects : FilesProcessed(h, p)
    BY <2>1, OnlyFirst, FilesProcessedOrdered
  <2>2. CASE ~\E h \in Handlers, p \in Projects : FilesProcessed(h, p)
    <3>1. \A p \in Stored : \A f \in DOMAIN files[p] : files[p][f].version \in Nat
      BY BoundsAssumption DEF Sound, Typed, Entry
    <3>. QED
      BY <2>2, <3>1, OthersKeepVersions
  <2>. QED
    BY <2>1, <2>2
<1>. QED
  BY <1>1, OrderedHolds, PTL DEF Spec, NoOlderAnswer

\* Where parses work and no file is edited before its first one, a project in its first
\* life has the last texts of its files whenever nothing is under way.
THEOREM FreshInTheEnd ==
  ASSUME EditUnparsed = FALSE, Outcomes = {"parsed"}
  PROVE  Spec => []FreshWhenQuiet
<1>1. Sound /\ UpToDate => FreshWhenQuiet
  <2>. SUFFICES ASSUME Sound, UpToDate, Quiet,
                       NEW p \in Stored, opens[p] = 1, NEW f \in DOMAIN files[p]
                PROVE  files[p][f].version = contents[f]
    BY DEF FreshWhenQuiet
  <2>1. timers = {} /\ DOMAIN pending = {}
    BY DEF Quiet
  <2>2. jobs = {}
    BY <2>1 DEF Sound, Counted
  <2>3. p \in First
    BY DEF First
  <2>. QED
    BY <2>1, <2>2, <2>3 DEF UpToDate
<1>. QED
  BY <1>1, UpToDateHolds, PTL
===============================================================================
