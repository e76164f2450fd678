------------------------------ MODULE Asn1Model -------------------------------
(* How the ASN.1 plugin keeps its model of a session's files: ProjectWatcher   *)
(* and Document start a ProjectContentHandler for each event, its processors   *)
(* parse in worker threads, and their answers come back to the main thread in  *)
(* any order, while ModelValidityGuard counts who is still changing the model. *)
EXTENDS MscLists

CONSTANTS Projects, Files, Handlers,
          MaxVersion,   \* bound: a file's contents change at most so often
          MaxBuilders,  \* bound: processors of a project between two resets
          MaxOpens,     \* how often a project is opened; bounds the session
          EditUnparsed, \* are files edited before every project's first parse of them
          Outcomes      \* what may come of parsing a file, among AllOutcomes

\* parsed: a File.  located: an error naming line and column.
\* unreadable: no File and no message.  dropped: messages, none understood.
AllOutcomes == {"parsed", "located", "unreadable", "dropped"}

ASSUME BoundsAssumption ==
  /\ MaxVersion \in Nat \ {0} /\ MaxBuilders \in Nat /\ MaxOpens \in Nat
  /\ EditUnparsed \in BOOLEAN
  /\ Outcomes \subseteq AllOutcomes /\ Outcomes # {}
  /\ IsFiniteSet(Projects) /\ IsFiniteSet(Handlers)

VARIABLES
  opens,     \* how often each project was opened
  listed,    \* the ASN.1 files each project has in the session
  contents,  \* the version of the text of each file, as readContent returns it
  timers,    \* the documents whose m_processorTimer runs
  projects,  \* Root::m_projects
  builders,  \* Project::m_buildersCount of the stored projects
  files,     \* Project::m_files: the entry each stored project has for a path
  modifiers, \* ModelValidityGuard::m_modifiersCnt
  pending,   \* m_projectsChanged of the handlers at work
  jobs       \* the processors whose answer has not been handled

session == <<opens, listed, contents, timers>>
vars == <<session, projects, builders, files, modifiers, pending, jobs>>

Stored == Range(projects)

\* A File: the version it was parsed from (0 for an empty fallback), whether it
\* has error messages, and m_polluted.
Entry == [version : 0 .. MaxVersion, errors : BOOLEAN, polluted : BOOLEAN]

Init ==
  /\ opens = [p \in Projects |-> 0]
  /\ listed = [p \in Projects |-> {}]
  /\ contents = [f \in Files |-> 1]
  /\ timers = {}
  /\ projects = << >>
  /\ builders = << >> /\ files = << >>
  /\ modifiers = 0
  /\ pending = << >>
  /\ jobs = {}
-------------------------------------------------------------------------------
\* ParsedDataStorage::getProjectBuildersCount
ProjectBuildersCount(p) == IF p \in Stored THEN builders[p] ELSE -1

\* a slip: every modifier resets the counts
ResetAlways(left, counts) == [p \in DOMAIN counts |-> 0]

\* ModelValidityGuard::validate: the last modifier resets every project's count
ResetAtLast(left, counts) ==
  IF left # 0 THEN counts ELSE [p \in DOMAIN counts |-> 0]

\* ProjectContentHandler's constructor, then processFiles for the projects of
\* lists: each gets a processor numbered one past the count, with the contents
\* its files have now.
StartHandler(h, lists) ==
  /\ modifiers' = modifiers + 1
  /\ builders' = [p \in Stored |-> builders[p] + (IF p \in DOMAIN lists THEN 1 ELSE 0)]
  /\ pending' = [g \in DOMAIN pending \cup {h} |->
                   IF g = h THEN Cardinality(DOMAIN lists) ELSE pending[g]]
  /\ jobs' = jobs \cup
       {[handler |-> h, project |-> p, index |-> ProjectBuildersCount(p) + 1,
         documents |-> Restrict(contents, lists[p])] : p \in DOMAIN lists}

\* A handler that starts no processor: the guard goes up and down at once.
PassingHandler(counts) ==
  /\ builders' = ResetAtLast(modifiers, counts)
  /\ UNCHANGED <<modifiers, pending, jobs>>

\* the bounds on what may be under way at once
MayStart(h, P) ==
  /\ h \notin DOMAIN pending
  /\ \A p \in P : ProjectBuildersCount(p) < MaxBuilders
-------------------------------------------------------------------------------
\* ProjectWatcher::onProjectAdded
ProjectAdded(p) ==
  /\ p \notin Stored /\ opens[p] < MaxOpens
  /\ opens' = [opens EXCEPT ![p] = @ + 1]
  /\ projects' = Append(projects, p)
  /\ files' = [q \in Stored \cup {p} |-> IF q = p THEN << >> ELSE files[q]]
  /\ PassingHandler([q \in Stored \cup {p} |-> IF q = p THEN 0 ELSE builders[q]])
  /\ UNCHANGED <<listed, contents, timers>>

\* ProjectWatcher::onProjectRemoved
ProjectRemoved(p) ==
  /\ p \in Stored
  /\ listed' = [listed EXCEPT ![p] = {}]
  /\ projects' = RemoveOne(projects, p)
  /\ files' = Restrict(files, Stored \ {p})
  /\ PassingHandler(Restrict(builders, Stored \ {p}))
  /\ UNCHANGED <<opens, contents, timers>>

\* a slip: what left the project's list stays in the model
WithStale(p, list) == files[p]

\* ProjectContentHandler::removeStaleFiles
WithoutStale(p, list) == Restrict(files[p], DOMAIN files[p] \cap list)

\* ProjectWatcher::onProjectFileListChanged
FileListChanged(h, p, list) ==
  /\ p \in Stored /\ MayStart(h, {p})
  /\ listed' = [listed EXCEPT ![p] = list]
  /\ files' = [files EXCEPT ![p] = WithoutStale(p, list)]
  /\ StartHandler(h, [q \in {p} |-> list])
  /\ UNCHANGED <<opens, contents, timers, projects>>

\* ParsedDataStorage::getAnyFile: where the first project that has f is
Having(f) == {k \in DOMAIN projects : f \in DOMAIN files[projects[k]]}
AnyFile(f) == CHOOSE k \in Having(f) : \A m \in Having(f) : k <= m

\* Document::onFileContentChanged, by the editor of f: the first project's entry
\* is polluted and the timer restarts, if the model knows the file.
FileContentChanged(f) ==
  /\ contents[f] < MaxVersion
  /\ EditUnparsed \/ \A p \in Stored : f \in listed[p] => f \in DOMAIN files[p]
  /\ contents' = [contents EXCEPT ![f] = @ + 1]
  /\ IF Having(f) = {} THEN UNCHANGED <<files, timers>>
     ELSE /\ files' = [files EXCEPT ![projects[AnyFile(f)]][f].polluted = TRUE]
          /\ timers' = timers \cup {f}
  /\ UNCHANGED <<opens, listed, projects, builders, modifiers, pending, jobs>>

\* a slip: only the first of the projects holding a file is parsed again
AnyProjectForFile(f) ==
  {p \in {q \in Stored : f \in DOMAIN files[q]} :
     \A m, k \in DOMAIN projects :
        projects[k] = p /\ f \in DOMAIN files[projects[m]] => k <= m}

\* ParsedDataStorage::getProjectsForFile
ProjectsForFile(f) == {p \in Stored : f \in DOMAIN files[p]}

\* Document::processDocument, when the timer of f ends: the projects holding f
\* parse all the files the model has of them.
ProcessDocument(h, f) ==
  /\ f \in timers /\ MayStart(h, ProjectsForFile(f))
  /\ timers' = timers \ {f}
  /\ IF ProjectsForFile(f) = {} THEN PassingHandler(builders)
     ELSE StartHandler(h, [p \in ProjectsForFile(f) |-> DOMAIN files[p]])
  /\ UNCHANGED <<opens, listed, contents, projects, files>>
-------------------------------------------------------------------------------
\* slips: one processor too few is outdated, or none
OutdatedLate(job) == job.index + 1 < ProjectBuildersCount(job.project)
NeverOutdated(job) == FALSE

\* Asn1SccDocumentProcessor::setState
Outdated(job) == job.index < ProjectBuildersCount(job.project)

\* the worker's m_errorMessages: none of a run whose files parse or whose
\* messages were all dropped
Errored(outcome) == \E f \in DOMAIN outcome : outcome[f] \in {"located", "unreadable"}

\* handleFilesProcesedWithSuccess: the files that parsed replace their entries
SuccessEntries(entries, job, outcome) ==
  LET parsed == {f \in DOMAIN outcome : outcome[f] = "parsed"}
  IN [f \in DOMAIN entries \cup parsed |->
        IF f \in parsed
          THEN [version |-> job.documents[f], errors |-> FALSE, polluted |-> FALSE]
          ELSE entries[f]]

\* handleFilesProcesedWithFailure: an entry there is keeps its contents, another
\* is an empty fallback; both get the messages that name the file.
FailureEntries(entries, job, outcome) ==
  [f \in DOMAIN entries \cup DOMAIN outcome |->
     IF f \notin DOMAIN outcome THEN entries[f]
     ELSE IF f \in DOMAIN entries
            THEN [entries[f] EXCEPT !.errors = (outcome[f] = "located")]
            ELSE [version |-> 0, errors |-> (outcome[f] = "located"), polluted |-> FALSE]]

\* a slip: a failed run stores its empty fallbacks over what was there
HandledEmptying(job, outcome) ==
  IF job.project \notin Stored \/ Outdated(job) THEN files
  ELSE [files EXCEPT ![job.project] =
          IF Errored(outcome) THEN FailureEntries(<< >>, job, outcome)
                              ELSE SuccessEntries(@, job, outcome)]

\* a slip: the answer to a closed project brings its entries back
HandledReopening(job, outcome) ==
  IF Outdated(job) THEN files
  ELSE [p \in Stored \cup {job.project} |->
          IF p # job.project THEN files[p]
          ELSE SuccessEntries(IF p \in Stored THEN files[p] ELSE << >>, job, outcome)]

\* what the answer makes of the project's entries; none if the project is gone
Handled(job, outcome) ==
  IF job.project \notin Stored \/ Outdated(job) THEN files
  ELSE [files EXCEPT ![job.project] =
          IF Errored(outcome) THEN FailureEntries(@, job, outcome)
                              ELSE SuccessEntries(@, job, outcome)]

\* slips: the guard is released at every answer, or never by an outdated one
CountDownEach(job) ==
  /\ pending' = IF pending[job.handler] = 1
                  THEN Restrict(pending, DOMAIN pending \ {job.handler})
                  ELSE [pending EXCEPT ![job.handler] = @ - 1]
  /\ modifiers' = modifiers - 1
  /\ builders' = ResetAtLast(modifiers - 1, builders)
CountDownUpToDate(job) ==
  IF Outdated(job) THEN UNCHANGED <<pending, modifiers, builders>>
  ELSE IF pending[job.handler] = 1
    THEN /\ pending' = Restrict(pending, DOMAIN pending \ {job.handler})
         /\ modifiers' = modifiers - 1
         /\ builders' = ResetAtLast(modifiers - 1, builders)
    ELSE /\ pending' = [pending EXCEPT ![job.handler] = @ - 1]
         /\ UNCHANGED <<modifiers, builders>>

\* --m_projectsChanged, and allProcessingFinished when none is left
CountDown(job) ==
  IF pending[job.handler] = 1
    THEN /\ pending' = Restrict(pending, DOMAIN pending \ {job.handler})
         /\ modifiers' = modifiers - 1
         /\ builders' = ResetAtLast(modifiers - 1, builders)
    ELSE /\ pending' = [pending EXCEPT ![job.handler] = @ - 1]
         /\ UNCHANGED <<modifiers, builders>>

\* Asn1SccParsedDocumentBuilder::handleResults up to onFilesProcessingFinished
FilesProcessed(h, p) ==
  \E job \in jobs :
    /\ job.handler = h /\ job.project = p
    /\ jobs' = jobs \ {job}
    /\ \E outcome \in [DOMAIN job.documents -> Outcomes] :
         files' = Handled(job, outcome)
    /\ CountDown(job)
    /\ UNCHANGED <<session, projects>>
-------------------------------------------------------------------------------
Next ==
  \/ \E p \in Projects : ProjectAdded(p) \/ ProjectRemoved(p)
  \/ \E h \in Handlers, p \in Projects, list \in SUBSET Files : FileListChanged(h, p, list)
  \/ \E f \in Files : FileContentChanged(f)
  \/ \E h \in Handlers, f \in Files : ProcessDocument(h, f)
  \/ \E h \in Handlers, p \in Projects : FilesProcessed(h, p)

\* Every parse ends (asn1scc is waited for with a timeout) and the event loop
\* delivers its answer.  Nothing is assumed of the user or of the timers.
Fairness == \A h \in Handlers, p \in Projects : WF_vars(FilesProcessed(h, p))

Spec == Init /\ [][Next]_vars /\ Fairness
-------------------------------------------------------------------------------
Job == [handler : Handlers, project : Projects, index : 0 .. MaxBuilders + 1,
        documents : UNION {[F -> 1 .. MaxVersion] : F \in SUBSET Files}]

\* The variables have their types, and the storage's tables cover its projects.
TypeOK ==
  /\ opens \in [Projects -> 0 .. MaxOpens]
  /\ listed \in [Projects -> SUBSET Files]
  /\ contents \in [Files -> 1 .. MaxVersion]
  /\ timers \subseteq Files
  /\ projects \in Seq(Projects) /\ NoRepeat(projects)
  /\ builders \in [Stored -> 0 .. MaxBuilders]
  /\ DOMAIN files = Stored
  /\ \A p \in Stored : files[p] \in [DOMAIN files[p] -> Entry] /\ DOMAIN files[p] \subseteq Files
  /\ modifiers \in 0 .. Cardinality(Handlers)
  /\ DOMAIN pending \subseteq Handlers
  /\ \A h \in DOMAIN pending : pending[h] \in 1 .. Cardinality(Projects)
  /\ jobs \subseteq Job

\* The model is invalid exactly while processors run: the guard counts the
\* handlers at work, and each of those waits for precisely its own processors.
GuardCountsWork ==
  /\ modifiers = Cardinality(DOMAIN pending)
  /\ \A h \in DOMAIN pending : pending[h] = Cardinality({j \in jobs : j.handler = h})
  /\ \A j \in jobs : j.handler \in DOMAIN pending

\* Whatever order the answers come in, a project never goes back to an older
\* text of a file while it stays open: late answers are outdated (setState).
NoOlderAnswer ==
  [][\A p \in Stored \cap Stored' :
       \A f \in DOMAIN files[p] \cap DOMAIN files'[p] :
          files'[p][f].version >= files[p][f].version]_vars

\* A project's entries are of files it still lists, although the answer to an
\* earlier, longer list may come in after removeStaleFiles.
OnlyListedFiles == \A p \in Stored : DOMAIN files[p] \subseteq listed[p]

\* Nothing under way: no timer, no handler.
Quiet == timers = {} /\ pending = << >>

\* Once nothing is under way, each project holding a file has its last text,
\* however edits, lists and answers interleaved (processDocument).  A project opened
\* again is left out: the answer to a parse of its earlier life passes for current.
FreshWhenQuiet ==
  Quiet => \A p \in Stored :
    opens[p] = 1 => \A f \in DOMAIN files[p] : files[p][f].version = contents[f]

\* Errors are highlighted during typing (docs/features.md): once nothing is under
\* way, each entry is of the last text, or the file shows an error.
FreshOrShown ==
  Quiet => \A p \in Stored : \A f \in DOMAIN files[p] :
             files[p][f].version = contents[f] \/ \E g \in DOMAIN files[p] : files[p][g].errors

\* All models of a project can be displayed (docs/features.md): once nothing is
\* under way, the model has every file the project lists.
AllListedStored == Quiet => \A p \in Stored : DOMAIN files[p] = listed[p]

\* Every handler at work is done with in the end, so the guard is released.
HandlersFinish == \A h \in Handlers : h \in DOMAIN pending ~> h \notin DOMAIN pending
===============================================================================
