# SpaceCreator in TLA+

SpaceCreator is a set of Qt editors for the models of a TASTE system: message
sequence charts (MSC), the interface view, the deployment view and ASN.1 data
types, as stand-alone programs and as Qt Creator plugins. The modules here
describe the parts of it whose state is hard to keep right: redundant records of
charts, documents and interface views, the commands of the undo stacks that edit
them, editors and remote clients that act on each other, and the parallel parses
that keep the ASN.1 model of a session up to date.

In paths, `src/` is the root of the repository, so that `src/src/libs` is its
directory `src/libs`. `PROJECT.json` maps every definition to the lines it models.

## 1. Inventory

### Parts and how they interact

    user ──> scene items, tools ──> commands ──> MscCommandsStack (QUndoStack)
    remote clients ─> RemoteControlHandler ──┘          │ redo / undo
                                                        v
       MainModel ── load, save ──> MscModel > MscDocument > MscChart <── signals ── MscMessage, ...
                                                        │ nameChanged
                                                        v
       every MSC editor's stack <── MscSystemChecks ──> the interface view's stack
                                                        │ redo / undo
                                                        v
       IVModel > IVFunction > IVInterface <── signals ── IVConnection, prototypes, clones

    Qt Creator session ─> ProjectWatcher ─┐
    ASN.1 editor ─> Document, its timer ──┴> ProjectContentHandler ─> Asn1SccDocumentProcessor
                                                  │                         │ worker thread
                                                  v                         v
                          ModelValidityGuard, ParsedDataStorage <── answers (queued signals)

| part | where | state | operations | what is hard | correct when |
|---|---|---|---|---|---|
| MscChart | `src/src/libs/msccore` | instances in order; one event list per instance; orphan events; each event's pointers; explicit creators; signal connections | add, remove and move instances and events; retarget a message; restore lists | membership and pointers are two records of one fact, kept in step by hand and by Qt signals; positions are computed from one list and used on another | the two records agree, nothing is listed twice, one edit moves one event, creation has no cycle |
| editing commands, undo stack | `libmsceditor/commands`, `shared/commandsstackbase.cpp`, `mainmodel.cpp` | each command's copies of old and new data; done and undone commands; clean index | push (redo, merge), undo, redo, save, macros | undo runs on what a later sequence left; merging; a command that does half its work when it is made; a save that fails | undo and redo bring back the document's versions; clean means saved |
| layout and tools | `libmsceditor/chartview`, `tools` | item geometry | translate a drop to a command | positions of one lifeline used on another | commands get positions that exist |
| timer relations | `msccore/msctimer.cpp`, `mscchart.cpp` | preceding and following timer | reset when a timer moves, goes or gets a name | the neighbours need new partners; a rename goes through a pair | links are mutual, inside one lifeline, between nearest timers |
| documents | `msccore/mscmodel.cpp`, `mscdocument.cpp`, `libmsceditor/commands/cmddocument*` | a tree of documents with charts, QObject parents | create, move, delete, paste, change of type | what a document owns is destroyed with it, while commands keep pointers | a tree with one owner each; nothing dangles; undo restores |
| remote control | `libmsceditor/remotecontrol` | connected clients, commands waiting | JSON commands to undo commands, undo, redo, answers | clients share one stack; checks of the tools are bypassed; answers go by a name that all sockets share | names are unique, undo restores, each request answered once, to its sender (it is not: section 5) |
| interface view: objects | `ivcore`, `libiveditor/interface/commands` | functions, interfaces, connections, groups, comments, types, clones | create, group, instantiate, remove | removal takes related objects along in several owners' books | undo restores; one owner each; links have ends; instances mirror types |
| interface view: inheritance | `ivcore/ivinterface.cpp`, `ivconnection.cpp` | prototypes of required interfaces, data put aside, signals | connect, remove, change parameters, kind, InheritPI, name | signals after the change; data put aside once | a required interface has its prototype's data, and its own again after |
| names in both models | `spacecreatorsystem`, the editors' cores | the models, each editor's stack | what a rename or removal does on the other side | stacks push on each other from inside undo and redo | names agree, are unique, and each stack's undo restores |
| ASN.1 plugin model | `src/src/qtcreator/asn1plugin` | stored projects, their files, number of builders; guard count; running processors | project, file list and edit events; answers | parses run in threads and end in any order; files edited, lists changed and projects closed meanwhile | the model follows the session; late answers do no harm; the model is released |
| reader, writer, CIF | `msccore` | none between calls | parse and print | grammar | a written chart reads back |
| hierarchy and document views | `libmsceditor` | Qt item models | follow the tree | notification order | rows match the tree |
| shared support | `libs/shared` | settings, attributes | data access | macros cancelled half way | a cancelled macro leaves no trace |
| deployment view | `dvcore`, `libdveditor` | object tree | load, lay out | little | — |
| ASN.1 library, value editor | `asn1library`, `asn1editor` | values, a static cache of parses | parse XML, edit values | data conversion; the cache is not locked | — |
| system project, templating | `spacecreatorsystem`, `templating` | the open editors | load, store, text generation | — | — |
| SpaceCreator plugin, programs | `spacecreatorplugin`, `applications` | windows | glue | — | — |

Left out from the start: `src/src/3rdparty` (ANTLR's runtime), generated
parsers, examples, build files and patches.

`PROJECT.json` lists the hazards of this code at the lines where they bite. The
themes are: two records of one fact; a list position carried from one list to
another; an undo that meets something other than what its command met; objects
destroyed while a command still points to them; a signal that comes after the
change it announces, or once too often; one stack pushed on from inside another;
answers of parallel work in an unexpected order; a count that starts again while
its users still run. Some more are true of the code and not in that list: later
insertions push a create message off the head of its lifeline (mscchart.cpp:208),
`setInstanceEvents` destroys orphans (:274) and connects twice (:286), a comment
edited twice is listed twice (cmdentitycommentchange.cpp:53), tree views keep
pointers to files that an answer destroys (mutablerootmodel.cpp:45), an obsolete
macro is undone twice (commandsstackbase.cpp:73).

## 2. Modules

| module | what it is |
|---|---|
| `MscLists`, `MscListsProofs` | QVector's operations and `InsertOrAppend`, the list surgery of `addInstanceEvent`; lemmas about them |
| `MscChartOps` | a chart as a record, one operator for each function of `MscChart` and for what commands feed it; no variables |
| `MscChart`, `MscChartProofs` | a chart under every interleaving of the editor's commands; the inductive invariant and the theorems |
| `UndoHistory` | abstract: a document with a past and a future |
| `MscUndo` | the command objects, the stack with its clean index, the saved file |
| `RemoteControl` | clients, requests and answers; extends `MscUndo`, on whose stack the requests are pushed |
| `RemoteControlProofs` | that `MscUndo` implements `UndoHistory`, and on that the theorems about `RemoteControl` |
| `MscTimers`, `MscTimersProofs` | the timers' preceding and following links |
| `MscDocuments`, `MscDocumentsProofs` | the tree of documents and its commands; that it stays a tree, that undo restores it and nothing dangles |
| `IVModelOps`, `IVModel` | the interface view's objects and commands; the user with the undo stack |
| `IVInherit`, `IVInheritProofs` | inheritance of provided interfaces |
| `NameSync`, `NameSyncProofs` | instances and functions whose names follow each other, one undo stack per editor; that names agree and are unique and each stack restores its documents |
| `Asn1Model`, `Asn1ModelProofs` | the ASN.1 plugin's model of a session; its theorems |
| `MC...` | small instances of each for TLC |

The modules about commands have one shape. A model is a record; a command is a
record with what its C++ object stores, made by an operator for its constructor;
`Redo(m, c)` and `Undo(m, c)` are its two functions, run on whatever model there
is; `Push` is `QUndoStack::push` (redo, forget what was undone, merge); the
auxiliary variable `views` holds what the user saw at each index. A *session*
gives commands of certain kinds from a certain start, with a bound on their
number. Sessions keep the instances small, and they separate the commands whose
undo is right from those known to be wrong (section 5): properties about undo are
stated of the sessions that are `Exact`, the others of all.

### The chart (`MscChartOps`, `MscChart`)

A chart is a record; its fields are the members of `MscChart` and the pointers
that events keep:

| field | code |
|---|---|
| `instances` | `MscChart::m_instances` |
| `events` | `MscChart::m_events`, a hash from instance to list: a function whose domain is the set of keys |
| `orphans` | `MscChart::m_orphanEvents` (comments) |
| `source`, `target` | `MscMessage::m_source/m_target`; `source` is `m_instance` of an action, timer, condition or coregion end |
| `creator` | `MscInstance::m_explicitCreator` |
| `slots` | how many connections the chart has to an event's `instanceRelationChanged`; a Qt slot runs once per connection |
| `alive` | FALSE after what C++ leaves undefined (`QVector::insert` outside the list, use of a destroyed event) or a `qFatal` |

Kinds of event matter only as far as `relatesTo` tells them apart: messages (two
ends, of which one may be the frame), create messages, local events (one
instance), shared conditions (all instances), comments (none). Objects are model
values. Creating an object that is not in the chart nor connected to it stands
for a newly made object, so a name is used again after a deletion.

An action is one command's effect: `redo` with all it calls. A retarget, for
example, is `UpdateMessageTarget`: the setter changes the pointer and emits the
signal, `eventInstanceChange` moves the message from one list to the other once
per connection (`EmitRelationChanged`), then `moveEvent` places it. Positions
come from `DropPositions` and `Placements`, which are what
`ChartLayoutManager::eventInstanceIndex` can return. Where the scene can produce
any index within a list, the model takes any.

`MscChart` has no undo: every command may follow every other in every chart.
That gives the strongest statement about `MscChart`'s functions, and the one
that is proved.

### The undo stack (`MscUndo`, `UndoHistory`)

A command is a record with what its C++ object stores, made when the object is
made; `Redo` and `Undo` are its functions, run later on whatever chart there is.
`Push` is `QUndoStack::push`: redo, forget what was undone, merge into the last
command if both are moves of the same action, timer or condition, or are about the
text of one comment (`CanMerge`), and the last command is not the saved one. A comment
and its removal merge into a command that does nothing, and a new comment takes that
one's place. A new comment right after the removal of an older one would make a change
of its text, which the model leaves out (`PushComment`). `CmdDeleteEntity` takes its instances out of the
chart in its constructor, before the push, and so does `DeleteInstance`.
`Save(ok)` is `saveMsc`, with writing that may fail.

A comment is one object to the model and several to the code: the undo of the command
that made it detaches it and the redo makes another (`cmdentitycommentchange.cpp:51,68`),
and where the command and a removal merge it is destroyed. This matters to whoever kept
a pointer, which a deletion does, in its copy of the orphans. `outdated` has these pairs
of command and comment (`Keepers`); the undo of such a deletion lists what was destroyed
(`mscchart.cpp:274`), and `alive` becomes false.

`UndoHistory` says what undo and redo promise. The mapping takes the view of the
chart (what is drawn and written; the orphans, which are written with the event they
are about, as a set) as the document and the auxiliary `views` as past and future.

The exact sessions are `Moves`, `Deletions`, `Commenting` and `Saves`: they have
deletions of what takes nothing along, or comments, and not both (`Exact`). `KeptComments`
has both, `AnyDeletions` also deletes what takes a comment or a create message along
(`deleteAny`, without the guard `Plain`), and `Retargets` moves ends of messages to other
instances; of these three only `PointersMatchLists` is claimed. The last two are not in
one session because the undo of a deletion connects messages once per lifeline, and a
retarget after it lists a message twice.

### Timers (`MscTimers`)

`chart` holds each lifeline's timers, each timer's instance and name, and the two
pointers `pre` and `fol` of `MscTimer`. `ResetTimerRelations` is the chart's
function step by step, with the setters' own bookkeeping (`SetFollowingTimer`
tells the old neighbour). A rename goes to the neighbours before the chart looks
for new ones. Undo of a deletion is `setInstanceEvents`, lifeline by lifeline in
any order, since the hash gives one.

### Documents (`MscDocuments`)

A document is in the tree where a list `kids` has it, and has a QObject parent,
`owner`, which destroys it; `live` and `charted` are the objects not destroyed.
Where the two records part, something is destroyed that is still listed
(`Dangling`), and a session of any commands ends there. A session begins with a
file's tree (`Start`, `IsFile`); exact sessions give only commands whose undo loses
nothing (the conjuncts `Exact => ...` of the actions: a parent without charts, for
example), on files in which no document holds both documents and a chart.

`InTree` is the least set that has the root and what its members list. What neither
the tree nor a command leads to is forgotten when a command is pushed
(`Forgetful`): a new document takes the place of one that nobody can tell from it.
`astray` becomes true when a command finds one of its documents destroyed, or is to
move a document again to where it has no place any more (`Misses`).

Two details are simpler than the code. The redo of a creation whose document was
destroyed makes a new one (`cmddocumentcreate.cpp:41`), which other commands do not know;
the model puts the destroyed one into the tree, which is the end of the session. The undo
of a document's deletion also puts back the lists of the chart that is shown, which the
command had copied (`cmddeleteentity.cpp:91`); what is on a chart is `MscUndo`'s.

### Remote control (`RemoteControl`)

`wire` counts what a client has sent and `RemoteControlWebServer` has not read,
`handled` what was; requests reach the handler one at a time, in any order
between clients and in order for each. A handler's action (`HandleInstance`,
`HandleMessage`, ...) is the whole of `RemoteControlHandler::handleRemoteCommand`
for its kind, pushes on `MscUndo`'s stack, and its answer goes to the `Receiver`:
the first client with the caller's peer name. That name is empty for every socket that
the server accepted (a `QWebSocket` has one if it was opened with a host), so it is
the first client that is connected. Clients come and go.

### Interface view: objects (`IVModelOps`, `IVModel`)

| field | code |
|---|---|
| `inModel` | `VEModel::m_objects` |
| `parent`, `kids` | QObject parent, `IVFunctionType`'s lists |
| `ends` | `IVConnection`'s source and target; a group's interface groups |
| `members`, `init`, `entities` | `IVConnectionGroup::m_connections`, `m_initConnections`, `IVInterfaceGroup::m_entities` |
| `fnType`, `cloneOf`, `clones` | `IVFunction::m_fnType`, `IVInterface::cloneOf`, `m_clones` |

`CmdEntitiesRemove` looks for related objects when it is made, splits them by
owner, and its undo adds them in its own order; `PostInit` may refuse. The
exact sessions start from documents for groups (`Joined`), nesting (`Nested`), types
(`Typed`), or with a link and a type (`Linked`) or inside a function (`Within`) for all
the kinds of command together, and two for groups between a function and one nested in
it: `Bundled` has required interfaces on both sides, `Inward` also provided ones. Seven
more have the commands that lose something. `Exact` sessions have none of these; in
`Accepting` ones nothing that is put back is refused.

A connection's source and target are those that `IVConnectionPrivate::setData` makes of
the two interfaces (`Oriented`), and it does the same with a group's ends, which count
as required (`OrientedGroup`): a group from a function to one nested in it is turned
round. Its members are not if they join provided interfaces, and lead against their
group then. Groups with such members are in the sessions that lose something
(`OneWay` keeps them out of the others): section 5.

### Interface view: inheritance (`IVInherit`)

A required interface (`RIs`) has a flag `InheritPI`, its prototypes, the data put
aside (`m_originalFields`) and the provided interfaces it `hears`. Adding a
connection runs `inheritPI`, which puts aside and copies; changes of a provided
interface reach those who hear it; `SetInheritPI` changes the value and then
tells, as the code does. `kept` is auxiliary: the data each interface had before its
first prototype. A change of parameters sets them before it removes or restores
connections, so one that comes to inherit in that step had them as they were set
(`Edited`).

### Names (`NameSync`)

`sys` holds the functions' titles (and an interface's), the instances' names, each
editor's stack and index, what is being run, and `views`, the documents that each
editor's user saw. `Push`, `Redo` and the handlers of `MscSystemChecks` call each
other as the code's signals do, so that one action is the user's whole step with all
it causes (`Joins` is `mergeWith`). How deep the signals go is bounded by
`m_nameUpdateRunning`, so nothing is recursive: what is pushed while the flag is set
changes its document and is heard of by nobody (`PushUnfollowed`, `Asked`). It is not
set when `onEntityNameChanged` follows an undo or redo (mscsystemchecks.cpp:274), and
then each instance's new name is heard of in turn (`Heard`). The instances are asked in
the order of the charts (`AllAsked`, `AllHeard`, functions of the number asked so far).

Pushes while a stack undoes or redoes are those of `QUndoStack` (`Pushed`): after an
undo the index is the one before the command, whatever was appended; a push during
redo destroys what is ahead, the running command among it (`alive`). The user's
answers to the message boxes are the record `a`.

### The ASN.1 model (`Asn1Model`)

| variable | code |
|---|---|
| `opens`, `listed`, `contents` | the session: projects opened, their ASN.1 files, the text of each file as a version number |
| `timers` | the documents whose `m_processorTimer` runs |
| `projects`, `files`, `builders` | `Root::m_projects`, `Project::m_files`, `Project::m_buildersCount` |
| `modifiers` | `ModelValidityGuard::m_modifiersCnt` |
| `pending` | `m_projectsChanged` of each `ProjectContentHandler` at work |
| `jobs` | the processors whose answer has not been handled: index, and the texts they were given |

| action | code |
|---|---|
| `ProjectAdded`, `ProjectRemoved`, `FileListChanged` | `ProjectWatcher`'s slots, each with a new handler that runs to its end or to the start of its processors |
| `FileContentChanged` | `Document::onFileContentChanged`: polluted entry, timer restarted |
| `ProcessDocument` | `Document::processDocument` when the timer ends |
| `FilesProcessed` | an answer: `handleResults`, `setState`, `onFilesProcessingFinished` and, for the last one, `allProcessingFinished` with the guard's `validate` |

Everything but the parse runs in the main thread, so each slot is one action; the
parse itself is the time between a job's start and its answer, and answers of
different jobs come in any order. What may come of a file is one of four
`Outcomes`: it parsed, it has an error with a place, it gave neither a file nor a
message, its messages were all dropped.

## 3. Runs

| run | what it asks | bounds |
|---|---|---|
| `Charts` | lists, pointers, connections and creators agree; one event moves per step; no cycle of creation; the list operations are what references say | 3 instances; two create messages and a message, for a chain of two creations and a third to close it; a message, an action, a shared condition and a comment, so that each kind meets the others; lists of 5 for the operations |
| `Undo` | `MscUndo` implements `UndoHistory` in exact sessions; clean means saved; lists and pointers agree, whatever is undone | 4 commands on a file with one instance: add the second instance, an event or a comment, change it, undo in part, overwrite; 3 commands on three instances for deletions and retargets |
| `Remote` | names stay unique, undo is history, each request is answered once | 2 clients, 3 or 4 requests: one client's undo between two of the other's |
| `Timers` | links are mutual, on one lifeline, between nearest timers | two starts, two ends, two lifelines, two names; any number of commands |
| `Documents` | undo restores, a tree, nothing dangles | a root, two documents, flat or nested, one more to come, five charts; 3 exact commands on the flat file, 2 on the nested one, 2 of any commands on either kind of file with a document that has a document and a chart |
| `IVModel` | undo restores; owners, links, groups and clones are right | 3 commands of one sort after documents of up to 9 objects; 2 of all sorts, 2 or 3 with lossy ones; 4 of the 6 interfaces can be drawn or be clones (`Drawn`) |
| `IVInherit` | undo restores, prototypes followed, own data comes back | 2 required and 2 provided interfaces, 3 or 4 commands; one session of 3 commands on a single connection takes every kind of edit, parameters and switches together |
| `Names` | names agree and are unique, undo in each editor restores | 2 functions (3 may exist), two files, 3 names, 3 commands per stack (2 where the user also draws and removes, answers as they like, or renames where nobody hears) |
| `ModelAnswers` | late answers bring back no unlisted file and no older text | 1 project, 2 files, 3 handlers at once, all outcomes: an answer that is late by one or two |
| `ModelFinish` | the guard counts the work, every handler ends, the last text arrives | 2 projects sharing a file, opened twice each, three versions, 2 handlers at once, no symmetry (it is not sound for liveness) |
| `UndoRetarget`, `InheritSwitch` | are to fail: section 5 | |

Bounds that are not in the code: `MaxSlots` (connections are counted up to it;
two are told from one), `MaxCommands` and `most` (a real stack has no limit),
`MaxRequests`, `MaxVersion`, `MaxBuilders`, `Handlers` (how many may be at work),
`MaxOpens`, the free objects of each kind. No action is cut off in the middle by a
bound: it bounds only when a user's command or event may begin (in `NameSync`, a
step that would make a stack too long or need one more function is left out).
`CHECK_DEADLOCK FALSE` stands where the system does stop: a chart or a tree after
undefined behaviour goes no further, a session whose stacks are full and whose
projects were all closed is over.

What a run leaves out on purpose, because the code is known to fail there:

- `Undo`: retargets, deletions that take comments or create messages, and any deletions
  where comments are made are in no exact session; saves do not fail;
- `MaxOpens = 1` in `ModelAnswers`, and `FreshWhenQuiet` speaks of projects in
  their first life: a project closed and opened again makes its processors'
  numbers start again, and an answer to the earlier one brings in an older text or
  an unlisted file;
- `EditUnparsed = FALSE` and parses that work in `ModelFinish`: an edit before the
  first answer is not noticed;
- the exact sessions of `Documents`, `IVModel` and `IVInherit`, and `Exact` in
  `Names`: section 5 says what goes wrong outside them.

Each property has a mutant in `PROJECT.json`, a slip in one operator (written
beside the right one and marked as a slip) under which its run fails.

### Fairness

Only `Asn1Model` assumes any: `WF` of `FilesProcessed` for each handler and
project. A processor's worker waits for asn1scc in `QProcess::waitForFinished`
with a timeout and kills it otherwise, so it ends; its answer is a queued signal,
and the event loop delivers it. Nothing is assumed of the user nor of the
documents' timers, which an edit restarts each time. `HandlersFinish` is thus
about handlers that have started. The other modules state safety only: nothing
in an editor has to happen.

## 4. Proofs

### The chart

`MscChartProofs` proves of `MscChart`, for every set of instances and events and
every bound `MaxSlots >= 2`:

| theorem | property |
|---|---|
| `InvariantHolds` | `IInv` |
| `TypeCorrect` | `TypeOK` |
| `NothingListedTwice` | `NoDuplicates` |
| `ListedAreRelated` | `OnlyRelatedListed` |
| `RelatedAreListed` | `RelatedListed` |
| `LifelinesOfInstances` | `KeysAreInstances` |
| `ListenedToOnce` | `ConnectedOnce` |
| `CreatorsAreCreates` | `CreatorHasCreate` |
| `CreationHasNoCycle` | `NoCyclicCreation` |
| `CommandsMoveOneThing` | `OneEventMoves` |

The only assumption is `ChartAssumption`: the kinds of event do not overlap,
`NoInstance` is no instance, the sets are finite. TLC evaluates it on every run.

None of these is inductive alone. A retarget lists a message once on the new
lifeline only if the chart is connected to it exactly once; it removes it from
the old lifeline only if it was listed there once; the removal of an instance
leaves no pointer behind only if every message that points to the instance is on
some lifeline, where `MessagesOf` looks for it. So the invariant is the
conjunction, `IInv == Sound(chart) /\ Complete(chart)`:

- `Sound`: types; no list with repetition; keys are the chart's instances; what
  is listed points there; only comments are orphans; one connection to each
  listed event, none to a comment;
- `Complete`: every instance an event of the chart points to is in the chart and
  lists the event.

`Sound` alone is preserved by most functions of `MscChart`, and is proved of
them one lemma each (`AddInstanceSound`, `RemoveEventsSound`, `MoveBetweenSound`,
`MoveEventSound`, ...): functions that a command calls one after another pass
through charts that are sound and not complete. `Complete` is proved for each
command (`CreateLocalStep`, `RetargetMessageStep`, ...), and
`InvariantHolds` collects the commands.

Creation is about two more records, `creator` and the create messages. `CreatedInv`
adds to `IInv` that they say the same, and that there is a *rank*: a number for each
instance that grows from the creating instance to the created one. With a rank no
chain of creators comes back to its start, whatever its length. A new creation is
given one by raising the ranks of all that the new instance leads to; that they do
not include the creating instance is what `validateCreate` looks for with the chain
`CreatorsOf`, and the chain is long enough since the instances are finite and, by the
old rank, different (a count of the instances that the chain has passed).

`OneEventMoves` compares two states. Every command is put into one form, `StepIs`: one
event is taken out of the lists and put in elsewhere, or one instance; that the
others keep their order (`OrderKept`) is then a fact about lists with one element less.

The lists' facts are in `MscListsProofs`:
`KeepOnly`, with which removals are defined, is given by the order of the indices
that stay and not by recursion, so that its lemma `KeepOnlyProperties` can be
proved; `KeepOnlyIsFilter` in `MCMscChart` has TLC compare it with the library's filter.

### The undo stack

The first part of `RemoteControlProofs` proves of `MscUndo`, for charts of any size and stacks of any length
(`ChartAssumption`, `UndoAssumption`):

| theorem | property | also assumed |
|---|---|---|
| `HistoryIsExact` | `ExactUndoIsHistory`: the refinement of `UndoHistory` | |
| `CleanStaysSaved` | `CleanIsSaved` | `SaveOutcomes \subseteq {TRUE}` |
| `PointersStayMatched` | `PointersMatchLists` of the exact sessions | |
| `StepsStayDefined` | `DefinedSteps` of the exact sessions | |

That the view before the last command comes back says nothing by itself of the
commands further down the stack: their undo will run on a chart that later commands
made and took back. The invariant `StackInv` therefore speaks of every command at
once:

- `Steps`: each command on the stack, done or undone, `Leads` from the view before
  it to the view after it, *from whatever chart looks like that*. This is why the
  claim is about views: two charts with one view may differ in the pointers of events
  that are not listed.
- `Hidden`: those events matter since the code looks at their pointers when they come
  back (`addInstanceEvent` checks `relatesTo`; a create message looks for its
  target). An event that some command will bring back still points where it did.
- `Once`: that holds because an event comes and goes once along the views; it is the
  part of `NewEvent` (a new `MscMessage` or `MscAction` is a new object) that
  undoing, forgetting and creating again needs. `Made` says which command made it.
- `Good`: the chart is well formed, in the strength that the exact commands keep:
  lists and pointers agree, creators are those of the create messages. (Those from
  the environment have none; only the remote control makes such.)

All but `Steps` is in `Traced`, which the remote control's proof shares.

Each command is proved to `Work` (`InstanceWorks`, `EventWorks`, `DeleteInstanceWorks`,
...): it leads from the chart it is pushed on to a good one, and it and its undo lead
there and back from all charts that look the same. `PushOn`, `StepBack` and `StepOn`
then keep `StackInv` without knowing the commands. A command that joins the last one
(`JoinOn`) is the hard case: the joined command was never executed as such. For it,
where a move leads is a function of the view, the event and the place (`PlaceIn`), the
second move of an event forgets the first (`PlaceInTwice`), so the joined one leads
from the first command's start to the second one's end (`MergedLeads`). The removal of a
comment that the last command made is that command's undo, so the two that are joined
lead from a chart to itself (`JoinComment`). That no deletion lists an outdated comment is
seen from the session's kinds: without both nothing is ever `outdated` (`Fresh`,
`NoKeepers`). `CleanInv` adds
that the file holds the view at the clean index while there is one, and that a command
never joins the one at the clean index is what it needs.

### Remote control

`RequestsAnsweredOnce` (`AnsweredOnce`) is proved from `NetInv`: who has a message
waiting is connected, so that there is a first client to be answered. The answers that
all clients have are as many as the requests handled, one for each; a new one has a
number that none to its caller has (`OneAnswerMore`). That the caller is the one that
gets it follows only for a client that never had company, and is false otherwise
(section 5). `NamesStayUnique` proves `NamesAreUnique` from `NameInv`, which speaks
of the instances that any command on the stack makes, done or not: no two of those
done, and none of them and the file's, have one name. Names are never changed, so an
undo needs nothing; a redo finds its name free since the look-up was made when all the
commands before it were done.

`RemoteUndoRestores` (`UndoRestores`) takes over the part of `StackInv` that does not
speak of the commands (`Traced`), and has its own for them. A create message from
the environment leaves an empty list under a null key of `m_events`, which its undo
does not take out: the chart does not come back as it was, and is not `Good`. What
comes back is the chart without that key (`Seen`): every command does to a chart with
the key what it does to one without (`AddInstanceSeen`, `RemoveEventsSeen`,
`AddEventSeen`), so each leads from all charts that are seen as the view before it to
one that is seen as the view after it (`Brings`), and its undo back (`Returns`). The
stops are not in the chart: `Halted` says that a stop on the stack is of an instance
in the chart that had none, which `Stoppable` looks at, and is why an undo that always
says "not stopped" is right there, whoever asks for it.

### Timers

`MscTimersProofs` proves of `MscTimers`, for any timers and lifelines:

| theorem | property | also assumed |
|---|---|---|
| `TimersTyped` | `TypeOK` | |
| `LinksStayMutual` | `LinksMutual` | |
| `PairsStayOnLifeline` | `PairsOnLifeline` | |
| `PairsStayNearest` | `PairsAreNearest` | no timer is renamed, all are in the file |

`PairsInv` says that links are mutual and lead from a start to an end further down the
same lifeline. It holds before and after every command and not in between: a setter
changes one side and then the other. The lemmas about `ResetTimerRelations` are
therefore about its steps in turn. `NearInv` adds that nothing of the pair's name lies between;
a rename that goes through a pair breaks it for good (section 5), hence the
assumption.

### Inheritance

`IVInheritProofs` proves of `IVInherit`, for any interfaces, parameter lists, kinds and
sessions (`InheritAssumption`):

| theorem | property | where |
|---|---|---|
| `PrototypesStayConnected` | `PrototypesAreConnected` | at most one connection between two interfaces |
| `InheritanceIsUndone` | `UndoRestores` | `Single` sessions |
| `PrototypesAreFollowed` | `FollowsPrototype` | `Single` sessions |
| `ConnectedParamsAgree` | `ParamsAgree` | `Single` sessions |
| `OwnDataIsKept` | `OwnDataComesBack` | all sessions |

The conditions are in the properties. For the first, `InheritInv` says of every model
that a listened connection joins a prototype, that only what inherits has prototypes
and that each is connected (`Good`); every handler keeps this, in whatever order
commands are undone. Without the condition it is false, and TLC finds six commands:
connect twice, remove the first
connection, switch `InheritPI` off, remove the second, switch on; the prototype that
was put aside comes back without a connection (ivconnection.cpp:152–178; the checks in
connectioncreationvalidator.cpp:93–138 do not refuse a second connection).

The three of `Single` sessions rest on one observation. A model with one prototype at a time holds
no more than what its interfaces have of their own, which of them want to inherit,
and the connections (`Owns`): the shown data, the prototypes, what is put aside,
what is heard and the listened connections are a function of these (`Shown`). Each
handler, `inheritPI`, `reflectAttrs` with its signal in the middle, the changes of
parameters that part connections and restore them, takes `Shown` of one source to
`Shown` of the next (`LinkAdded`, `LinksRemoved`, `LinksRestored`, `ParamsChanged`,
`KindChanged`, ...). So a command that is done and taken back gives the same source
(`Made`), and `History` says this of each command on the stack and the two models
it lies between. A command's new data is its new source's, hence `FollowsPrototype`;
that parameters of a connection agree when the RI does not inherit (`Agreeing`) is
what a change of parameters removes connections for, hence `ParamsAgree`. The proof
needs that `Unset` is not itself data that was put aside (`InheritAssumption`), which
`m_originalFields.collected()` (ivinterface.h:167) tells from it.

`OwnDataIsKept` holds however many connections there are, between the same
interfaces too, whenever `InheritPI` is switched and in whatever state commands are undone.
The invariant (`Steady`): data is put aside exactly while there is a prototype
(`Settled`), and each prototype is led to by a listening connection (`Backed`).
The second is needed because an RI that is switched off gets its data and its flag
back from the first connection that is told, while it still has prototypes
(`NotifyOffCalm`): only that each of them is then told brings `Settled` back. `OwnData`,
shown or put aside, is what every handler keeps (`Calm`); only a changed kind
may reach an RI that has no prototype left and still hears one (`SetKindCarries`), which
happens with three connections.

### The ASN.1 model

`Asn1ModelProofs` proves of `Asn1Model`, for any finite sets of projects, files
and handlers and any bounds (`BoundsAssumption`):

| theorem | property | also assumed |
|---|---|---|
| `ModelTyped` | `TypeOK` | |
| `GuardCounts` | `GuardCountsWork` | |
| `ListedOnly` | `OnlyListedFiles` | `MaxOpens <= 1` |
| `NoneOlder` | `NoOlderAnswer` | `MaxOpens <= 1` |
| `FreshInTheEnd` | `FreshWhenQuiet` | `EditUnparsed = FALSE`, `Outcomes = {"parsed"}` |

The argument has three layers. `Sound` says that the tables have the stored
projects as keys (`Typed`) and that a handler's count is the number of its jobs,
one per project, and the guard's the number of handlers (`Counted`). Counting
needs that a handler makes its jobs at once and for different projects
(`OneValueEach`).

The numbers of builders tell a late answer from the last one only while the
project is in its first life: the set `First`. `Ordered` is about those. `InOrder`
says that a job's number is at most the project's, that at most one job has the
last number (`IsLast`), that it covers only files the project lists, and that no
job of a project is about when it is first opened. The reset of the numbers at the
last `validate` keeps this since then there are no jobs, which is what `Counted`
is needed for. `NotOlder` says that no entry and no job is newer than the file, and
no entry newer than the last job's text. Only the last job's answer is stored, so
`NoOlderAnswer` follows.

`UpToDate` adds that a text which has changed since a last job took it has its
timer running, and that an entry with an old text has a timer or a last job about
it. With no timers and no handlers there are no jobs (`Counted`), so entries have
the last texts.

### Documents

`MscDocumentsProofs` proves of `MscDocuments`, for any documents and charts, any file
and any number of commands (`MscDocumentsAssumption`):

| theorem | property |
|---|---|
| `DocumentsStayATree` | `DocumentsAreATree` |
| `UndoRestoresTrees` | `UndoRestores` |
| `NothingIsLost` | `NothingDangles` |

**The tree.** That the tree is one now is not inductive: an undo lists a document that was
out of the tree for many commands, with its own documents below it, and a deletion's
undo puts it under a parent that was itself moved and put back. The invariant `TreeInv`
speaks of all the places of the stack at once, done and undone. There is a function
from documents to parents for each place (`Along`), each command `Leads` from the one
before it to the one after it, each is a `Forest` (every set of documents has one
whose parent is not in it), and the lists of the model are those of the place where
the stack is: `Placed` says that what a document lists has it as parent there and as
QObject parent, and is listed once. It does not say that all children are listed,
which is not so once an undo destroyed some. A forest in which what is listed is
listed by its parent has no document under itself (`PlacedIsTree`).

A deleted document has no parent in that function while it still has one in Qt. What
is below it is not forgotten as long as a command points to it, so the forest that
an undo brings back is that of the place (`OldDocTree`, `NewDocTree`: what happens to
the function when the stack is cut and a command pushed). A move is legal when pushed
since the new parent is not under the document (`ForestMoved`).

The condition `~astray` is needed, in both its parts, and the run's bounds are too
small to show it (its four documents form a tree without it as well). Where a command
finds its document destroyed it does nothing, and the next one lists the document that
should have moved a second time. The other part needs five documents and no destroyed
one; TLC follows these steps to a document that two others list. Root lists p, y and
r, all without charts; p lists x.

1. move y to p; 2. make p an IS document; 3. delete y. Undo 3: refused, since p has x
   and IS admits one, so y is lost.
2. In place of 3: move x to the root, 4. move x back to p (which is empty), 5. move x
   to r. Undo all five: the undo of 1 puts y back under the root.
3. Redo all five: 1 brings y to p, 3 moves x to the root, 4 is refused as p has y, and
   leaves x there; 5 adds x to r and removes it from p, where it is not. x is now listed
   by the root and by r.

**Exact sessions.** `UndoRestores` cannot speak of the model itself: a chart that a
command makes is another object at each redo. A *state* (`States`) describes documents
up to that: types, lists, and for each chart a `Mark`, its identity if it is one of the
file's and otherwise only whether something is drawn in it. A model `Agrees` with a
state, and is `Healthy` if nothing listed is destroyed, no chart is in two documents
and the file's charts are there. `Brings(S, P, c, Q)` says that the command c leads
from the state P to Q *and* under which conditions its undo leads back: the place a
moved or deleted document leaves must admit it again (`GivesBack`), and the parent of
a new one must have `Room`. `RedoExact` and `UndoExact` show, command by command, that
from any healthy model that agrees with the one state the code's redo or undo makes a
healthy model that agrees with the other.

The invariant `ExactInv` then is a list of states along the stack, one per place
(`Laid`): each command brings one to the next, the views that the user had are those of
the states (`ViewOf`), the model agrees with the state where the stack is, and
whatever the commands point to is alive. So undo and redo only walk along the list
(`UndoOneExact`, `RedoOneExact`), and what is left is that a new command finds such a
list. It starts from `Now`, in which `Forgetful` has made the documents that nothing
leads to as good as new, while the states still say something of them. What is not
`Reached` now is in no earlier state's tree (`ReachedAlong`, downwards along the stack:
a command that removes a document from a list points to it) and has none of the file's
charts, so the earlier states may be changed there without changing what the commands
do between them or what the user saw (`BringsElsewhere`). A change of type that is
merged into the one before it replaces the last state (`MergeExact`); this is where the
guard of `ChangeType` on `made` is needed. `ExactInv` includes `~astray`: in these
sessions every document a command needs is alive and every move finds its place, and
the tree theorem holds in them without condition.

### Names

`NameSyncProofs` proves of `NameSync`, for any functions, interfaces, files, instances,
charts and names, and stacks of any length (`SyncAssumption`: the kinds of object do not
overlap, a chart is in one file, functions start with different names):

| theorem | property | the sessions it speaks of |
|---|---|---|
| `NamesAlwaysAgree` | `NamesAgree` | `Updating`: names agree at the start, all is updated, nothing drawn or removed, a file's instances are in one chart, no names alike but for case |
| `FunctionNamesAlwaysUnique` | `FunctionNamesUnique` | any answers and commands, but interfaces are not renamed |
| `UndoAlwaysRestores` | `UndoRestores` | `Exact`: `Updating`, or files of one instance and no interface renamed |

The invariant is `Holds`. Its part `Stands` is about one editor: the documents that its
user saw follow from each other by the commands of its stack (`Leads`), none has two
functions of one name, or two instances of a chart (`Fine`), and what the editor shows is
the document at the index. `Fine` has to be said of all of them, since an undo goes back
to any. For the interface view this holds whatever the user does: what the charts
push there is a new name that no function has, and what the view's own commands set
off never comes back to it, since all that is heard then has a function by that name
(`HeardIs`: this makes `AllHeard` the same as `AllAsked`). For a chart's editor it holds
if no renaming that its own command sets off reaches its own stack. This is so if
no other instance of its file has the old name: there is none (`Alone`), or `Fine` says
so (`Updating`). That the other charts stay `Fine` needs `Founded`: a new name which no
function has is no instance's either (`TitleClear`, `ChangedInChart`).

A step is put together from what each function does. `Runs` says that nothing is taken
off a stack and that what is being redone was not touched, or else `alive` is false;
`Followed` what asking the instances does, by the number of those asked; `Noticed` and
`Heeded` what the two handlers do; `Ran` what a command does before it is itself put on
its stack (`PushHolds`) or the index is moved (`MovedHolds`). Whatever destroys a
running command ends the behaviour, and the documents are still those of the stack.

### How the proofs deal with data

The library's induction theorems take an operator as a parameter and cannot be used.
Where a fact about all positions of a list or a chain is needed, the proofs take the least
position at which it fails (`LeastNat`) and lead that to a contradiction; that
functions which are defined by recursion exist (`LoadingExists`) is shown in the same
way. `KeepOnly`, with which removals are defined, is not recursive at all.

### Model-checked only

- All of `IVModel`: it uses RECURSIVE operators (what is removed with an object), so
  nothing can be proved in a module that extends it.
- `PointersMatchLists` in the sessions that are not exact, where undo runs on charts that
  are not `Good`.
- `HandlersFinish` (liveness), and that the list operations agree with the library's
  (`KeepOnlyIsFilter` and its like), which are about recursive definitions.

## 5. What disagrees with the code's own words

Two runs end with a counterexample; the findings in `PROJECT.json` quote the line
that each contradicts. More configurations do and are kept beside them, to be run
by hand (`tlc -config X.cfg M`):

| configuration | module | the code |
|---|---|---|
| `UndoRetarget` (run) | `MCMscUndo` | undo of a retarget does not restore the places |
| `InheritSwitch` (run) | `MCIVInherit` | switching InheritPI off while connected is taken back by the connection's own answer |
| `UndoFailedSave` | `MCMscUndo` | a save that fails marks the document clean, so that nobody is asked before it is closed |
| `RemoteAnswers` | `MCRemoteControl` | the answer to any client goes to the first one that is connected |
| `RemoteCycle` | `MCRemoteControl` | remote create messages may form a cycle ("Cyclic CREATE messages are not allowed", messagecreatortool.cpp:115) |
| `UndoComment` | `MCMscUndo` | undo of deleting a commented event destroys the comment and keeps the pointer |
| `UndoKeptComment` | `MCMscUndo` | a message, its comment and an action are made, the action is deleted, all is undone and redone, and the deletion undone: it lists the first comment, which is destroyed |
| `ModelTypesView` | `MCAsn1Model` | an edit during the parse of a longer list outdates it; the new file is never in the model |
| `NamesTogether` | `MCNameSync` | one name in two charts of a file: rename, undo, redo pushes on the stack that is running the redo and destroys the running command, which then writes to itself (cmdentitynamechange.cpp:43) |
| `NamesAlike` | `MCNameSync` | an interface renamed in the object tree counts as a function: instances that have its name are renamed with it, and undo of that renames a function from inside the view's own undo |

The modules state more that TLC refutes; no configuration is kept for these, and
the passing runs avoid them or do not claim them:

| statement | refuted by |
|---|---|
| `MscChart!CreateIsFirst` | a create message, then an event at position 0 of the created lifeline |
| `MscChart!MovesStayInSequence` | two messages; a retarget gives the dropped position to the other end's list, which is shorter |
| `MscChart!CommentsListedOnce` | a comment edited twice is listed twice |
| `MscUndo!DefinedSteps` | also by undoing the retarget of an end that was at the frame: an insertion at -1 |
| `MscUndo!CreatorHasCreate` | undo of deleting a create message does not restore the creator |
| `MscUndo!NoDuplicates` | a deletion, its undo, then a retarget (kinds `event`, `delete`, `resize`) |
| `MscTimers!SameNames` | a rename goes through a pair before the chart looks for partners ("Deny connection with different names", tst_msctimer.cpp:84) |
| `IVInherit!NoMulticast` | connectioncreationvalidator.cpp:147 has a code for it, and the checks (124–132, 157–163) are commented out |
| `Asn1Model!NoOlderAnswer` with `MaxOpens = 2` | an answer to a closed project counts as current after the project is opened again |
| `Asn1Model!FreshOrShown` | an edit before the first answer starts no parse |
| `NameSync!StacksHold` with two instances in a chart, one without its function | a function is renamed to the name of the latter, so that both have it; renaming the one then renames the other from inside its redo, on the same stack |
| `NameSync!FunctionNamesUnique` with interfaces renamed | an interface gets a function's name; a rename of it, taken for the function's, renames an instance, and undoing that there renames a function |
| `NameSync!NamesAgree` with names alike but for case | a function A with an instance a (functions are looked for without regard to case, mscsystemchecks.cpp:336) leaves the name a to another function, whose instance in the same chart gets it too |
| `IVModel!LinksEndInModel` with types removed before their instances | a type is removed, then an instance with an interface of its own and a connection; undo puts the connection back, but the function is refused (ivfunction.cpp:55) and so is the interface (ivinterface.cpp:154) |
| `IVModel!LinksEndInModel` with adoption | undo of an `instance_of` takes the adopted interface from its function; removing and undoing then loses it, but not a connection at it |
| `IVModel!OwnedOnce` with a type removed together with its instance | undo meets the nested instance before the type, and refuses it: its parent is nobody, and a group drawn between it and the outer function leaves a connection in a function that does not list it |
| `IVModel!OwnedOnce` for a file in which a connection of a nested function is outside the outer one | the connection leaves a group for the function the group was drawn in, which does not list it |

What the sessions that are not exact show:

- `MscDocuments`: creating or moving a document under one with charts destroys
  them, and undo lists them again; undo of a creation clears the charts drawn
  meanwhile, so that their redo is lost; undo of a deletion or move loses the
  document when the parent's type became LEAF or IS; two merged changes of type
  forget the chart the first one made. A file may have a document with both documents
  and a chart (Msc.g4:37; the editors make none), and undo of a move or deletion in it
  clears it: its other documents are destroyed. A file may also have an IS document with more
  than one child (the reader adds them unchecked), and undo of a deletion there loses
  the document. With a document lost in one of these ways, or destroyed while a
  command points to it, commands that follow can list another one twice (section 4).
- `IVModel`: a connection of a group, or an interface at its end, removed without
  the group stays a member; comments and types nested in a removed function stay
  in the model; undo of removing an instance whose type is gone is refused, and
  the object lost; undo of an `instance_of` that adopted an interface undoes a
  removal never done and leaves the interface without parent; a member that leads
  against its group is taken from the wrong ends, which keep its interfaces
  (ivconnectiongroup.cpp:187–192). In a group between a function and one nested in it
  every connection of two provided interfaces is such a member, since the group's ends
  are swapped and the connection's are not (ivconnection.cpp:55–66): undo of adding it
  leaves the group with more than it had;
  a new interface of a type with a removed instance puts a clone in the model whose
  function is not.
- `IVInherit`: unsetting a prototype that is not the last leaves its signals
  connected (ivinterface.cpp:680).
- `NameSync`: the removal of a function asks anew at each redo, since
  `m_firstRedo` is never cleared, and its undo does not bring the instances back;
  a function renamed in the properties dialog is renamed alone, since the dialog's
  macro pushes past `CommandsStack` (commandsstackbase.cpp:92).

## 6. Not modelled

In the modelled parts:

- chart: gates, the merged order of `allEvents`, `updateCoregionPos`, names, CIF
  and geometry;
- undo: changes of kind and geometry (a plain swap of two values), macros,
  comment texts;
- timers: a change of type, numbered timers whose number changes, their part in
  `MscChart` (the lists hold timers only);
- documents: names and comments, pasting into a chart, one command that deletes
  several documents (it handles only the first, at index -1);
- remote control: Save, VisibleItemLimit, MessageDeclaration, positions given by
  a client, shared conditions, timers;
- interface view: geometry, layers, names and attributes (but those inherited),
  shared types from templates, inherited labels, single parameters;
- names: messages and connections. A message is renamed in a macro with its
  parameters; the connection's interface changes by `CmdIfaceAttrChange`, which
  only this code makes, so that an interface renamed in the view is not heard of
  as one (section 5). Function types, checks that only report;
- ASN.1: closing an editor whose timer runs, two open projects with one display
  name, the tree views that reset with the guard, files changed on disk, the
  unlocked cache of `Asn1Reader`, the steps of a worker thread (nothing of it is
  shared but that cache).

The other parts are in `PROJECT.json` with the reason: text formats, geometry and
glue have no behaviour worth a state machine. By far the most lines of the
repository are of that kind: scene items, dialogs, models of Qt's views, parsers
and writers, and tests.

## 7. Plan

Done, in the order of what the editors depend on most: the chart and its proofs,
undo as a refinement, the ASN.1 model and its proofs, timers, documents, remote
control, the interface view's objects and inheritance, names in both models. Left:

1. Theorems about `IVModel`, with recursive functions or least sets (as `Below` of
   `MscDocuments`) in place of its RECURSIVE operators.
2. Messages and connections in `NameSync`, with the macro a message is renamed in.
3. Macros of the command stack (`CommandsStackBase`), as a refinement of a history
   with grouped steps.
4. `allEvents`: the merged order agrees with every lifeline (TLC over bounded
   charts).
