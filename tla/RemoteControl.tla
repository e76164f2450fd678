----------------------------- MODULE RemoteControl -----------------------------
(* The remote control of the streaming window: clients send commands over web  *)
(* sockets; the server hands each to the handler, which looks instances up by  *)
(* name, pushes the editor's commands on the undo stack that all clients share *)
(* and has the server send an answer.                                          *)
EXTENDS MscUndo

CONSTANTS Clients,      \* connections, each opened once
          Names,        \* names of instances
          NoName,       \* the parameter is missing
          StartNames,   \* the names in the file
          DefaultName,  \* "Instance_<n>", by n
          MaxRequests   \* bound: requests sent by all clients in each session

ASSUME RemoteAssumption ==
  /\ StartNames \in [Instances -> Names \cup {NoName}]
  /\ NoName \notin Names
  /\ MaxRequests \in [Sessions -> Nat]

VARIABLES clients,  \* m_clients
          wire,     \* how many messages a client has sent that were not handled
          handled,  \* auxiliary: how many requests of a client were handled
          answers,  \* what a client has received
          left,     \* the connections that were closed
          name,     \* the instances' names
          stopped,  \* the instances with an explicit stop
          stops     \* auxiliary: the values of stopped, one per prefix of stack

net == <<clients, wire, handled, answers, left>>
named == <<name, stopped, stops>>
remoteVars == <<vars, net, named>>

Requests ==
  [kind : {"instance"}, name : Names \cup {NoName}]
    \cup [kind : {"stop", "action"}, name : Names]
    \cup [kind : {"message", "create"}, src : Names \cup {NoName}, dst : Names \cup {NoName}]
    \cup [kind : {"undo", "redo", "garbage"}]
-------------------------------------------------------------------------------
(* RemoteControlHandler.                                                        *)

\* A wrong look-up, which does not see the instances that were added.
NamedInFile(n) == {i \in InstancesIn \cap Range(Start[kinds]) : name[i] = n}
Named(n) == {i \in InstancesIn : name[i] = n}

\* The undo of a stop clears it, and that of a create message clears the creator, even
\* when the command found them set.
Stoppable(i) == Exact => i \notin stopped
Creatable(t) == Exact => chart.creator[t] = NoInstance

Failed == UNCHANGED <<vars, named>>
Pushed(c, cmd) ==
  /\ Push(c, cmd)
  /\ stops' = Append(SubSeq(stops, 1, index + 1), stopped')
  /\ UNCHANGED kinds

\* An instance that nothing done has made, for a new MscInstance.
HandleInstance(q) ==
  LET n == IF q.name = NoName THEN DefaultName[Len(chart.instances)] ELSE q.name
  IN  IF Named(n) # {} THEN Failed
      ELSE /\ \E i \in Instances : NewInstance(i)  \* bound
           /\ LET i == CHOOSE j \in Instances : NewInstance(j)
              IN  /\ name' = [name EXCEPT ![i] = n]
                  /\ stopped' = stopped \ {i}
                  /\ Pushed(chart, [kind |-> "instance", i |-> i, pos |-> -1])

HandleStop(q) ==
  IF Named(q.name) = {} THEN Failed
  ELSE \E i \in Named(q.name) :
         /\ Stoppable(i)
         /\ stopped' = stopped \cup {i}
         /\ Pushed(chart, [kind |-> "stop", i |-> i])
         /\ UNCHANGED name

\* Actions, timers and conditions that are not shared; at the end of the lifeline.
HandleLocal(q) ==
  IF Named(q.name) = {} THEN Failed
  ELSE \E i \in Named(q.name) :
         LET e == CHOOSE x \in Locals : NewEvent(x)
         IN  /\ \E x \in Locals : NewEvent(x)  \* bound
             /\ UNCHANGED <<name, stopped>>
             /\ Pushed(Renewed(e, i, NoInstance), [kind |-> "event", e |-> e, at |-> AtOnly(i, -1)])

\* No name means the environment.
EndNamed(n) == IF n = NoName THEN {NoInstance} ELSE Named(n)

\* The lifelines of a message.
OnEnds(s, t) == {s, t} \ {NoInstance}

\* The target is set first, and a message refuses the same instance for its source.
HandleMessage(q) ==
  LET news == {m \in Messages : m \in Creates <=> q.kind = "create"}
      bad  == \/ EndNamed(q.src) = {} \/ EndNamed(q.dst) = {}
              \/ q.src = NoName /\ q.dst = NoName
              \/ q.kind = "create" /\ q.dst = NoName
  IN  IF bad THEN Failed
      ELSE \E s \in EndNamed(q.src), t \in EndNamed(q.dst) :
             LET e    == CHOOSE m \in news : NewEvent(m)
                 from == IF s = t THEN NoInstance ELSE s
             IN  /\ \E m \in news : NewEvent(m)  \* bound
                 /\ q.kind = "create" => Creatable(t)
                 /\ UNCHANGED <<name, stopped>>
                 /\ Pushed(Renewed(e, from, t),
                           [kind |-> "event", e |-> e, at |-> [i \in OnEnds(from, t) |-> -1]])

\* setExplicitStop(true) before the command, then CmdInstanceStopChange, whose undo
\* says no whatever was there.
\* (NeverUnstopped leaves the stop, as if the command had found it.)
NeverUnstopped(c) == stopped
Unstopped(c) == IF c.kind = "stop" THEN stopped \ {c.i} ELSE stopped
Restopped(c) == IF c.kind = "stop" THEN stopped \cup {c.i} ELSE stopped

HandleUndo ==
  IF index = 0 THEN Failed
  ELSE /\ UndoOne
       /\ stopped' = Unstopped(stack[index])
       /\ UNCHANGED <<kinds, name, stops>>
HandleRedo ==
  IF index = Len(stack) THEN Failed
  ELSE /\ RedoOne
       /\ stopped' = Restopped(stack[index + 1])
       /\ UNCHANGED <<kinds, name, stops>>

\* RemoteControlHandler::handleRemoteCommand
Handle(q) ==
  \/ q.kind = "instance" /\ HandleInstance(q)
  \/ q.kind = "stop" /\ HandleStop(q)
  \/ q.kind = "action" /\ HandleLocal(q)
  \/ q.kind \in {"message", "create"} /\ HandleMessage(q)
  \/ q.kind = "undo" /\ HandleUndo
  \/ q.kind = "redo" /\ HandleRedo
-------------------------------------------------------------------------------
(* RemoteControlWebServer.                                                      *)

\* (AnsweredToAll tells every connected client.)
AnsweredToAll(to, c) ==
  answers' = [d \in Clients |-> IF d \in Range(clients) THEN Append(answers[d], <<c, handled[c] + 1>>)
                                ELSE answers[d]]
Answered(to, c) == answers' = [answers EXCEPT ![to] = Append(@, <<c, handled[c] + 1>>)]

\* The first client with the peer name of the caller.  QWebSocketServer leaves the peer
\* name of the sockets it accepts empty, so that the first client is the one.
Receiver(c) == Head(clients)

\* RemoteControlWebServer::onNewConnection
Connect(c) ==
  /\ c \notin Range(clients) \cup left
  /\ clients' = Append(clients, c)
  /\ UNCHANGED <<vars, named, wire, handled, answers, left>>

\* RemoteControlWebServer::socketDisconnected
Disconnect(c) ==
  /\ c \in Range(clients)
  /\ clients' = RemoveAll(clients, c)
  /\ left' = left \cup {c}
  /\ wire' = [wire EXCEPT ![c] = 0]
  /\ UNCHANGED <<vars, named, handled, answers>>

Sent == MapThenSumSet(LAMBDA c : handled[c] + wire[c], Clients)

\* A client sends; what, is chosen when it is read.  (External: the client.)
Send(c) ==
  /\ c \in Range(clients)
  /\ Sent < MaxRequests[kinds]
  /\ wire' = [wire EXCEPT ![c] = @ + 1]
  /\ UNCHANGED <<vars, named, clients, handled, answers, left>>

\* RemoteControlWebServer::processTextMessage, the handler's work and commandDone
Process(c) ==
  /\ wire[c] > 0
  /\ wire' = [wire EXCEPT ![c] = @ - 1]
  /\ handled' = [handled EXCEPT ![c] = @ + 1]
  /\ \E q \in Requests :
       /\ q.kind \in kinds
       /\ IF q.kind = "garbage" THEN Failed /\ Answered(c, c) ELSE Handle(q) /\ Answered(Receiver(c), c)
  /\ UNCHANGED <<clients, left>>

RemoteInit ==
  /\ Init
  /\ clients = << >>
  /\ wire = [c \in Clients |-> 0]
  /\ handled = [c \in Clients |-> 0]
  /\ answers = [c \in Clients |-> << >>]
  /\ left = {}
  /\ name = StartNames
  /\ stopped = {}
  /\ stops = <<{}>>

RemoteNext ==
  \E c \in Clients :
    \/ Connect(c)
    \/ Disconnect(c)
    \/ Send(c)
    \/ Process(c)

RemoteSpec == RemoteInit /\ [][RemoteNext]_remoteVars
-------------------------------------------------------------------------------
(* Properties.                                                                  *)

\* If those of the file do, all instances of the chart have names of their own, whatever
\* the clients create, undo and redo between them: a name finds at most one instance.
FileNamesDiffer ==
  \A i, j \in Range(Start[kinds]) : StartNames[i] = StartNames[j] => i = j
NamesAreUnique == FileNamesDiffer => \A i, j \in InstancesIn : name[i] = name[j] => i = j

\* What one client undoes or redoes is what some client did: the chart and the stops are
\* those that the commands up to there left.  (A create message from the environment
\* leaves an empty list under a null key, which nobody sees.)
Seen(v) == [v EXCEPT !.events = Restrict(@, DOMAIN @ \ {NoInstance})]
UndoRestores ==
  Exact => Seen(View(chart)) = Seen(views[index + 1]) /\ stopped \cap InstancesIn = stops[index + 1]

\* Every request that was handled was answered, to one client and once, whoever came and
\* went since; nobody got an answer to what was not asked; the answers to one caller are
\* in order wherever they arrive; and who never shared the server got all of its own.
OwnAnswers(c) == answers[c] = [n \in 1..handled[c] |-> <<c, n>>]
AnsweredOnce ==
  /\ \A c \in Clients : \A n \in 1..handled[c] :
       \E d \in Clients : \E k \in DOMAIN answers[d] : answers[d][k] = <<c, n>>
  /\ \A d \in Clients : \A k \in DOMAIN answers[d] :
       \E c \in Clients : \E n \in 1..handled[c] : answers[d][k] = <<c, n>>
  /\ \A d, e \in Clients : \A j \in DOMAIN answers[d], k \in DOMAIN answers[e] :
       /\ answers[d][j] = answers[e][k] => d = e /\ j = k
       /\ d = e /\ j < k /\ answers[d][j][1] = answers[e][k][1] => answers[d][j][2] < answers[e][k][2]
  /\ \A c \in Clients : Range(clients) \cup left \subseteq {c} => OwnAnswers(c)

\* "peerName The caller name" (remotecontrolhandler.cpp:70): the answer goes to the caller.
AnswersToCallers == \A c \in Clients : OwnAnswers(c)

\* "Cyclic CREATE messages are not allowed" (messagecreatortool.cpp:115): no instance
\* creates, through others, itself.
NoCyclicCreation == \A i \in InstancesIn : i \notin CreatorsOf(chart, i)
================================================================================
