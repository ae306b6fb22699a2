----------------------------- MODULE Transport -----------------------------
(***************************************************************************)
(* The reference transport: SpectrumServer, its accept loop, its bounded   *)
(* queue and its worker pool around one mutex and one condition variable,  *)
(* stop() and the destructor; and SpectrumClient, one call at a time over  *)
(* one connection. TCP and the kernel's backlog are external.              *)
(*                                                                         *)
(* stop() sets the atomic flag and notifies without taking the mutex, so a *)
(* worker that has evaluated the wait predicate and does not sleep yet is  *)
(* a state of its own here ("deciding": it still holds the mutex). A wakeup*)
(* nobody caused is left out; a wakeup with nothing to do is not, since a  *)
(* dropped connection notifies too. What a request does is left to Fabric: *)
(* here it is only executed or not. A frame cut short by the death of its  *)
(* sender is like no frame: the read ends with the stream.                 *)
(***************************************************************************)
EXTENDS Integers, FiniteSets, Sequences

CONSTANTS
  Client,           \* client processes
  Worker,           \* worker threads of the server
  QueueBound,       \* ServerConfig::maxConnections
  Backlog,          \* ServerConfig::backlog
  AllowShutdownOp,  \* ServerConfig::allowShutdownOp
  Calls,            \* what each client calls: "work" stands for any request to
                    \* the runtime, "garbage" for a frame that is malformed,
                    \* "unreadable" for a sound frame with a body that is not
  Silent,           \* clients that may keep a connection for ever and say nothing
  Attempts,         \* bound: connections each client makes
  Budget            \* bound: calls each client makes

OpCode == {"work", "shutdown", "garbage", "unreadable"}

ASSUME TransportAssumption ==
  /\ IsFiniteSet(Client) /\ IsFiniteSet(Worker) /\ Worker # {}
  /\ QueueBound \in Nat \ {0} /\ Backlog \in Nat \ {0}
  /\ AllowShutdownOp \in BOOLEAN
  /\ Calls \in [Client -> SUBSET OpCode] /\ Silent \subseteq Client
  /\ Attempts \in [Client -> Nat] /\ Budget \in [Client -> Nat]

VARIABLES
  stopping,  \* the atomic flag
  stopper,   \* a thread of the embedding program inside stop()
  accept,    \* the thread inside serve()
  worker,    \* where each worker is
  serving,   \* the connection each worker holds
  queue,     \* pending_
  socket,    \* the server's end of each connection
  request,   \* the frame on its way to the server
  reply,     \* the frame on its way to the client
  client,    \* where each client is
  attempt,   \* connections made by each client
  calls,     \* calls made by each client: its last request identity
  executed,  \* history: how often each call was executed
  answered,  \* history: calls that returned an answer
  damaged    \* history: calls whose frame or body is not acceptable to the server

server == <<stopping, stopper, accept, worker, serving, queue>>
wire == <<socket, request, reply>>
clients == <<client, attempt, calls>>
history == <<executed, answered, damaged>>
vars == <<server, wire, clients, history>>

Connection == UNION {{c} \X (1..Attempts[c]) : c \in Client}
NoConnection == <<>>
CallOf == UNION {{c} \X (1..Budget[c]) : c \in Client}

Frame == [id : Nat \ {0}, op : OpCode]
NoFrame == [id |-> 0]

Listening == accept \notin {"returned", "destroyed"}

\* The connection a client has made last, and the call it has made last.
Current(c) == <<c, attempt[c]>>
LastCall(c) == <<c, calls[c]>>

\* The client has closed its end.
Deserted(k) == client[k[1]] = "away" \/ attempt[k[1]] # k[2]

\* The mutex is held from one step to the next only by a worker that is about
\* to sleep on the condition variable.
MutexFree == \A w \in Worker : worker[w] # "deciding"

Waiting == {w \in Worker : worker[w] = "waiting"}

Awake(woken) == [w \in Worker |-> IF w \in woken THEN "idle" ELSE worker[w]]

\* Mutant: the notification is forgotten.
NotifiedNobody == worker

\* notify_all.
NotifiedAll == Awake(Waiting)

\* Mutant: the acceptor does not notify.
NobodyNotified == {worker}

\* notify_one: any one of those that wait.
NotifiedOne == IF Waiting = {} THEN {worker} ELSE {Awake({w}) : w \in Waiting}

-----------------------------------------------------------------------------
(* The thread inside serve()                                               *)

LookAround ==
  /\ accept = "open"
  /\ accept' = IF stopping THEN "leaving" ELSE "polling"
  /\ UNCHANGED <<stopping, stopper, worker, serving, queue, wire,
                 clients, history>>

Pending == {k \in Connection : socket[k] = "backlog"}

PollTimedOut ==
  /\ accept = "polling" /\ Pending = {}
  /\ accept' = "open"
  /\ UNCHANGED <<stopping, stopper, worker, serving, queue, wire,
                 clients, history>>

\* Mutant: the bound is off by one.
RoomAtBound == Len(queue) <= QueueBound

RoomInQueue == Len(queue) < QueueBound

\* A connection that finds the queue full is closed at once.
Accept(k) ==
  /\ accept = "polling" /\ socket[k] = "backlog" /\ MutexFree
  /\ IF RoomInQueue
       THEN /\ queue' = Append(queue, k)
            /\ socket' = [socket EXCEPT ![k] = "queued"]
       ELSE /\ socket' = [socket EXCEPT ![k] = "closed"]
            /\ UNCHANGED queue
  /\ accept' = "pushed"
  /\ UNCHANGED <<stopping, stopper, worker, serving, request, reply,
                 clients, history>>

\* notify_one comes after the mutex is released, dropped connection or not.
NotifyAccepted ==
  /\ accept = "pushed"
  /\ worker' \in NotifiedOne
  /\ accept' = "open"
  /\ UNCHANGED <<stopping, stopper, serving, queue, wire, clients, history>>

NotifyLeaving ==
  /\ accept = "leaving"
  /\ worker' = NotifiedAll
  /\ accept' = "joining"
  /\ UNCHANGED <<stopping, stopper, serving, queue, wire, clients, history>>

\* The listener is closed after the last worker has been joined, and the
\* kernel closes what it had not handed over.
JoinAndReturn ==
  /\ accept = "joining" /\ \A w \in Worker : worker[w] = "exited"
  /\ accept' = "returned"
  /\ socket' = [k \in Connection |-> IF k \in Pending THEN "closed" ELSE socket[k]]
  /\ UNCHANGED <<stopping, stopper, worker, serving, queue, request,
                 reply, clients, history>>

\* The destructor, once serve() has returned: what was pushed after the last
\* worker had left is closed here.
Destroy ==
  /\ accept = "returned"
  /\ accept' = "destroyed"
  /\ socket' = [k \in Connection |-> IF socket[k] = "queued" THEN "closed" ELSE socket[k]]
  /\ queue' = <<>>
  /\ UNCHANGED <<stopping, stopper, worker, serving, request, reply,
                 clients, history>>

\* stop() called by another thread of the program: first the flag, then the
\* notification.
StopFlag ==
  /\ stopper = "outside"
  /\ stopper' = "flagged"
  /\ stopping' = TRUE
  /\ UNCHANGED <<accept, worker, serving, queue, wire, clients, history>>

StopNotify ==
  /\ stopper = "flagged"
  /\ stopper' = "outside"
  /\ worker' = NotifiedAll
  /\ UNCHANGED <<stopping, accept, serving, queue, wire, clients, history>>

ServeThread ==
  \/ LookAround
  \/ PollTimedOut
  \/ \E k \in Connection : Accept(k)
  \/ NotifyAccepted
  \/ NotifyLeaving
  \/ JoinAndReturn
  \/ Destroy

-----------------------------------------------------------------------------
(* A worker thread                                                         *)

Move(w, place) == worker' = [worker EXCEPT ![w] = place]

\* Mutant: the connection is looked at and left in the queue.
LeftInQueue == queue

TakenFromQueue == Tail(queue)

\* Pending connections are served before the stop is looked at.
Take(w) ==
  /\ worker[w] = "idle" /\ MutexFree /\ queue # <<>>
  /\ serving' = [serving EXCEPT ![w] = Head(queue)]
  /\ socket' = [socket EXCEPT ![Head(queue)] = "held"]
  /\ queue' = TakenFromQueue
  /\ Move(w, "checking")
  /\ UNCHANGED <<stopping, stopper, accept, request, reply, clients, history>>

Exit(w) ==
  /\ worker[w] = "idle" /\ MutexFree /\ queue = <<>> /\ stopping
  /\ Move(w, "exited")
  /\ UNCHANGED <<stopping, stopper, accept, serving, queue, wire,
                 clients, history>>

\* The wait predicate is false; the worker keeps the mutex until it sleeps.
Decide(w) ==
  /\ worker[w] = "idle" /\ MutexFree /\ queue = <<>> /\ ~stopping
  /\ Move(w, "deciding")
  /\ UNCHANGED <<stopping, stopper, accept, serving, queue, wire,
                 clients, history>>

Sleep(w) ==
  /\ worker[w] = "deciding"
  /\ Move(w, "waiting")
  /\ UNCHANGED <<stopping, stopper, accept, serving, queue, wire,
                 clients, history>>

\* The worker closes its connection and looks for another one.
Drop(w, places) ==
  /\ socket' = [socket EXCEPT ![serving[w]] = "closed"]
  /\ serving' = [serving EXCEPT ![w] = NoConnection]
  /\ worker' = [places EXCEPT ![w] = "idle"]
  /\ UNCHANGED <<stopper, accept, queue, clients>>

CheckStop(w) ==
  /\ worker[w] = "checking"
  /\ IF stopping
       THEN Drop(w, worker)
       ELSE Move(w, "reading") /\ UNCHANGED <<stopper, accept, serving, queue, socket, clients>>
  /\ UNCHANGED <<stopping, request, reply, history>>

Arrived(w) == worker[w] = "reading" /\ request[serving[w]] # NoFrame

\* Mutant: a frame is accepted whatever its checksum says.
AcceptedUnchecked(frame) == TRUE

\* Magic, version, operation, length and checksum are all right.
Accepted(frame) == frame.op # "garbage"

\* Mutant: nobody notices that a client has gone.
HangUpWhenRejected(w) ==
  /\ Arrived(w) /\ ~Accepted(request[serving[w]])
  /\ Drop(w, worker)
  /\ UNCHANGED <<stopping, request, reply, history>>

\* Mutant: the connection is kept after a frame that is not accepted.
HangUpWhenDeserted(w) ==
  /\ worker[w] = "reading" /\ Deserted(serving[w])
  /\ Drop(w, worker)
  /\ UNCHANGED <<stopping, request, reply, history>>

\* A frame that is not accepted ends the connection, as does its end of
\* stream; the client may have gone without waiting for its answer.
HangUp(w) ==
  /\ \/ Arrived(w) /\ ~Accepted(request[serving[w]])
     \/ worker[w] = "reading" /\ Deserted(serving[w])
  /\ Drop(w, worker)
  /\ UNCHANGED <<stopping, request, reply, history>>

\* Mutant: the frame is left to be read again.
Unread(k) == request

Consumed(k) == [request EXCEPT ![k] = NoFrame]

\* Mutant: a body that does not decode is executed with what was decoded.
ReadableAnyway(frame) == TRUE

\* The body decodes as the operation's arguments, and nothing follows them.
Readable(frame) == frame.op # "unreadable"

\* dispatch: decode the body, then call the one method of the runtime the
\* operation names; a body that does not decode is answered with a refusal and
\* the runtime is left alone.
Dispatched(call, frame) ==
  IF Readable(frame) THEN [executed EXCEPT ![call] = @ + 1] ELSE executed

\* From the arrival of a frame to its answer a worker waits for nobody but the
\* runtime: the request is executed under the runtime's own mutex.
Executing(w) ==
  /\ Arrived(w) /\ Accepted(request[serving[w]])
  /\ executed' = Dispatched(<<serving[w][1], request[serving[w]].id>>, request[serving[w]])
  /\ request' = Consumed(serving[w])
  /\ UNCHANGED <<stopping, answered, damaged>>

\* sendAll: the frame is on its way, all of it.
Sent(wired, k, frame) == [wired EXCEPT ![k] = frame]

\* The reply echoes identity and operation. After an accepted shutdown request
\* the worker goes on into stop().
Serve(w) ==
  LET frame == request[serving[w]] IN
  /\ Executing(w)
  /\ reply' = Sent(reply, serving[w], frame)
  /\ Move(w, IF frame.op = "shutdown" /\ AllowShutdownOp THEN "stopping" ELSE "checking")
  /\ UNCHANGED <<stopper, accept, serving, queue, socket, clients>>

\* The reply cannot be sent: it is too long, or the connection is gone. A
\* shutdown request is then not acted upon.
ServeUnanswered(w) ==
  /\ Executing(w)
  /\ Drop(w, worker)
  /\ UNCHANGED reply

WorkerStopFlag(w) ==
  /\ worker[w] = "stopping"
  /\ stopping' = TRUE
  /\ Move(w, "notifying")
  /\ UNCHANGED <<stopper, accept, serving, queue, wire, clients, history>>

WorkerStopNotify(w) ==
  /\ worker[w] = "notifying"
  /\ Drop(w, NotifiedAll)
  /\ UNCHANGED <<stopping, request, reply, history>>

WorkerThread(w) ==
  \/ Take(w) \/ Exit(w) \/ Decide(w) \/ Sleep(w)
  \/ CheckStop(w) \/ HangUp(w) \/ Serve(w) \/ ServeUnanswered(w)
  \/ WorkerStopFlag(w) \/ WorkerStopNotify(w)

-----------------------------------------------------------------------------
(* A client                                                                *)

\* connectTcp finds a listener with room in its backlog.
Reachable == Listening /\ Cardinality(Pending) < Backlog

Connect(c) ==
  /\ client[c] = "away" /\ attempt[c] < Attempts[c] /\ Reachable
  /\ attempt' = [attempt EXCEPT ![c] = @ + 1]
  /\ socket' = [socket EXCEPT ![<<c, attempt[c] + 1>>] = "backlog"]
  /\ client' = [client EXCEPT ![c] = "connected"]
  /\ UNCHANGED <<server, request, reply, calls, history>>

\* The request identity is the next one of this client, over all connections.
Call(c, op) ==
  /\ client[c] = "connected" /\ calls[c] < Budget[c]
  /\ calls' = [calls EXCEPT ![c] = @ + 1]
  /\ request' = Sent(request, Current(c), [id |-> calls[c] + 1, op |-> op])
  /\ client' = [client EXCEPT ![c] = "calling"]
  /\ damaged' = IF op \in {"garbage", "unreadable"}
                  THEN damaged \cup {<<c, calls[c] + 1>>} ELSE damaged
  /\ UNCHANGED <<server, socket, reply, attempt, executed, answered>>

\* The frame is above the bound, or cannot be written: the socket is closed,
\* and the identity is used up.
CallUnsent(c) ==
  /\ client[c] = "connected" /\ calls[c] < Budget[c]
  /\ calls' = [calls EXCEPT ![c] = @ + 1]
  /\ client' = [client EXCEPT ![c] = "away"]
  /\ UNCHANGED <<server, wire, attempt, history>>

\* The methods around call() decode what an accepted request is answered with.
\* Only allocate looks for a decision in a refusal as well; the refusal of a
\* body that does not decode has none, and allocate closes the socket.
AfterReply(frame) ==
  IF Readable(frame) THEN {"connected"} ELSE {"connected", "away"}

Return(c) ==
  /\ client[c] = "calling" /\ reply[Current(c)] # NoFrame
  /\ reply[Current(c)].id = calls[c]
  /\ reply' = [reply EXCEPT ![Current(c)] = NoFrame]
  /\ \E place \in AfterReply(reply[Current(c)]) : client' = [client EXCEPT ![c] = place]
  /\ answered' = answered \cup {LastCall(c)}
  /\ UNCHANGED <<server, socket, request, attempt, calls, executed, damaged>>

\* The stream has ended, or the reply is not accepted; the socket is closed
\* and the caller learns nothing about its request.
Fail(c) ==
  /\ client[c] = "calling"
  /\ reply[Current(c)] # NoFrame \/ socket[Current(c)] = "closed"
  /\ client' = [client EXCEPT ![c] = "away"]
  /\ reply' = [reply EXCEPT ![Current(c)] = NoFrame]
  /\ UNCHANGED <<server, socket, request, attempt, calls, history>>

\* The program is done with its calls, or dies within one.
Leave(c) ==
  /\ client[c] = "connected"
  /\ client' = [client EXCEPT ![c] = "away"]
  /\ UNCHANGED <<server, wire, attempt, calls, history>>

Die(c) ==
  /\ client[c] = "calling"
  /\ client' = [client EXCEPT ![c] = "away"]
  /\ reply' = [reply EXCEPT ![Current(c)] = NoFrame]
  /\ UNCHANGED <<server, socket, request, attempt, calls, history>>

ClientProcess(c) ==
  \/ Connect(c)
  \/ \E op \in Calls[c] : Call(c, op)
  \/ CallUnsent(c)
  \/ Return(c) \/ Fail(c) \/ Leave(c) \/ Die(c)

-----------------------------------------------------------------------------
\* start() has spawned the workers and serve() has been called.
Init ==
  /\ stopping = FALSE
  /\ stopper = "outside"
  /\ accept = "open"
  /\ worker = [w \in Worker |-> "idle"]
  /\ serving = [w \in Worker |-> NoConnection]
  /\ queue = <<>>
  /\ socket = [k \in Connection |-> "unused"]
  /\ request = [k \in Connection |-> NoFrame]
  /\ reply = [k \in Connection |-> NoFrame]
  /\ client = [c \in Client |-> "away"]
  /\ attempt = [c \in Client |-> 0]
  /\ calls = [c \in Client |-> 0]
  /\ executed = [call \in CallOf |-> 0]
  /\ answered = {}
  /\ damaged = {}

Next ==
  \/ ServeThread
  \/ StopFlag
  \/ StopNotify
  \/ \E w \in Worker : WorkerThread(w)
  \/ \E c \in Client : ClientProcess(c)

\* Threads of the server are scheduled; a client that has been answered or cut
\* off notices it, and a client that has no more to ask leaves, unless it is one
\* of the silent ones: the server reads without a timeout, so nothing makes them
\* go. Nobody need connect, call or stop the server.
Fairness ==
  /\ WF_vars(ServeThread)
  /\ WF_vars(StopNotify)
  /\ \A w \in Worker : WF_vars(WorkerThread(w))
  /\ \A c \in Client : WF_vars(Return(c) \/ Fail(c))
  /\ \A c \in Client \ Silent : WF_vars(Leave(c))

Spec == Init /\ [][Next]_vars /\ Fairness

-----------------------------------------------------------------------------
(* Properties                                                              *)

\* Every connection the server has taken is in one place: once in the queue,
\* with one worker, or closed; no two workers read one stream (workerLoop).
OnePlace(k) ==
  LET queued == Cardinality({n \in 1..Len(queue) : queue[n] = k})
      held   == Cardinality({w \in Worker : serving[w] = k})
  IN  /\ queued = (IF socket[k] = "queued" THEN 1 ELSE 0)
      /\ held = (IF socket[k] = "held" THEN 1 ELSE 0)

\* Shape of the state, and where each connection is.
TypeOK ==
  /\ stopping \in BOOLEAN
  /\ stopper \in {"outside", "flagged"}
  /\ accept \in {"open", "polling", "pushed", "leaving", "joining", "returned", "destroyed"}
  /\ worker \in [Worker -> {"idle", "deciding", "waiting", "checking", "reading",
                            "stopping", "notifying", "exited"}]
  /\ serving \in [Worker -> Connection \cup {NoConnection}]
  /\ queue \in Seq(Connection) /\ Len(queue) <= QueueBound
  /\ socket \in [Connection -> {"unused", "backlog", "queued", "held", "closed"}]
  /\ request \in [Connection -> Frame \cup {NoFrame}]
  /\ reply \in [Connection -> Frame \cup {NoFrame}]
  /\ client \in [Client -> {"away", "connected", "calling"}]
  /\ \A c \in Client : attempt[c] \in 0..Attempts[c]
  /\ \A c \in Client : calls[c] \in 0..Budget[c]
  /\ executed \in [CallOf -> Nat]
  /\ answered \subseteq CallOf /\ damaged \subseteq CallOf
  /\ \A k \in Connection : OnePlace(k)

\* A call is executed at most once, and once if it was answered; a call that
\* was not answered may have been executed (serveConnection, call). Nothing is
\* executed for a frame that is not accepted, or a body that does not decode.
ExecutedOnce ==
  /\ \A call \in CallOf : executed[call] <= 1
  /\ \A call \in answered \ damaged : executed[call] = 1
  /\ \A call \in damaged : executed[call] = 0

\* No connection waits for a busy worker while another worker sleeps: unless
\* a notification is due, there is a worker on its way for each connection
\* (serve and workerLoop, notification after the unlock).
NobodySleepsOnWork ==
  accept # "pushed" /\ Waiting # {}
    => Cardinality({w \in Worker : worker[w] = "idle"}) >= Len(queue)

\* No client keeps a connection for ever without a word.
NobodySilent == \A c \in Silent : []<>(client[c] # "connected")

\* A connection in the queue is taken up or closed, stop or no stop: workers
\* drain the queue, and what comes too late the destructor closes. A silent
\* client keeps the worker that reads from it, and while the server stops no
\* other worker need be left to take what was pushed last.
QueuedLeaves ==
  NobodySilent => \A k \in Connection : socket[k] = "queued" ~> socket[k] # "queued"

Open(call) == client[call[1]] = "calling" /\ call = LastCall(call[1])

\* As long as nobody stops the server, a call comes to an end although other
\* connections hold every worker, provided that fewer clients are silent than
\* there are workers: a worker in serveConnection reads without a timeout and is
\* lost to the others for as long as its client says nothing.
CallsEnd ==
  Cardinality(Silent) < Cardinality(Worker) =>
    \A call \in CallOf : Open(call) ~> ~Open(call) \/ stopping

\* Once a stop has been asked for, the server comes to an end: serve() returns
\* after it has joined the workers, none of which a silent client keeps.
ShutdownCompletes == NobodySilent => (stopping ~> accept = "destroyed")

\* Shutdown completes in every run in which the stop does not come between a
\* worker's look at the queue and its falling asleep.
ShutdownCompletesUnlessMissed ==
  [](stopping => MutexFree) => ShutdownCompletes

\* Accepting, queueing, handing over, framing and stopping come to a service
\* that executes each call at most once, before its answer and never after it,
\* and perhaps after its client has given it up (serveConnection, call).
Service == INSTANCE CallService WITH
  made <- calls, waiting <- {c \in Client : client[c] = "calling"}
ActsAsService == Service!Spec
=============================================================================
