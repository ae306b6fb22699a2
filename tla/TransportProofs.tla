-------------------------- MODULE TransportProofs --------------------------
(***************************************************************************)
(* Proofs about Transport: every connection is in one place, a call is     *)
(* executed at most once and the transport is a service that does so, and  *)
(* no worker sleeps while a connection waits for one, for any number of    *)
(* clients, workers, connections and calls and any bound of the queue.     *)
(***************************************************************************)
EXTENDS Transport, FiniteSetTheorems, TLAPS

-----------------------------------------------------------------------------
(* Connections, calls and types                                            *)

\* A connection is a client and a number, and so is a call.
LEMMA ConnectionPair ==
  /\ \A k \in Connection : /\ k[1] \in Client /\ k[2] \in 1..Attempts[k[1]]
                           /\ k = <<k[1], k[2]>> /\ k # NoConnection
  /\ \A c \in Client : \A n \in 1..Attempts[c] : <<c, n>> \in Connection
  /\ \A c \in Client : \A n \in 1..Budget[c] : <<c, n>> \in CallOf
<1>1. ASSUME NEW k \in Connection
      PROVE  /\ k[1] \in Client /\ k[2] \in 1..Attempts[k[1]]
             /\ k = <<k[1], k[2]>> /\ k # NoConnection
  <2>1. PICK c \in Client : k \in {c} \X (1..Attempts[c])
    BY DEF Connection
  <2>2. k = <<k[1], k[2]>> /\ k[1] = c /\ k[2] \in 1..Attempts[c]
    BY <2>1
  <2>3. k # NoConnection
    BY <2>2 DEF NoConnection
  <2> QED
    BY <2>2, <2>3
<1>2. ASSUME NEW c \in Client, NEW n \in 1..Attempts[c]
      PROVE  <<c, n>> \in Connection
  BY DEF Connection
<1>3. ASSUME NEW c \in Client, NEW n \in 1..Budget[c]
      PROVE  <<c, n>> \in CallOf
  BY DEF CallOf
<1> QED
  BY <1>1, <1>2, <1>3

Place == {"idle", "deciding", "waiting", "checking", "reading", "stopping", "notifying", "exited"}
Stage == {"open", "polling", "pushed", "leaving", "joining", "returned", "destroyed"}
End == {"unused", "backlog", "queued", "held", "closed"}

\* The shape of the server's part of the state, and of the rest.
ServerTyped ==
  /\ stopping \in BOOLEAN
  /\ stopper \in {"outside", "flagged"}
  /\ accept \in Stage
  /\ worker \in [Worker -> Place]
  /\ serving \in [Worker -> Connection \cup {NoConnection}]
  /\ queue \in Seq(Connection) /\ Len(queue) <= QueueBound

ClientTyped ==
  /\ client \in [Client -> {"away", "connected", "calling"}]
  /\ attempt \in [Client -> Nat]
  /\ \A c \in Client : attempt[c] <= Attempts[c]
  /\ calls \in [Client -> Nat]
  /\ \A c \in Client : calls[c] <= Budget[c]
  /\ \A c \in Client : client[c] # "away" => attempt[c] # 0

WireTyped ==
  /\ socket \in [Connection -> End]
  /\ request \in [Connection -> Frame \cup {NoFrame}]
  /\ reply \in [Connection -> Frame \cup {NoFrame}]
  /\ executed \in [CallOf -> Nat]
  /\ answered \subseteq CallOf /\ damaged \subseteq CallOf

\* A worker has a connection exactly while it is busy with one.
Busy == {"checking", "reading", "stopping", "notifying"}

Occupied == \A w \in Worker : serving[w] \in Connection <=> worker[w] \in Busy

\* What travels carries the identity of a call its client has made.
Numbered ==
  \A k \in Connection :
    /\ request[k] # NoFrame => request[k].id <= calls[k[1]]
    /\ reply[k] # NoFrame => reply[k].id <= calls[k[1]]

Typed == ServerTyped /\ ClientTyped /\ WireTyped /\ Occupied /\ Numbered

\* The connection of a client that has one.
LEMMA CurrentIsConnection ==
  ASSUME ClientTyped, NEW c \in Client, client[c] # "away"
  PROVE  Current(c) \in Connection /\ Current(c)[1] = c
<1>1. attempt[c] \in 1..Attempts[c]
  BY TransportAssumption DEF ClientTyped
<1> QED
  BY <1>1, ConnectionPair DEF Current

\* The connection of a busy worker.
LEMMA ServedIsConnection ==
  ASSUME ServerTyped, Occupied, NEW w \in Worker, worker[w] \in Busy
  PROVE  /\ serving[w] \in Connection
         /\ serving[w][1] \in Client /\ serving[w] = <<serving[w][1], serving[w][2]>>
BY ConnectionPair DEF Occupied

\* What was woken is idle, everybody else is where it was.
LEMMA Woken ==
  ASSUME worker \in [Worker -> Place], NEW woken \in SUBSET Waiting
  PROVE  /\ Awake(woken) \in [Worker -> Place]
         /\ \A w \in Worker : (Awake(woken)[w] \in Busy) <=> (worker[w] \in Busy)
         /\ \A w \in Worker : Awake(woken)[w] # "exited" <=> worker[w] # "exited"
         /\ \A w \in Worker : Awake(woken)[w] = "deciding" <=> worker[w] = "deciding"
BY DEF Awake, Waiting, Place, Busy

\* One of the workers that wait is awake now, if there is one.
LEMMA WokenOne ==
  ASSUME worker' \in NotifiedOne
  PROVE  \E woken \in SUBSET Waiting :
           /\ worker' = Awake(woken) \/ (Waiting = {} /\ worker' = worker)
           /\ Waiting # {} => \E w \in Waiting : woken = {w}
BY DEF NotifiedOne

\* A queue with nothing in it is within the bound.
LEMMA EmptyQueue == <<>> \in Seq(Connection) /\ Len(<<>>) = 0 /\ 0 <= QueueBound
BY TransportAssumption

\* What a queue holds after a connection is put at its end.
LEMMA LongerQueue ==
  ASSUME queue \in Seq(Connection), NEW k \in Connection
  PROVE  /\ Append(queue, k) \in Seq(Connection) /\ Len(queue) \in Nat
         /\ Len(Append(queue, k)) = Len(queue) + 1
         /\ \A n \in 1..Len(queue) : Append(queue, k)[n] = queue[n]
         /\ Append(queue, k)[Len(queue) + 1] = k
OBVIOUS

\* Nobody has made a call, and nothing is on its way.
LEMMA TypedInit == Init => Typed
<1> SUFFICES ASSUME Init PROVE Typed
  OBVIOUS
<1>1. ServerTyped
  <2>1. queue \in Seq(Connection) /\ Len(queue) <= QueueBound
    BY EmptyQueue DEF Init
  <2> QED
    BY <2>1 DEF Init, ServerTyped, Stage, Place
<1>2. ClientTyped
  BY TransportAssumption DEF Init, ClientTyped
<1>3. WireTyped
  BY DEF Init, WireTyped, End
<1>4. Occupied
  <2>1. NoConnection \notin Connection
    BY ConnectionPair
  <2> QED
    BY <2>1 DEF Init, Occupied, Busy
<1>5. Numbered
  BY DEF Init, Numbered
<1> QED
  BY <1>1, <1>2, <1>3, <1>4, <1>5 DEF Typed

\* The acceptor, the stopper and a worker leave the clients alone.
LEMMA ClientsUndisturbed ==
  ASSUME ClientTyped, UNCHANGED clients
  PROVE  ClientTyped'
BY DEF ClientTyped, clients

\* Frames and calls that stay as they are keep their numbers.
LEMMA NumbersUndisturbed ==
  ASSUME Numbered, UNCHANGED <<request, reply, calls>>
  PROVE  Numbered'
BY DEF Numbered

\* Threads that come and go without a connection.
LEMMA TypedByPlaces ==
  ASSUME Typed, UNCHANGED <<serving, queue, wire, clients, history>>,
         stopping' \in BOOLEAN, stopper' \in {"outside", "flagged"}, accept' \in Stage,
         worker' \in [Worker -> Place],
         \A w \in Worker : (worker'[w] \in Busy) <=> (worker[w] \in Busy)
  PROVE  Typed'
<1>1. ServerTyped' /\ WireTyped' /\ Occupied'
  BY DEF Typed, ServerTyped, WireTyped, Occupied, wire, history
<1>2. ClientTyped' /\ Numbered'
  BY ClientsUndisturbed, NumbersUndisturbed DEF Typed, wire, clients
<1> QED
  BY <1>1, <1>2 DEF Typed

\* Whoever serves or stops the server keeps the types.
LEMMA TypedServe ==
  ASSUME Typed, ServeThread \/ StopFlag \/ StopNotify
  PROVE  Typed'
<1>0. /\ ServerTyped /\ ClientTyped /\ WireTyped /\ Occupied /\ Numbered
      /\ worker \in [Worker -> Place]
  BY DEF Typed, ServerTyped
<1>1. CASE LookAround
  BY <1>0, <1>1, TypedByPlaces DEF LookAround, ServerTyped, Stage
<1>2. CASE PollTimedOut
  BY <1>0, <1>2, TypedByPlaces DEF PollTimedOut, ServerTyped, Stage
<1>3. ASSUME NEW k \in Connection, Accept(k)
      PROVE  Typed'
  <2>1. queue' \in Seq(Connection) /\ Len(queue') <= QueueBound
    <3>1. queue \in Seq(Connection) /\ Len(queue) <= QueueBound /\ QueueBound \in Nat
      BY <1>0, TransportAssumption DEF ServerTyped
    <3>2. queue' = queue \/ (Len(queue) < QueueBound /\ queue' = Append(queue, k))
      BY <1>3 DEF Accept, RoomInQueue
    <3> QED
      BY <3>1, <3>2, LongerQueue
  <2>2. socket' \in [Connection -> End]
    BY <1>0, <1>3 DEF Accept, WireTyped, End
  <2>3. ServerTyped' /\ WireTyped' /\ Occupied'
    BY <1>0, <1>3, <2>1, <2>2 DEF Accept, ServerTyped, WireTyped, Occupied, Stage, history
  <2>4. ClientTyped' /\ Numbered'
    BY <1>0, <1>3, ClientsUndisturbed, NumbersUndisturbed DEF Accept, clients
  <2> QED
    BY <2>3, <2>4 DEF Typed
<1>4. CASE NotifyAccepted
  <2>1. PICK woken \in SUBSET Waiting :
           worker' = Awake(woken) \/ (Waiting = {} /\ worker' = worker)
    BY <1>4, WokenOne DEF NotifyAccepted
  <2>2. /\ worker' \in [Worker -> Place]
        /\ \A w \in Worker : (worker'[w] \in Busy) <=> (worker[w] \in Busy)
    BY <1>0, <2>1, Woken
  <2> QED
    BY <1>0, <1>4, <2>2, TypedByPlaces DEF NotifyAccepted, ServerTyped, Stage
<1>5. CASE NotifyLeaving
  <2>2. /\ worker' \in [Worker -> Place]
        /\ \A w \in Worker : (worker'[w] \in Busy) <=> (worker[w] \in Busy)
    BY <1>0, <1>5, Woken DEF NotifyLeaving, NotifiedAll
  <2> QED
    BY <1>0, <1>5, <2>2, TypedByPlaces DEF NotifyLeaving, ServerTyped, Stage
<1>6. CASE JoinAndReturn \/ Destroy
  <2>1. queue' \in Seq(Connection) /\ Len(queue') <= QueueBound
    <3>1. queue' = queue \/ queue' = <<>>
      BY <1>6 DEF JoinAndReturn, Destroy
    <3> QED
      BY <1>0, <3>1, EmptyQueue DEF ServerTyped
  <2>2. socket' \in [Connection -> End]
    BY <1>0, <1>6 DEF JoinAndReturn, Destroy, WireTyped, End
  <2>3. ServerTyped' /\ WireTyped' /\ Occupied'
    BY <1>0, <1>6, <2>1, <2>2
       DEF JoinAndReturn, Destroy, ServerTyped, WireTyped, Occupied, Stage, history
  <2>4. ClientTyped' /\ Numbered'
    BY <1>0, <1>6, ClientsUndisturbed, NumbersUndisturbed DEF JoinAndReturn, Destroy, clients
  <2> QED
    BY <2>3, <2>4 DEF Typed
<1>7. CASE StopFlag
  BY <1>0, <1>7, TypedByPlaces DEF StopFlag, ServerTyped
<1>8. CASE StopNotify
  <2>2. /\ worker' \in [Worker -> Place]
        /\ \A w \in Worker : (worker'[w] \in Busy) <=> (worker[w] \in Busy)
    BY <1>0, <1>8, Woken DEF StopNotify, NotifiedAll
  <2> QED
    BY <1>0, <1>8, <2>2, TypedByPlaces DEF StopNotify, ServerTyped
<1> QED
  BY <1>1, <1>2, <1>3, <1>4, <1>5, <1>6, <1>7, <1>8 DEF ServeThread

\* A worker lets its connection go.
LEMMA TypedDrop ==
  ASSUME Typed, NEW w \in Worker, worker[w] \in Busy,
         NEW places \in [Worker -> Place],
         \A v \in Worker : (places[v] \in Busy) <=> (worker[v] \in Busy),
         Drop(w, places), stopping' \in BOOLEAN
  PROVE  ServerTyped' /\ ClientTyped' /\ Occupied' /\ socket' \in [Connection -> End]
<1>0. /\ ServerTyped /\ ClientTyped /\ WireTyped /\ Occupied
  BY DEF Typed
<1>1. worker' \in [Worker -> Place] /\ serving' \in [Worker -> Connection \cup {NoConnection}]
  BY <1>0 DEF Drop, ServerTyped, Place
<1>2. socket' \in [Connection -> End]
  BY <1>0 DEF Drop, WireTyped, End
<1>3. ServerTyped'
  BY <1>0, <1>1 DEF Drop, ServerTyped
<1>4. Occupied'
  <2>1. NoConnection \notin Connection
    BY ConnectionPair
  <2>2. worker'[w] = "idle" /\ serving'[w] = NoConnection
    BY <1>0 DEF Drop, ServerTyped
  <2>3. \A v \in Worker \ {w} : worker'[v] = places[v] /\ serving'[v] = serving[v]
    BY <1>0 DEF Drop, ServerTyped
  <2> QED
    BY <1>0, <2>1, <2>2, <2>3 DEF Occupied, Busy
<1> QED
  BY <1>0, <1>2, <1>3, <1>4, ClientsUndisturbed DEF Drop

\* A worker that goes on with its connection, or without one.
LEMMA TypedMove ==
  ASSUME Typed, NEW w \in Worker, NEW place \in Place, Move(w, place),
         place \in Busy <=> worker[w] \in Busy
  PROVE  /\ worker' \in [Worker -> Place]
         /\ \A v \in Worker : (worker'[v] \in Busy) <=> (worker[v] \in Busy)
BY DEF Typed, ServerTyped, Move

\* A worker keeps the types: what it holds and where it is go together.
LEMMA TypedWorker ==
  ASSUME Typed, NEW w \in Worker, WorkerThread(w)
  PROVE  Typed'
<1>0. /\ ServerTyped /\ ClientTyped /\ WireTyped /\ Occupied /\ Numbered
      /\ worker \in [Worker -> Place] /\ stopping \in BOOLEAN
  BY DEF Typed, ServerTyped
<1>1. CASE Take(w)
  <2>1. /\ queue \in Seq(Connection) /\ queue # <<>> /\ Len(queue) <= QueueBound
        /\ QueueBound \in Nat
    BY <1>0, <1>1, TransportAssumption DEF Take, ServerTyped
  <2>2. Head(queue) \in Connection /\ Tail(queue) \in Seq(Connection)
        /\ Len(Tail(queue)) <= QueueBound
    BY <2>1
  <2>3. /\ worker' \in [Worker -> Place] /\ worker'[w] = "checking"
        /\ \A v \in Worker \ {w} : worker'[v] = worker[v]
    BY <1>0, <1>1 DEF Take, Move, Place
  <2>4. /\ serving' \in [Worker -> Connection \cup {NoConnection}]
        /\ serving'[w] = Head(queue)
        /\ \A v \in Worker \ {w} : serving'[v] = serving[v]
    BY <1>0, <1>1, <2>2 DEF Take, ServerTyped
  <2>5. ServerTyped'
    BY <1>0, <1>1, <2>2, <2>3, <2>4 DEF Take, ServerTyped, TakenFromQueue
  <2>6. WireTyped'
    <3>1. socket' \in [Connection -> End]
      BY <1>0, <1>1 DEF Take, WireTyped, End
    <3> QED
      BY <1>0, <1>1, <3>1 DEF Take, WireTyped, history
  <2>7. Occupied'
    BY <1>0, <2>2, <2>3, <2>4 DEF Occupied, Busy
  <2>8. ClientTyped' /\ Numbered'
    BY <1>0, <1>1, ClientsUndisturbed, NumbersUndisturbed DEF Take, clients
  <2> QED
    BY <2>5, <2>6, <2>7, <2>8 DEF Typed
<1>2. CASE Exit(w)
  BY <1>0, <1>2, TypedMove, TypedByPlaces DEF Exit, ServerTyped, Place, Busy
<1>3. CASE Decide(w)
  BY <1>0, <1>3, TypedMove, TypedByPlaces DEF Decide, ServerTyped, Place, Busy
<1>4. CASE Sleep(w)
  BY <1>0, <1>4, TypedMove, TypedByPlaces DEF Sleep, ServerTyped, Place, Busy
<1>5. ASSUME worker[w] \in Busy, Drop(w, worker), UNCHANGED <<stopping, request, reply, history>>
      PROVE  Typed'
  <2>1. ServerTyped' /\ ClientTyped' /\ Occupied' /\ socket' \in [Connection -> End]
    BY <1>0, <1>5, TypedDrop
  <2>2. Numbered' /\ WireTyped'
    BY <1>0, <1>5, <2>1, NumbersUndisturbed DEF Drop, clients, WireTyped, history
  <2> QED
    BY <2>1, <2>2 DEF Typed
<1>6. CASE CheckStop(w)
  <2>1. CASE stopping
    BY <1>5, <1>6, <2>1 DEF CheckStop, Busy
  <2>2. CASE ~stopping
    <3>1. Move(w, "reading") /\ worker[w] = "checking"
      BY <1>6, <2>2 DEF CheckStop
    <3>2. UNCHANGED <<stopping, stopper, accept, serving, queue, wire, clients, history>>
      BY <1>6, <2>2 DEF CheckStop, wire
    <3> QED
      BY <1>0, <3>1, <3>2, TypedMove, TypedByPlaces DEF ServerTyped, Place, Busy
  <2> QED
    BY <2>1, <2>2
<1>7. CASE HangUp(w)
  BY <1>5, <1>7 DEF HangUp, Arrived, Busy
<1>8. ASSUME Executing(w)
      PROVE  /\ serving[w] \in Connection /\ worker[w] \in Busy
             /\ request[serving[w]] \in Frame
             /\ request' \in [Connection -> Frame \cup {NoFrame}]
             /\ \A k \in Connection : request'[k] # NoFrame => request'[k] = request[k]
             /\ executed' \in [CallOf -> Nat]
             /\ UNCHANGED <<stopping, answered, damaged>>
  <2>1. worker[w] \in Busy /\ serving[w] \in Connection
    BY <1>0, <1>8, ServedIsConnection DEF Executing, Arrived, Busy
  <2>2. request[serving[w]] \in Frame
    BY <1>0, <1>8, <2>1 DEF Executing, Arrived, WireTyped
  <2>3. /\ request' \in [Connection -> Frame \cup {NoFrame}]
        /\ \A k \in Connection : request'[k] # NoFrame => request'[k] = request[k]
    BY <1>0, <1>8, <2>1 DEF Executing, Consumed, WireTyped
  <2>4. executed' \in [CallOf -> Nat]
    <3> DEFINE call == <<serving[w][1], request[serving[w]].id>>
    <3>1. executed' = executed \/ executed' = [executed EXCEPT ![call] = executed[call] + 1]
      BY <1>8, Zenon DEF Executing, Dispatched
    <3> HIDE DEF call
    <3>2. executed \in [CallOf -> Nat]
      BY <1>0 DEF WireTyped
    <3> QED
      BY <3>1, <3>2
  <2> QED
    BY <1>8, <2>1, <2>2, <2>3, <2>4 DEF Executing
<1>9. CASE Serve(w)
  <2>0. Executing(w)
    BY <1>9 DEF Serve
  <2>1. /\ serving[w] \in Connection /\ worker[w] = "reading"
        /\ request[serving[w]] \in Frame
        /\ request' \in [Connection -> Frame \cup {NoFrame}]
        /\ \A k \in Connection : request'[k] # NoFrame => request'[k] = request[k]
        /\ executed' \in [CallOf -> Nat]
        /\ UNCHANGED <<stopping, answered, damaged>>
    BY <1>8, <2>0 DEF Executing, Arrived
  <2>2. /\ reply' \in [Connection -> Frame \cup {NoFrame}]
        /\ \A k \in Connection : reply'[k] = reply[k] \/ (k = serving[w] /\ reply'[k] = request[k])
    BY <1>0, <1>9, <2>1 DEF Serve, Sent, WireTyped
  <2>3. PICK place \in {"stopping", "checking"} : Move(w, place)
    BY <1>9 DEF Serve
  <2>4. /\ worker' \in [Worker -> Place]
        /\ \A v \in Worker : (worker'[v] \in Busy) <=> (worker[v] \in Busy)
    BY <1>0, <2>1, <2>3, TypedMove DEF Place, Busy
  <2>5. ServerTyped' /\ Occupied'
    BY <1>0, <1>9, <2>1, <2>4 DEF Serve, ServerTyped, Occupied
  <2>6. WireTyped'
    BY <1>0, <1>9, <2>1, <2>2 DEF Serve, WireTyped
  <2>7. Numbered' /\ ClientTyped'
    <3>1. UNCHANGED clients
      BY <1>9 DEF Serve
    <3>2. Numbered'
      BY <1>0, <2>1, <2>2, <3>1 DEF Numbered, clients, WireTyped, NoFrame
    <3> QED
      BY <1>0, <3>1, <3>2, ClientsUndisturbed
  <2> QED
    BY <2>5, <2>6, <2>7 DEF Typed
<1>10. CASE ServeUnanswered(w)
  <2>1. /\ Executing(w) /\ Drop(w, worker) /\ reply' = reply
    BY <1>10 DEF ServeUnanswered
  <2>2. ServerTyped' /\ ClientTyped' /\ Occupied' /\ socket' \in [Connection -> End]
    BY <1>0, <1>8, <2>1, TypedDrop
  <2>3. WireTyped'
    BY <1>0, <1>8, <2>1, <2>2 DEF WireTyped
  <2>4. Numbered'
    BY <1>0, <1>8, <2>1 DEF Numbered, Drop, clients
  <2> QED
    BY <2>2, <2>3, <2>4 DEF Typed
<1>11. CASE WorkerStopFlag(w)
  BY <1>0, <1>11, TypedMove, TypedByPlaces DEF WorkerStopFlag, ServerTyped, Place, Busy
<1>12. CASE WorkerStopNotify(w)
  <2>1. /\ NotifiedAll \in [Worker -> Place] /\ worker[w] \in Busy
        /\ \A v \in Worker : (NotifiedAll[v] \in Busy) <=> (worker[v] \in Busy)
    BY <1>0, <1>12, Woken DEF NotifiedAll, WorkerStopNotify, Busy
  <2>2. Drop(w, NotifiedAll) /\ UNCHANGED <<stopping, request, reply, history>>
    BY <1>12 DEF WorkerStopNotify
  <2>3. ServerTyped' /\ ClientTyped' /\ Occupied' /\ socket' \in [Connection -> End]
    BY <1>0, <2>1, <2>2, TypedDrop
  <2>4. Numbered' /\ WireTyped'
    BY <1>0, <2>2, <2>3, NumbersUndisturbed DEF Drop, clients, WireTyped, history
  <2> QED
    BY <2>3, <2>4 DEF Typed
<1> QED
  BY <1>1, <1>2, <1>3, <1>4, <1>6, <1>7, <1>9, <1>10, <1>11, <1>12 DEF WorkerThread

\* A client keeps the types: it has a connection exactly when it is not away.
LEMMA TypedClient ==
  ASSUME Typed, NEW c \in Client, ClientProcess(c)
  PROVE  Typed'
<1>0. ServerTyped /\ ClientTyped /\ WireTyped /\ Occupied /\ Numbered
  BY DEF Typed
<1>a. ASSUME UNCHANGED server
      PROVE  ServerTyped' /\ Occupied'
  BY <1>0, <1>a DEF server, ServerTyped, Occupied
<1>b. attempt[c] \in Nat /\ Attempts[c] \in Nat /\ calls[c] \in Nat /\ Budget[c] \in Nat
  BY <1>0, TransportAssumption DEF ClientTyped
<1>1. CASE Connect(c)
  <2>1. socket' \in [Connection -> End]
    BY <1>0, <1>1 DEF Connect, WireTyped, End
  <2>2. WireTyped'
    BY <1>0, <1>1, <2>1 DEF Connect, WireTyped, history
  <2>3. ClientTyped'
    BY <1>0, <1>1, <1>b DEF Connect, ClientTyped
  <2>4. Numbered' /\ UNCHANGED server
    BY <1>0, <1>1, NumbersUndisturbed DEF Connect
  <2> QED
    BY <1>a, <2>2, <2>3, <2>4 DEF Typed
<1>2. ASSUME NEW op \in Calls[c], Call(c, op)
      PROVE  Typed'
  <2>1. op \in OpCode
    BY <1>2, TransportAssumption
  <2>2. [id |-> calls[c] + 1, op |-> op] \in Frame /\ calls'[c] = calls[c] + 1
    BY <1>0, <1>2, <1>b, <2>1 DEF Frame, Call, ClientTyped
  <2>3. /\ request' \in [Connection -> Frame \cup {NoFrame}]
        /\ \A k \in Connection : request'[k] = request[k]
             \/ (k = Current(c) /\ request'[k] = [id |-> calls[c] + 1, op |-> op])
    BY <1>0, <1>2, <2>2 DEF Call, Sent, WireTyped
  <2>4. <<c, calls[c] + 1>> \in CallOf
    BY <1>2, <1>b, ConnectionPair DEF Call
  <2>5. WireTyped'
    BY <1>0, <1>2, <2>3, <2>4 DEF Call, WireTyped
  <2>6. ClientTyped'
    BY <1>0, <1>2, <1>b DEF Call, ClientTyped
  <2>7. \A d \in Client : calls[d] \in Nat /\ calls[d] <= calls'[d] /\ calls'[d] \in Nat
    BY <1>0, <1>2, <1>b DEF Call, ClientTyped
  <2>8. Numbered'
    <3>1. ASSUME NEW k \in Connection
          PROVE  /\ request'[k] # NoFrame => request'[k].id <= calls'[k[1]]
                 /\ reply'[k] # NoFrame => reply'[k].id <= calls'[k[1]]
      <4>1. /\ k[1] \in Client
            /\ reply[k] # NoFrame => reply[k].id \in Nat /\ reply[k].id <= calls[k[1]]
            /\ request[k] # NoFrame => request[k].id \in Nat /\ request[k].id <= calls[k[1]]
        BY <1>0, ConnectionPair DEF WireTyped, Numbered, Frame
      <4>2. reply' = reply
        BY <1>2 DEF Call
      <4>3. CASE request'[k] = request[k]
        BY <4>1, <4>2, <4>3, <2>7
      <4>4. CASE k = Current(c) /\ request'[k] = [id |-> calls[c] + 1, op |-> op]
        <5>1. k[1] = c
          BY <4>4 DEF Current
        <5> QED
          BY <1>b, <2>2, <2>7, <4>1, <4>2, <4>4, <5>1
      <4> QED
        BY <2>3, <4>3, <4>4
    <3> QED
      BY <3>1 DEF Numbered
  <2> QED
    BY <1>2, <1>a, <2>5, <2>6, <2>8 DEF Typed, Call
<1>3. CASE CallUnsent(c)
  <2>1. ClientTyped' /\ WireTyped'
    BY <1>0, <1>3, <1>b DEF CallUnsent, ClientTyped, WireTyped, wire, history
  <2>2. \A d \in Client : calls[d] \in Nat /\ calls[d] <= calls'[d] /\ calls'[d] \in Nat
    BY <1>0, <1>3, <1>b DEF CallUnsent, ClientTyped
  <2>3. \A k \in Connection :
           /\ k[1] \in Client
           /\ reply[k] # NoFrame => reply[k].id \in Nat /\ reply[k].id <= calls[k[1]]
           /\ request[k] # NoFrame => request[k].id \in Nat /\ request[k].id <= calls[k[1]]
    BY <1>0, ConnectionPair DEF WireTyped, Numbered, Frame
  <2>4. Numbered'
    BY <1>3, <2>2, <2>3 DEF Numbered, CallUnsent, wire
  <2> QED
    BY <1>3, <1>a, <2>1, <2>4 DEF Typed, CallUnsent
<1>4. CASE Return(c) \/ Fail(c) \/ Die(c)
  <2>1. /\ reply' = [reply EXCEPT ![Current(c)] = NoFrame]
        /\ UNCHANGED <<server, socket, request, attempt, calls, executed, damaged>>
    BY <1>4 DEF Return, Fail, Die, history
  <2>2. client' \in [Client -> {"away", "connected", "calling"}]
        /\ client[c] # "away" /\ \A d \in Client \ {c} : client'[d] = client[d]
    BY <1>0, <1>4 DEF Return, Fail, Die, AfterReply, ClientTyped
  <2>3. ClientTyped'
    BY <1>0, <2>1, <2>2 DEF ClientTyped
  <2>4. answered' \subseteq CallOf
    <3>1. CASE Return(c)
      <4>0. client[c] # "away" /\ reply[Current(c)] # NoFrame /\ reply[Current(c)].id = calls[c]
        BY <3>1 DEF Return
      <4>1. Current(c) \in Connection
        BY <1>0, <4>0, CurrentIsConnection
      <4>2. calls[c] # 0
        BY <1>0, <4>0, <4>1 DEF WireTyped, Frame
      <4>3. calls[c] \in 1..Budget[c]
        BY <1>0, <1>b, <4>2 DEF ClientTyped
      <4>4. LastCall(c) \in CallOf
        BY <4>3, ConnectionPair DEF LastCall
      <4> QED
        BY <1>0, <3>1, <4>4 DEF Return, WireTyped
    <3>2. CASE Fail(c) \/ Die(c)
      BY <1>0, <3>2 DEF Fail, Die, history, WireTyped
    <3> QED
      BY <1>4, <3>1, <3>2
  <2>5. WireTyped'
    BY <1>0, <2>1, <2>4 DEF WireTyped
  <2>6. Numbered'
    <3>1. ASSUME NEW k \in Connection
          PROVE  reply'[k] = reply[k] \/ reply'[k] = NoFrame
      BY <1>0, <2>1 DEF WireTyped
    <3> QED
      BY <1>0, <2>1, <3>1 DEF Numbered
  <2> QED
    BY <1>a, <2>1, <2>3, <2>5, <2>6 DEF Typed
<1>5. CASE Leave(c)
  <2>1. ClientTyped' /\ WireTyped'
    BY <1>0, <1>5 DEF Leave, ClientTyped, WireTyped, wire, history
  <2>2. Numbered'
    BY <1>0, <1>5, NumbersUndisturbed DEF Leave, wire
  <2> QED
    BY <1>5, <1>a, <2>1, <2>2 DEF Typed, Leave
<1> QED
  BY <1>1, <1>2, <1>3, <1>4, <1>5 DEF ClientProcess

-----------------------------------------------------------------------------
(* Every connection is in one place                                        *)

\* The queue and the hands of the workers, against the state of the sockets. A
\* connection that has not been made is not in use.
Places ==
  /\ \A v, w \in Worker : v # w /\ serving[v] = serving[w] => serving[v] = NoConnection
  /\ \A k \in Connection : socket[k] = "held" <=> \E w \in Worker : serving[w] = k
  /\ \A m, n \in 1..Len(queue) : queue[m] = queue[n] => m = n
  /\ \A k \in Connection : socket[k] = "queued" <=> \E n \in 1..Len(queue) : queue[n] = k
  /\ \A k \in Connection : k[2] > attempt[k[1]] => socket[k] = "unused"

\* What Places says of a connection, in the words of the type invariant.
LEMMA PlacesImplyOne ==
  ASSUME Typed, Places, NEW k \in Connection
  PROVE  OnePlace(k)
<1> DEFINE queued == {n \in 1..Len(queue) : queue[n] = k}
           held == {w \in Worker : serving[w] = k}
<1>1. Cardinality(queued) = (IF socket[k] = "queued" THEN 1 ELSE 0)
  <2>1. CASE socket[k] = "queued"
    <3>1. PICK n \in 1..Len(queue) : queue[n] = k
      BY <2>1 DEF Places
    <3>2. queued = {n}
      BY <3>1 DEF Places
    <3> QED
      BY <2>1, <3>2, FS_Singleton
  <2>2. CASE socket[k] # "queued"
    <3>1. queued = {}
      BY <2>2 DEF Places
    <3> QED
      BY <2>2, <3>1, FS_EmptySet
  <2> QED
    BY <2>1, <2>2
<1>2. Cardinality(held) = (IF socket[k] = "held" THEN 1 ELSE 0)
  <2>1. CASE socket[k] = "held"
    <3>1. PICK w \in Worker : serving[w] = k
      BY <2>1 DEF Places
    <3>2. held = {w}
      BY <3>1, ConnectionPair DEF Places
    <3> QED
      BY <2>1, <3>2, FS_Singleton
  <2>2. CASE socket[k] # "held"
    <3>1. held = {}
      BY <2>2 DEF Places
    <3> QED
      BY <2>2, <3>1, FS_EmptySet
  <2> QED
    BY <2>1, <2>2
<1> QED
  BY <1>1, <1>2 DEF OnePlace

\* The shape of the state as the type invariant has it.
LEMMA TypedImpliesTypeOK ==
  ASSUME Typed, Places
  PROVE  TypeOK
<1>1. /\ ServerTyped /\ ClientTyped /\ WireTyped
  BY DEF Typed
<1>2. \A c \in Client : attempt[c] \in 0..Attempts[c] /\ calls[c] \in 0..Budget[c]
  BY <1>1, TransportAssumption DEF ClientTyped
<1>3. \A k \in Connection : OnePlace(k)
  BY PlacesImplyOne
<1> QED
  BY <1>1, <1>2, <1>3
     DEF TypeOK, ServerTyped, ClientTyped, WireTyped, Stage, Place, End

\* There is no connection at first.
LEMMA PlacesInit == Init => Places
<1> SUFFICES ASSUME Init PROVE Places
  OBVIOUS
<1>1. Len(queue) = 0
  BY DEF Init
<1>2. \A w \in Worker, k \in Connection : serving[w] # k
  BY ConnectionPair DEF Init
<1> QED
  BY <1>1, <1>2 DEF Init, Places

\* Steps that move no connection.
LEMMA PlacesUndisturbed ==
  ASSUME Places, UNCHANGED <<serving, queue, socket, attempt>>
  PROVE  Places'
BY DEF Places

\* A connection leaves the hands of its worker.
LEMMA PlacesDrop ==
  ASSUME Typed, Places, NEW w \in Worker, worker[w] \in Busy,
         NEW places, Drop(w, places)
  PROVE  Places'
<1>1. /\ serving \in [Worker -> Connection \cup {NoConnection}] /\ serving[w] \in Connection
      /\ socket \in [Connection -> End] /\ NoConnection \notin Connection
  BY ConnectionPair DEF Typed, ServerTyped, WireTyped, Occupied
<1>2. /\ socket'[serving[w]] = "closed" /\ socket[serving[w]] = "held"
      /\ \A k \in Connection \ {serving[w]} : socket'[k] = socket[k]
  BY <1>1 DEF Drop, Places
<1>3. /\ serving'[w] = NoConnection
      /\ \A v \in Worker \ {w} : serving'[v] = serving[v]
  BY <1>1 DEF Drop
<1>4. UNCHANGED <<queue, attempt>>
  BY DEF Drop, clients
<1>5. ASSUME NEW k \in Connection
      PROVE  socket'[k] = "held" <=> \E v \in Worker : serving'[v] = k
  <2>1. CASE k = serving[w]
    BY <1>1, <1>2, <1>3, <2>1 DEF Places
  <2>2. CASE k # serving[w]
    BY <1>1, <1>2, <1>3, <2>2 DEF Places
  <2> QED
    BY <2>1, <2>2
<1>6. \A u, v \in Worker : u # v /\ serving'[u] = serving'[v] => serving'[u] = NoConnection
  BY <1>1, <1>3 DEF Places
<1>7. \A k \in Connection : socket'[k] = "queued" <=> \E n \in 1..Len(queue) : queue[n] = k
  BY <1>1, <1>2 DEF Places
<1>8. \A k \in Connection : k[2] > attempt[k[1]] => socket'[k] = "unused"
  BY <1>1, <1>2 DEF Places
<1> QED
  BY <1>4, <1>5, <1>6, <1>7, <1>8 DEF Places

\* A connection is taken from the head of the queue.
LEMMA PlacesTake ==
  ASSUME Typed, Places, NEW w \in Worker, Take(w)
  PROVE  Places'
<1>0. /\ queue \in Seq(Connection) /\ queue # <<>>
      /\ serving \in [Worker -> Connection \cup {NoConnection}]
      /\ socket \in [Connection -> End] /\ NoConnection \notin Connection
  BY ConnectionPair DEF Typed, ServerTyped, WireTyped, Take
<1>1. /\ Len(queue) \in Nat /\ Len(queue) >= 1
      /\ Head(queue) = queue[1] /\ Head(queue) \in Connection
      /\ Len(Tail(queue)) = Len(queue) - 1
      /\ \A n \in 1..(Len(queue) - 1) : Tail(queue)[n] = queue[n + 1]
  BY <1>0
<1>2. queue' = Tail(queue) /\ UNCHANGED attempt
  BY DEF Take, TakenFromQueue, clients
<1>3. /\ socket'[queue[1]] = "held" /\ socket[queue[1]] = "queued"
      /\ \A k \in Connection \ {queue[1]} : socket'[k] = socket[k]
  BY <1>0, <1>1 DEF Take, Places
<1>4. /\ serving'[w] = queue[1] /\ serving[w] \notin Connection
      /\ \A v \in Worker \ {w} : serving'[v] = serving[v] /\ serving[v] # queue[1]
  <2>1. serving[w] \notin Connection
    BY DEF Take, Typed, Occupied, Busy
  <2>2. \A v \in Worker : serving[v] # queue[1]
    BY <1>1, <1>3 DEF Places
  <2> QED
    BY <1>0, <1>1, <2>1, <2>2 DEF Take
<1>5. \A u, v \in Worker : u # v /\ serving'[u] = serving'[v] => serving'[u] = NoConnection
  BY <1>0, <1>1, <1>4 DEF Places
<1>6. ASSUME NEW k \in Connection
      PROVE  socket'[k] = "held" <=> \E v \in Worker : serving'[v] = k
  <2>1. CASE k = queue[1]
    BY <1>3, <1>4, <2>1
  <2>2. CASE k # queue[1]
    <3>1. socket'[k] = socket[k]
      BY <1>3, <2>2
    <3>2. (\E v \in Worker : serving'[v] = k) <=> \E v \in Worker : serving[v] = k
      BY <1>4, <2>2
    <3> QED
      BY <3>1, <3>2 DEF Places
  <2> QED
    BY <2>1, <2>2
<1>7. \A m, n \in 1..Len(queue') : queue'[m] = queue'[n] => m = n
  BY <1>1, <1>2 DEF Places
<1>8. ASSUME NEW k \in Connection
      PROVE  socket'[k] = "queued" <=> \E n \in 1..Len(queue') : queue'[n] = k
  <2>1. CASE k = queue[1]
    <3>1. \A n \in 1..(Len(queue) - 1) : queue[n + 1] # queue[1]
      BY <1>1 DEF Places
    <3> QED
      BY <1>1, <1>2, <1>3, <2>1, <3>1
  <2>2. CASE k # queue[1]
    <3>1. socket'[k] = socket[k]
      BY <1>3, <2>2
    <3>2. ASSUME NEW n \in 1..Len(queue), queue[n] = k
          PROVE  \E m \in 1..Len(queue') : queue'[m] = k
      <4>1. n # 1 /\ n - 1 \in 1..(Len(queue) - 1) /\ (n - 1) + 1 = n
        BY <1>1, <2>2, <3>2
      <4>2. queue'[n - 1] = queue[n] /\ n - 1 \in 1..Len(queue')
        BY <1>1, <1>2, <4>1
      <4> QED
        BY <3>2, <4>2
    <3>3. ASSUME NEW m \in 1..Len(queue'), queue'[m] = k
          PROVE  \E n \in 1..Len(queue) : queue[n] = k
      BY <1>1, <1>2, <3>3
    <3>4. socket[k] = "queued" <=> \E n \in 1..Len(queue) : queue[n] = k
      BY DEF Places
    <3> QED
      BY <3>1, <3>2, <3>3, <3>4
  <2> QED
    BY <2>1, <2>2
<1>9. \A k \in Connection : k[2] > attempt'[k[1]] => socket'[k] = "unused"
  BY <1>0, <1>1, <1>2, <1>3 DEF Places
<1> QED
  BY <1>5, <1>6, <1>7, <1>8, <1>9 DEF Places

\* A connection is put into the queue, or closed when that is full.
LEMMA PlacesAccept ==
  ASSUME Typed, Places, NEW k \in Connection, Accept(k)
  PROVE  Places'
<1>0. /\ queue \in Seq(Connection) /\ socket \in [Connection -> End] /\ socket[k] = "backlog"
      /\ UNCHANGED <<serving, attempt>>
  BY DEF Typed, ServerTyped, WireTyped, Accept, clients
<1>1. CASE RoomInQueue
  <2>1. queue' = Append(queue, k) /\ socket' = [socket EXCEPT ![k] = "queued"]
    BY <1>1 DEF Accept
  <2>2. /\ Len(queue) \in Nat /\ Len(queue') = Len(queue) + 1
        /\ \A n \in 1..Len(queue) : queue'[n] = queue[n]
        /\ queue'[Len(queue) + 1] = k
    BY <1>0, <2>1, LongerQueue
  <2>3. /\ socket'[k] = "queued" /\ \A j \in Connection \ {k} : socket'[j] = socket[j]
        /\ \A n \in 1..Len(queue) : queue[n] # k
        /\ \A w \in Worker : serving[w] # k
    BY <1>0, <2>1 DEF Places
  <2>4. \A m, n \in 1..Len(queue') : queue'[m] = queue'[n] => m = n
    <3>1. ASSUME NEW m \in 1..Len(queue'), NEW n \in 1..Len(queue'), queue'[m] = queue'[n]
          PROVE  m = n
      <4>1. m \in 1..Len(queue) \/ m = Len(queue) + 1
        BY <2>2
      <4>2. n \in 1..Len(queue) \/ n = Len(queue) + 1
        BY <2>2
      <4> QED
        BY <2>2, <2>3, <3>1, <4>1, <4>2 DEF Places
    <3> QED
      BY <3>1
  <2>5. ASSUME NEW j \in Connection
        PROVE  socket'[j] = "queued" <=> \E n \in 1..Len(queue') : queue'[n] = j
    <3>1. CASE j = k
      BY <2>2, <2>3, <3>1
    <3>2. CASE j # k
      <4>1. (\E n \in 1..Len(queue') : queue'[n] = j) <=> \E n \in 1..Len(queue) : queue[n] = j
        BY <2>2, <3>2
      <4> QED
        BY <2>3, <3>2, <4>1 DEF Places
    <3> QED
      BY <3>1, <3>2
  <2>6. \A j \in Connection : socket'[j] = "held" <=> \E w \in Worker : serving'[w] = j
    BY <1>0, <2>3 DEF Places
  <2>7. \A j \in Connection : j[2] > attempt'[j[1]] => socket'[j] = "unused"
    BY <1>0, <2>3 DEF Places
  <2>8. \A v, w \in Worker : v # w /\ serving'[v] = serving'[w] => serving'[v] = NoConnection
    BY <1>0 DEF Places
  <2> QED
    BY <2>4, <2>5, <2>6, <2>7, <2>8 DEF Places
<1>2. CASE ~RoomInQueue
  <2>1. queue' = queue /\ socket' = [socket EXCEPT ![k] = "closed"]
    BY <1>2 DEF Accept
  <2>2. /\ socket'[k] = "closed" /\ \A j \in Connection \ {k} : socket'[j] = socket[j]
        /\ \A n \in 1..Len(queue) : queue[n] # k
        /\ \A w \in Worker : serving[w] # k
    BY <1>0, <2>1 DEF Places
  <2> QED
    BY <1>0, <2>1, <2>2 DEF Places
<1> QED
  BY <1>1, <1>2

\* The destructor closes what is in the queue, the listener what it had not
\* handed over.
LEMMA PlacesClose ==
  ASSUME Typed, Places, JoinAndReturn \/ Destroy
  PROVE  Places'
<1>0. socket \in [Connection -> End] /\ UNCHANGED <<serving, attempt>>
  BY DEF Typed, WireTyped, JoinAndReturn, Destroy, clients
<1>1. CASE JoinAndReturn
  <2>1. \A k \in Connection : socket'[k] = IF socket[k] = "backlog" THEN "closed" ELSE socket[k]
    BY <1>1 DEF JoinAndReturn, Pending
  <2>2. queue' = queue
    BY <1>1 DEF JoinAndReturn
  <2> QED
    BY <1>0, <2>1, <2>2 DEF Places
<1>2. CASE Destroy
  <2>1. \A k \in Connection : socket'[k] = IF socket[k] = "queued" THEN "closed" ELSE socket[k]
    BY <1>2 DEF Destroy
  <2>2. Len(queue') = 0
    BY <1>2 DEF Destroy
  <2> QED
    BY <1>0, <2>1, <2>2 DEF Places
<1> QED
  BY <1>1, <1>2

\* A client connects anew.
LEMMA PlacesConnect ==
  ASSUME Typed, Places, NEW c \in Client, Connect(c)
  PROVE  Places'
<1> DEFINE k == <<c, attempt[c] + 1>>
<1>0. /\ socket \in [Connection -> End] /\ attempt \in [Client -> Nat]
      /\ UNCHANGED <<serving, queue>>
  BY DEF Typed, WireTyped, ClientTyped, Connect, server
<1>1. k \in Connection /\ k[1] = c /\ k[2] = attempt[c] + 1
  <2>1. attempt[c] + 1 \in 1..Attempts[c]
    BY <1>0, TransportAssumption DEF Connect
  <2> QED
    BY <2>1, ConnectionPair
<1>2. socket[k] = "unused" /\ socket' = [socket EXCEPT ![k] = "backlog"]
      /\ attempt'[c] = attempt[c] + 1
      /\ \A d \in Client \ {c} : attempt'[d] = attempt[d]
  BY <1>0, <1>1 DEF Places, Connect
<1> HIDE DEF k
<1>3. /\ socket'[k] = "backlog" /\ \A j \in Connection \ {k} : socket'[j] = socket[j]
      /\ \A n \in 1..Len(queue) : queue[n] # k
      /\ \A w \in Worker : serving[w] # k
  BY <1>0, <1>1, <1>2 DEF Places
<1>4. ASSUME NEW j \in Connection, j[2] > attempt'[j[1]]
      PROVE  socket'[j] = "unused"
  <2>1. j # k
    BY <1>0, <1>1, <1>2, <1>4
  <2>2. j[1] \in Client /\ j[2] \in Nat
    BY ConnectionPair, TransportAssumption
  <2>3. j[2] > attempt[j[1]]
    BY <1>0, <1>2, <1>4, <2>2
  <2> QED
    BY <1>3, <2>1, <2>3 DEF Places
<1> QED
  BY <1>0, <1>3, <1>4 DEF Places

\* Every step leaves each connection in one place.
LEMMA PlacesNext ==
  ASSUME Typed, Places, [Next]_vars
  PROVE  Places'
<1>1. CASE ServeThread
  <2>1. CASE LookAround \/ PollTimedOut \/ NotifyAccepted \/ NotifyLeaving
    BY <2>1, PlacesUndisturbed
       DEF LookAround, PollTimedOut, NotifyAccepted, NotifyLeaving, wire, clients
  <2> QED
    BY <1>1, <2>1, PlacesAccept, PlacesClose DEF ServeThread
<1>2. CASE StopFlag \/ StopNotify
  BY <1>2, PlacesUndisturbed DEF StopFlag, StopNotify, wire, clients
<1>3. ASSUME NEW w \in Worker, WorkerThread(w)
      PROVE  Places'
  <2>1. CASE Take(w)
    BY <2>1, PlacesTake
  <2>2. CASE Exit(w) \/ Decide(w) \/ Sleep(w) \/ Serve(w) \/ WorkerStopFlag(w)
    BY <2>2, PlacesUndisturbed
       DEF Exit, Decide, Sleep, Serve, WorkerStopFlag, wire, clients
  <2>3. CASE CheckStop(w)
    BY <2>3, PlacesUndisturbed, PlacesDrop DEF CheckStop, clients, Busy
  <2>4. CASE HangUp(w) \/ ServeUnanswered(w)
    BY <2>4, PlacesDrop DEF HangUp, ServeUnanswered, Executing, Arrived, Busy
  <2>5. CASE WorkerStopNotify(w)
    BY <2>5, PlacesDrop DEF WorkerStopNotify, Busy
  <2> QED
    BY <1>3, <2>1, <2>2, <2>3, <2>4, <2>5 DEF WorkerThread
<1>4. ASSUME NEW c \in Client, ClientProcess(c)
      PROVE  Places'
  <2>1. CASE Connect(c)
    BY <2>1, PlacesConnect
  <2>2. ASSUME NEW op \in Calls[c], Call(c, op)
        PROVE  Places'
    BY <2>2, PlacesUndisturbed DEF Call, server
  <2>3. CASE CallUnsent(c) \/ Return(c) \/ Fail(c) \/ Leave(c) \/ Die(c)
    BY <2>3, PlacesUndisturbed DEF CallUnsent, Return, Fail, Leave, Die, server, wire
  <2> QED
    BY <1>4, <2>1, <2>2, <2>3 DEF ClientProcess
<1>5. CASE UNCHANGED vars
  BY <1>5, PlacesUndisturbed DEF vars, server, wire, clients
<1> QED
  BY <1>1, <1>2, <1>3, <1>4, <1>5 DEF Next

\* Every step keeps the types.
LEMMA TypedNext ==
  ASSUME Typed, [Next]_vars
  PROVE  Typed'
<1>1. CASE UNCHANGED vars
  <2>1. ServerTyped' /\ ClientTyped' /\ WireTyped' /\ Occupied' /\ Numbered'
    BY <1>1 DEF vars, server, wire, clients, history, Typed, ServerTyped, ClientTyped,
                WireTyped, Occupied, Numbered
  <2> QED
    BY <2>1 DEF Typed
<1> QED
  BY <1>1, TypedServe, TypedWorker, TypedClient DEF Next

\* The state keeps its shape, and every connection the server has taken is once
\* in the queue, with one worker, or closed.
THEOREM TransportTypes == Spec => []TypeOK
<1>1. Init => Typed /\ Places
  BY TypedInit, PlacesInit
<1>2. Typed /\ Places /\ [Next]_vars => Typed' /\ Places'
  BY TypedNext, PlacesNext
<1>3. Typed /\ Places => TypeOK
  BY TypedImpliesTypeOK
<1> QED
  BY <1>1, <1>2, <1>3, PTL DEF Spec

-----------------------------------------------------------------------------
(* A call is executed at most once                                         *)

Damaging == {"garbage", "unreadable"}

\* The call a frame on a connection belongs to.
Of(k, frame) == <<k[1], frame.id>>

\* A frame on its way belongs to a call that was not executed, and to no other
\* frame on its way; whether it is damaged was noted when it was sent.
Outstanding ==
  \A k \in Connection : request[k] # NoFrame =>
    /\ executed[Of(k, request[k])] = 0
    /\ request[k].op \in Damaging <=> Of(k, request[k]) \in damaged
    /\ \A j \in Connection :
         j # k /\ request[j] # NoFrame => Of(j, request[j]) # Of(k, request[k])

\* A call that has a reply was executed, unless it was damaged.
Replied ==
  \A k \in Connection : reply[k] # NoFrame =>
    executed[Of(k, reply[k])] = 1 \/ Of(k, reply[k]) \in damaged

\* A call that has not been made has left no trace.
Unmade ==
  \A c \in Client, n \in Nat : n > calls[c] /\ <<c, n>> \in CallOf =>
    executed[<<c, n>>] = 0 /\ <<c, n>> \notin damaged

Errands == Outstanding /\ Replied /\ Unmade /\ ExecutedOnce

\* There is no call at first.
LEMMA ErrandsInit == Init => Errands
BY DEF Init, Errands, Outstanding, Replied, Unmade, ExecutedOnce

\* Frames are known for what they are.
LEMMA Frames ==
  ASSUME Typed, NEW k \in Connection
  PROVE  /\ request[k] # NoFrame => /\ request[k] \in Frame /\ request[k].id \in Nat \ {0}
                                    /\ request[k].id <= calls[k[1]]
                                    /\ Of(k, request[k]) \in CallOf
         /\ reply[k] # NoFrame => /\ reply[k] \in Frame /\ reply[k].id \in Nat \ {0}
                                  /\ reply[k].id <= calls[k[1]]
                                  /\ Of(k, reply[k]) \in CallOf
         /\ k[1] \in Client /\ calls[k[1]] \in Nat
<1>1. /\ k[1] \in Client /\ calls[k[1]] \in Nat /\ Budget[k[1]] \in Nat
      /\ calls[k[1]] <= Budget[k[1]]
  BY ConnectionPair, TransportAssumption DEF Typed, ClientTyped
<1>2. ASSUME NEW frame \in Frame, frame.id <= calls[k[1]]
      PROVE  frame.id \in Nat \ {0} /\ Of(k, frame) \in CallOf
  <2>1. frame.id \in 1..Budget[k[1]]
    BY <1>1, <1>2 DEF Frame
  <2> QED
    BY <1>1, <2>1, ConnectionPair DEF Of
<1>3. /\ request[k] # NoFrame => request[k] \in Frame /\ request[k].id <= calls[k[1]]
      /\ reply[k] # NoFrame => reply[k] \in Frame /\ reply[k].id <= calls[k[1]]
  BY DEF Typed, WireTyped, Numbered
<1> QED
  BY <1>1, <1>2, <1>3

\* Steps that send nothing and execute nothing, though they may take a reply.
LEMMA ErrandsUndisturbed ==
  ASSUME Typed, Errands, UNCHANGED <<request, history>>,
         \A c \in Client : calls'[c] \in Nat /\ calls[c] <= calls'[c],
         \A k \in Connection : reply'[k] = reply[k] \/ reply'[k] = NoFrame
  PROVE  Errands'
<1>0. calls \in [Client -> Nat]
  BY DEF Typed, ClientTyped
<1>1. Outstanding'
  BY DEF Errands, Outstanding, history, Of
<1>2. Replied'
  BY DEF Errands, Replied, history, Of
<1>3. Unmade'
  BY <1>0 DEF Errands, Unmade, history
<1>4. ExecutedOnce'
  BY DEF Errands, ExecutedOnce, history
<1> QED
  BY <1>1, <1>2, <1>3, <1>4 DEF Errands

\* A worker executes the frame it has read. It may answer it.
LEMMA ErrandsExecuting ==
  ASSUME Typed, Errands, NEW w \in Worker, Executing(w), UNCHANGED calls,
         \/ reply' = reply
         \/ reply' = [reply EXCEPT ![serving[w]] = request[serving[w]]]
  PROVE  Errands'
<1> DEFINE k == serving[w]
           call == Of(k, request[k])
<1>1. /\ k \in Connection /\ request[k] # NoFrame /\ request[k].op # "garbage"
  BY ServedIsConnection DEF Executing, Arrived, Accepted, Typed, Busy
<1>2. /\ request[k] \in Frame /\ call \in CallOf /\ request[k].id <= calls[k[1]]
      /\ executed[call] = 0
      /\ request[k].op \in Damaging <=> call \in damaged
  BY <1>1, Frames DEF Errands, Outstanding
<1>3. /\ executed \in [CallOf -> Nat]
      /\ request \in [Connection -> Frame \cup {NoFrame}]
      /\ reply \in [Connection -> Frame \cup {NoFrame}]
      /\ UNCHANGED <<answered, damaged>>
  BY DEF Typed, WireTyped, Executing
<1>4. /\ request'[k] = NoFrame
      /\ \A j \in Connection \ {k} : request'[j] = request[j]
  BY <1>1, <1>3 DEF Executing, Consumed
<1>5. /\ executed'[call] = (IF call \in damaged THEN 0 ELSE 1)
      /\ \A other \in CallOf \ {call} : executed'[other] = executed[other]
  <2>0. executed' = Dispatched(call, request[k])
    BY DEF Executing, Of
  <2>1. CASE request[k].op = "unreadable"
    <3>1. executed' = executed /\ call \in damaged
      BY <1>2, <2>0, <2>1 DEF Dispatched, Readable, Damaging
    <3> QED
      BY <1>2, <3>1
  <2>2. CASE request[k].op # "unreadable"
    <3>1. executed' = [executed EXCEPT ![call] = executed[call] + 1] /\ call \notin damaged
      BY <1>1, <1>2, <2>0, <2>2 DEF Dispatched, Readable, Damaging
    <3> QED
      BY <1>2, <1>3, <3>1
  <2> QED
    BY <2>1, <2>2
<1>6. \A j \in Connection : request[j] # NoFrame => Of(j, request[j]) \in CallOf
  BY Frames
<1>7. \A j \in Connection : reply[j] # NoFrame => Of(j, reply[j]) \in CallOf
  BY Frames
<1>8. \A j \in Connection : reply'[j] = reply[j] \/ (j = k /\ reply'[j] = request[k])
  BY <1>1, <1>3
<1> HIDE DEF call
<1>9. Outstanding'
  <2>1. ASSUME NEW j \in Connection, request'[j] # NoFrame
        PROVE  /\ j # k /\ request'[j] = request[j] /\ Of(j, request[j]) # call
               /\ executed'[Of(j, request[j])] = executed[Of(j, request[j])]
    <3>1. j # k /\ request'[j] = request[j]
      BY <1>4, <2>1
    <3>2. Of(j, request[j]) # call
      BY <1>1, <2>1, <3>1 DEF Errands, Outstanding, call
    <3> QED
      BY <1>5, <1>6, <2>1, <3>1, <3>2
  <2>2. ASSUME NEW j \in Connection, request'[j] # NoFrame
        PROVE  /\ executed'[Of(j, request'[j])] = 0
               /\ request'[j].op \in Damaging <=> Of(j, request'[j]) \in damaged'
               /\ \A i \in Connection :
                    i # j /\ request'[i] # NoFrame => Of(i, request'[i]) # Of(j, request'[j])
    <3>1. /\ request[j] # NoFrame /\ request'[j] = request[j]
          /\ executed'[Of(j, request[j])] = executed[Of(j, request[j])]
      BY <2>1, <2>2
    <3>2. \A i \in Connection : request'[i] # NoFrame => request[i] # NoFrame /\ request'[i] = request[i]
      BY <2>1
    <3> QED
      BY <1>3, <3>1, <3>2 DEF Errands, Outstanding
  <2> QED
    BY <2>2 DEF Outstanding, Of
<1>10. Replied'
  <2>1. ASSUME NEW j \in Connection, reply'[j] # NoFrame
        PROVE  executed'[Of(j, reply'[j])] = 1 \/ Of(j, reply'[j]) \in damaged
    <3>1. CASE j = k /\ reply'[j] = request[k]
      BY <1>5, <3>1 DEF call
    <3>2. CASE reply'[j] = reply[j]
      BY <1>5, <1>7, <2>1, <3>2 DEF Errands, Replied
    <3> QED
      BY <1>8, <3>1, <3>2
  <2> QED
    BY <1>3, <2>1 DEF Replied, Of
<1>11. Unmade'
  <2>1. ASSUME NEW c \in Client, NEW n \in Nat, n > calls[c]
        PROVE  <<c, n>> # call
    <3>1. request[k].id \in Nat /\ calls[k[1]] \in Nat /\ request[k].id <= calls[k[1]]
      BY <1>1, Frames
    <3>2. <<c, n>> = <<k[1], request[k].id>> => c = k[1] /\ n = request[k].id
      OBVIOUS
    <3> QED
      BY <2>1, <3>1, <3>2 DEF Of, call
  <2> QED
    BY <1>3, <1>5, <2>1 DEF Errands, Unmade
<1>12. ExecutedOnce'
  <2>1. \A other \in CallOf : other = call \/ executed'[other] = executed[other]
    BY <1>5
  <2> QED
    BY <1>2, <1>3, <1>5, <2>1 DEF Errands, ExecutedOnce, Typed, WireTyped
<1> QED
  BY <1>9, <1>10, <1>11, <1>12 DEF Errands

\* A client makes a call that nobody has made.
LEMMA ErrandsCall ==
  ASSUME Typed, Errands, NEW c \in Client, NEW op \in Calls[c], Call(c, op)
  PROVE  Errands'
<1> DEFINE k == Current(c)
           call == <<c, calls[c] + 1>>
           frame == [id |-> calls[c] + 1, op |-> op]
<1>1. /\ calls \in [Client -> Nat] /\ calls[c] \in Nat /\ Budget[c] \in Nat
      /\ executed \in [CallOf -> Nat] /\ damaged \subseteq CallOf
      /\ request \in [Connection -> Frame \cup {NoFrame}]
  BY TransportAssumption DEF Typed, ClientTyped, WireTyped
<1>2. k \in Connection /\ k[1] = c
  BY CurrentIsConnection DEF Typed, Call
<1>3. call \in CallOf /\ executed[call] = 0 /\ call \notin damaged
  <2>1. calls[c] + 1 \in 1..Budget[c]
    BY <1>1 DEF Call
  <2>2. call \in CallOf
    BY <2>1, ConnectionPair
  <2>3. calls[c] + 1 \in Nat /\ calls[c] + 1 > calls[c]
    BY <1>1
  <2> QED
    BY <2>2, <2>3 DEF Errands, Unmade
<1>4. /\ request'[k] = frame /\ frame.id = calls[c] + 1 /\ frame.op = op
      /\ frame # NoFrame /\ Of(k, frame) = call
      /\ \A j \in Connection \ {k} : request'[j] = request[j]
  BY <1>1, <1>2 DEF Call, Sent, NoFrame, Of
<1>5. /\ UNCHANGED <<reply, executed, answered>>
      /\ damaged' = IF op \in Damaging THEN damaged \cup {call} ELSE damaged
  BY DEF Call, Damaging
<1>6. /\ calls'[c] = calls[c] + 1 /\ \A d \in Client \ {c} : calls'[d] = calls[d]
  BY <1>1 DEF Call
<1>7. ASSUME NEW j \in Connection
      PROVE  /\ request[j] # NoFrame => Of(j, request[j]) # call /\ Of(j, request[j]) \in CallOf
             /\ reply[j] # NoFrame => Of(j, reply[j]) # call /\ Of(j, reply[j]) \in CallOf
  <2>1. /\ request[j] # NoFrame => /\ request[j].id \in Nat /\ request[j].id <= calls[j[1]]
                                   /\ Of(j, request[j]) \in CallOf
        /\ reply[j] # NoFrame => /\ reply[j].id \in Nat /\ reply[j].id <= calls[j[1]]
                                 /\ Of(j, reply[j]) \in CallOf
        /\ calls[j[1]] \in Nat
    BY Frames
  <2>2. ASSUME NEW n \in Nat, n <= calls[j[1]]
        PROVE  <<j[1], n>> # call
    <3>1. <<j[1], n>> = <<c, calls[c] + 1>> => j[1] = c /\ n = calls[c] + 1
      OBVIOUS
    <3> QED
      BY <1>1, <2>1, <2>2, <3>1
  <2> QED
    BY <2>1, <2>2 DEF Of
<1> HIDE DEF call, frame, k
<1>8. Outstanding'
  <2>1. ASSUME NEW j \in Connection, request'[j] # NoFrame
        PROVE  /\ executed[Of(j, request'[j])] = 0
               /\ request'[j].op \in Damaging <=> Of(j, request'[j]) \in damaged'
               /\ \A i \in Connection :
                    i # j /\ request'[i] # NoFrame => Of(i, request'[i]) # Of(j, request'[j])
    <3>1. CASE j = k
      BY <1>3, <1>4, <1>5, <1>7, <3>1
    <3>2. CASE j # k
      <4>1. request'[j] = request[j] /\ request[j] # NoFrame
        BY <1>4, <2>1, <3>2
      <4>2. executed[Of(j, request[j])] = 0 /\ Of(j, request[j]) # call
        BY <1>7, <4>1 DEF Errands, Outstanding
      <4>3. request[j].op \in Damaging <=> Of(j, request[j]) \in damaged'
        BY <1>5, <4>1, <4>2 DEF Errands, Outstanding
      <4>4. \A i \in Connection :
              i # j /\ request'[i] # NoFrame => Of(i, request'[i]) # Of(j, request[j])
        BY <1>4, <4>1, <4>2 DEF Errands, Outstanding
      <4> QED
        BY <4>1, <4>2, <4>3, <4>4
    <3> QED
      BY <3>1, <3>2
  <2> QED
    BY <1>5, <2>1 DEF Outstanding, Of
<1>9. Replied'
  BY <1>5, <1>7 DEF Errands, Replied, Of
<1>10. Unmade'
  <2>1. ASSUME NEW d \in Client, NEW n \in Nat, n > calls'[d]
        PROVE  <<d, n>> # call /\ n > calls[d]
    <3>1. <<d, n>> = <<c, calls[c] + 1>> => d = c /\ n = calls[c] + 1
      OBVIOUS
    <3> QED
      BY <1>1, <1>6, <2>1, <3>1 DEF call
  <2> QED
    BY <1>5, <2>1 DEF Errands, Unmade
<1>11. ExecutedOnce'
  BY <1>3, <1>5 DEF Errands, ExecutedOnce
<1> QED
  BY <1>8, <1>9, <1>10, <1>11 DEF Errands

\* A client takes the answer to its last call.
LEMMA ErrandsReturn ==
  ASSUME Typed, Errands, NEW c \in Client, Return(c)
  PROVE  Errands'
<1>1. /\ Current(c) \in Connection /\ Current(c)[1] = c
      /\ reply \in [Connection -> Frame \cup {NoFrame}]
  BY CurrentIsConnection DEF Typed, WireTyped, Return
<1>2. /\ UNCHANGED <<request, calls, executed, damaged>>
      /\ answered' = answered \cup {LastCall(c)}
      /\ \A k \in Connection : reply'[k] = reply[k] \/ reply'[k] = NoFrame
  BY <1>1 DEF Return
<1>3. executed[LastCall(c)] = 1 \/ LastCall(c) \in damaged
  <2>1. reply[Current(c)] # NoFrame /\ Of(Current(c), reply[Current(c)]) = LastCall(c)
    BY <1>1 DEF Return, Of, LastCall
  <2> QED
    BY <1>1, <2>1 DEF Errands, Replied
<1>4. Outstanding'
  BY <1>2 DEF Errands, Outstanding, Of
<1>5. Replied'
  BY <1>2 DEF Errands, Replied, Of
<1>6. Unmade'
  BY <1>2 DEF Errands, Unmade
<1>7. ExecutedOnce'
  BY <1>2, <1>3 DEF Errands, ExecutedOnce
<1> QED
  BY <1>4, <1>5, <1>6, <1>7 DEF Errands

\* Every step leaves the calls on the errands they were on, or ends one.
LEMMA ErrandsNext ==
  ASSUME Typed, Errands, [Next]_vars
  PROVE  Errands'
<1>a. /\ calls \in [Client -> Nat]
      /\ reply \in [Connection -> Frame \cup {NoFrame}]
  BY DEF Typed, ClientTyped, WireTyped
<1>b. ASSUME UNCHANGED <<request, reply, calls, history>>
      PROVE  Errands'
  BY <1>a, <1>b, ErrandsUndisturbed
<1>1. CASE ServeThread \/ StopFlag \/ StopNotify
  BY <1>1, <1>b DEF ServeThread, StopFlag, StopNotify, LookAround, PollTimedOut, Accept,
       NotifyAccepted, NotifyLeaving, JoinAndReturn, Destroy, wire, clients
<1>2. ASSUME NEW w \in Worker, WorkerThread(w)
      PROVE  Errands'
  <2>1. CASE Serve(w)
    <3>1. /\ Executing(w) /\ UNCHANGED calls
          /\ reply' = [reply EXCEPT ![serving[w]] = request[serving[w]]]
      BY <2>1 DEF Serve, Sent, clients
    <3> QED
      BY <3>1, ErrandsExecuting
  <2>2. CASE ServeUnanswered(w)
    BY <2>2, ErrandsExecuting DEF ServeUnanswered, Drop, clients
  <2>3. CASE Take(w) \/ Exit(w) \/ Decide(w) \/ Sleep(w)
    BY <2>3, <1>b DEF Take, Exit, Decide, Sleep, wire, clients
  <2>4. CASE CheckStop(w) \/ HangUp(w) \/ WorkerStopFlag(w) \/ WorkerStopNotify(w)
    BY <2>4, <1>b DEF CheckStop, HangUp, WorkerStopFlag, WorkerStopNotify, Drop, wire, clients
  <2> QED
    BY <1>2, <2>1, <2>2, <2>3, <2>4 DEF WorkerThread
<1>3. ASSUME NEW c \in Client, ClientProcess(c)
      PROVE  Errands'
  <2>1. CASE Connect(c) \/ Leave(c)
    BY <2>1, <1>b DEF Connect, Leave, wire
  <2>2. CASE CallUnsent(c)
    <3>1. UNCHANGED <<request, reply, history>> /\ calls' = [calls EXCEPT ![c] = calls[c] + 1]
      BY <2>2 DEF CallUnsent, wire
    <3>2. \A d \in Client : calls'[d] \in Nat /\ calls[d] <= calls'[d]
      BY <1>a, <3>1
    <3> QED
      BY <3>1, <3>2, ErrandsUndisturbed
  <2>3. CASE Fail(c) \/ Die(c)
    <3>1. UNCHANGED <<request, calls, history>>
          /\ reply' = [reply EXCEPT ![Current(c)] = NoFrame]
      BY <2>3 DEF Fail, Die
    <3>2. \A d \in Client : calls'[d] \in Nat /\ calls[d] <= calls'[d]
      BY <1>a, <3>1
    <3>3. \A k \in Connection : reply'[k] = reply[k] \/ reply'[k] = NoFrame
      BY <1>a, <3>1
    <3> QED
      BY <3>1, <3>2, <3>3, ErrandsUndisturbed
  <2> QED
    BY <1>3, <2>1, <2>2, <2>3, ErrandsCall, ErrandsReturn DEF ClientProcess
<1>4. CASE UNCHANGED vars
  BY <1>4, <1>b DEF vars, wire, clients
<1> QED
  BY <1>1, <1>2, <1>3, <1>4 DEF Next

\* A call is executed at most once, and exactly once if it was answered and its
\* frame was sound; nothing is executed for a frame that is not.
THEOREM CallsExecutedOnce == Spec => []ExecutedOnce
<1>1. Init => Typed /\ Errands
  BY TypedInit, ErrandsInit
<1>2. Typed /\ Errands /\ [Next]_vars => Typed' /\ Errands'
  BY TypedNext, ErrandsNext
<1>3. Errands => ExecutedOnce
  BY DEF Errands
<1> QED
  BY <1>1, <1>2, <1>3, PTL DEF Spec

-----------------------------------------------------------------------------
(* The transport is a service                                              *)

WaitingClients == {c \in Client : client[c] = "calling"}

\* Only calls that were made are answered, and nobody waits for an answer it has.
Asking ==
  /\ \A c \in Client, n \in Nat : <<c, n>> \in answered => n <= calls[c]
  /\ \A c \in Client : client[c] = "calling" => LastCall(c) \notin answered

\* The step a step of the transport is, with nothing asked twice after it.
Serves == Asking' /\ [Service!Next]_(Service!serviceVars)

\* Steps of the server that execute nothing do not show.
LEMMA ServerUnseen ==
  ASSUME Asking, UNCHANGED <<clients, history>>
  PROVE  Serves
<1>1. Asking'
  BY DEF Asking, clients, history, LastCall
<1>2. UNCHANGED Service!serviceVars
  BY DEF Service!serviceVars, clients, history
<1> QED
  BY <1>1, <1>2 DEF Serves

\* A worker that executes a frame executes a call that was made, was not
\* executed and was not answered.
LEMMA ExecutingServes ==
  ASSUME Typed, Errands, Asking, NEW w \in Worker, Executing(w), UNCHANGED clients
  PROVE  Serves
<1> DEFINE k == serving[w]
           call == Of(k, request[k])
<1>1. k \in Connection /\ request[k] # NoFrame /\ request[k].op # "garbage"
  BY ServedIsConnection DEF Executing, Arrived, Accepted, Typed, Busy
<1>2. /\ call \in CallOf /\ executed[call] = 0
      /\ request[k].op \in Damaging <=> call \in damaged
      /\ request[k].id \in Nat /\ request[k].id <= calls[k[1]] /\ k[1] \in Client
  BY <1>1, Frames DEF Errands, Outstanding
<1>3. /\ UNCHANGED <<client, calls, answered, damaged>>
      /\ executed' = Dispatched(call, request[k])
  BY DEF Executing, clients, Of
<1>4. CASE request[k].op = "unreadable"
  <2>1. UNCHANGED history
    BY <1>3, <1>4 DEF Dispatched, Readable, history
  <2> QED
    BY <2>1, ServerUnseen
<1>5. CASE request[k].op # "unreadable"
  <2>1. executed' = [executed EXCEPT ![call] = executed[call] + 1] /\ call \notin damaged
    BY <1>1, <1>2, <1>3, <1>5 DEF Dispatched, Readable, Damaging
  <2>2. executed' = [executed EXCEPT ![call] = 1]
    BY <1>2, <2>1
  <2>3. call \notin answered
    BY <1>2, <2>1 DEF Errands, ExecutedOnce
  <2>4. call = <<k[1], request[k].id>> /\ call[1] = k[1] /\ call[2] = request[k].id
    BY DEF Of
  <2> HIDE DEF call
  <2>5. Service!Execute(call[1], call[2])
    BY <1>2, <1>3, <2>1, <2>2, <2>3, <2>4 DEF Service!Execute
  <2>6. Asking'
    BY <1>3 DEF Asking, LastCall
  <2> QED
    BY <1>2, <2>5, <2>6 DEF Serves, Service!Next
<1> QED
  BY <1>4, <1>5

\* A client that no longer waits, if it did, has given its call up, or made one
\* that was lost.
LEMMA AwayServes ==
  ASSUME Typed, Asking, NEW c \in Client, NEW place \in {"away", "connected"},
         client' = [client EXCEPT ![c] = place], UNCHANGED history,
         calls' = calls \/ (client[c] # "calling" /\ calls' = [calls EXCEPT ![c] = @ + 1])
  PROVE  Serves
<1>1. /\ client \in [Client -> {"away", "connected", "calling"}]
      /\ calls \in [Client -> Nat] /\ calls[c] \in Nat
  BY DEF Typed, ClientTyped
<1>2. WaitingClients' = WaitingClients \ {c}
  BY <1>1 DEF WaitingClients
<1>3. UNCHANGED <<executed, answered, damaged>>
  BY DEF history
<1>4. Asking'
  <2>1. ASSUME NEW d \in Client
        PROVE  /\ calls'[d] \in Nat /\ calls[d] \in Nat /\ calls[d] <= calls'[d]
               /\ client'[d] = "calling" =>
                    d # c /\ client[d] = "calling" /\ calls'[d] = calls[d]
    BY <1>1
  <2>2. \A d \in Client, n \in Nat : <<d, n>> \in answered' => n <= calls'[d]
    BY <1>3, <2>1 DEF Asking
  <2>3. \A d \in Client : client'[d] = "calling" => <<d, calls'[d]>> \notin answered'
    BY <1>3, <2>1 DEF Asking, LastCall
  <2> QED
    BY <2>2, <2>3 DEF Asking, LastCall
<1>5. CASE calls' = calls /\ client[c] = "calling"
  <2>1. Service!GiveUp(c)
    BY <1>2, <1>3, <1>5 DEF Service!GiveUp, WaitingClients
  <2> QED
    BY <1>4, <2>1 DEF Serves, Service!Next
<1>6. CASE calls' = calls /\ client[c] # "calling"
  <2>1. WaitingClients' = WaitingClients
    BY <1>2, <1>6 DEF WaitingClients
  <2>2. UNCHANGED Service!serviceVars
    BY <1>3, <1>6, <2>1 DEF Service!serviceVars, WaitingClients
  <2> QED
    BY <1>4, <2>2 DEF Serves
<1>7. CASE client[c] # "calling" /\ calls' = [calls EXCEPT ![c] = @ + 1]
  <2>1. WaitingClients' = WaitingClients /\ c \notin WaitingClients
    BY <1>2, <1>7 DEF WaitingClients
  <2>2. Service!Make(c)
    BY <1>3, <1>7, <2>1 DEF Service!Make, WaitingClients
  <2> QED
    BY <1>4, <2>2 DEF Serves, Service!Next
<1> QED
  BY <1>5, <1>6, <1>7

\* A client that makes a call waits for its answer, which it does not have.
LEMMA CallServes ==
  ASSUME Typed, Asking, NEW c \in Client, NEW op, Call(c, op)
  PROVE  Serves
<1>1. /\ client \in [Client -> {"away", "connected", "calling"}]
      /\ calls \in [Client -> Nat] /\ calls[c] \in Nat
  BY DEF Typed, ClientTyped
<1>2. /\ client[c] = "connected" /\ client' = [client EXCEPT ![c] = "calling"]
      /\ calls' = [calls EXCEPT ![c] = @ + 1]
      /\ UNCHANGED <<executed, answered>>
      /\ damaged' \in {damaged, damaged \cup {<<c, calls[c] + 1>>}}
  BY DEF Call
<1>3. WaitingClients' = WaitingClients \cup {c} /\ c \notin WaitingClients
  BY <1>1, <1>2 DEF WaitingClients
<1>4. Service!Make(c)
  BY <1>2, <1>3 DEF Service!Make, WaitingClients
<1>5. <<c, calls[c] + 1>> \notin answered
  BY <1>1 DEF Asking
<1>6. ASSUME NEW d \in Client
      PROVE  /\ calls'[d] \in Nat /\ calls[d] \in Nat /\ calls[d] <= calls'[d]
             /\ d = c => calls'[d] = calls[c] + 1
             /\ d # c => calls'[d] = calls[d] /\ client'[d] = client[d]
  BY <1>1, <1>2
<1>7. \A d \in Client, n \in Nat : <<d, n>> \in answered' => n <= calls'[d]
  BY <1>2, <1>6 DEF Asking
<1>8. \A d \in Client : client'[d] = "calling" => <<d, calls'[d]>> \notin answered'
  BY <1>2, <1>5, <1>6 DEF Asking, LastCall
<1>9. Asking'
  BY <1>7, <1>8 DEF Asking, LastCall
<1> QED
  BY <1>4, <1>9 DEF Serves, Service!Next

\* A client that takes an answer takes that to its last call, which was
\* executed or is damaged.
LEMMA ReturnServes ==
  ASSUME Typed, Errands, Asking, NEW c \in Client, Return(c)
  PROVE  Serves
<1>1. /\ client \in [Client -> {"away", "connected", "calling"}]
      /\ calls \in [Client -> Nat] /\ calls[c] \in Nat
  BY DEF Typed, ClientTyped
<1>2. PICK place \in {"away", "connected"} : client' = [client EXCEPT ![c] = place]
  BY DEF Return, AfterReply
<1>3. /\ client[c] = "calling" /\ answered' = answered \cup {LastCall(c)}
      /\ UNCHANGED <<calls, executed, damaged>>
  BY DEF Return
<1>4. executed[LastCall(c)] = 1 \/ LastCall(c) \in damaged
  <2>1. Current(c) \in Connection /\ Current(c)[1] = c
    BY <1>3, CurrentIsConnection DEF Typed
  <2>2. reply[Current(c)] # NoFrame /\ Of(Current(c), reply[Current(c)]) = LastCall(c)
    BY <2>1 DEF Return, Of, LastCall
  <2> QED
    BY <2>1, <2>2 DEF Errands, Replied
<1>5. WaitingClients' = WaitingClients \ {c} /\ c \in WaitingClients
  BY <1>1, <1>2, <1>3 DEF WaitingClients
<1>6. LastCall(c) \notin answered /\ LastCall(c) = <<c, calls[c]>>
  BY <1>3 DEF Asking, LastCall
<1>7. Service!Answer(c)
  BY <1>3, <1>4, <1>5, <1>6 DEF Service!Answer, Service!Last, WaitingClients
<1>8. \A d \in Client, n \in Nat : <<d, n>> \in answered' => n <= calls'[d]
  <2>1. ASSUME NEW d \in Client, NEW n \in Nat, <<d, n>> = <<c, calls[c]>>
        PROVE  n <= calls[d]
    <3>1. d = c /\ n = calls[c]
      BY <2>1
    <3> QED
      BY <1>1, <3>1
  <2> QED
    BY <1>3, <1>6, <2>1 DEF Asking
<1>9. ASSUME NEW d \in Client, client'[d] = "calling"
      PROVE  <<d, calls'[d]>> \notin answered'
  <2>1. d # c /\ client[d] = "calling"
    BY <1>1, <1>2, <1>9
  <2>2. <<d, calls[d]>> # <<c, calls[c]>>
    BY <2>1
  <2> QED
    BY <1>3, <1>6, <2>1, <2>2 DEF Asking, LastCall
<1>10. Asking'
  BY <1>8, <1>9 DEF Asking, LastCall
<1> QED
  BY <1>7, <1>10 DEF Serves, Service!Next

\* Every step of the transport is one of the service, or does not show.
LEMMA ServiceStep ==
  ASSUME Typed, Errands, Asking, [Next]_vars
  PROVE  Serves
<1>1. CASE ServeThread \/ StopFlag \/ StopNotify
  BY <1>1, ServerUnseen DEF ServeThread, StopFlag, StopNotify, LookAround, PollTimedOut,
       Accept, NotifyAccepted, NotifyLeaving, JoinAndReturn, Destroy
<1>2. ASSUME NEW w \in Worker, WorkerThread(w)
      PROVE  Serves
  <2>1. CASE Serve(w)
    BY <2>1, ExecutingServes DEF Serve
  <2>2. CASE ServeUnanswered(w)
    BY <2>2, ExecutingServes DEF ServeUnanswered, Drop
  <2>3. CASE Take(w) \/ Exit(w) \/ Decide(w) \/ Sleep(w)
    BY <2>3, ServerUnseen DEF Take, Exit, Decide, Sleep
  <2>4. CASE CheckStop(w) \/ HangUp(w) \/ WorkerStopFlag(w) \/ WorkerStopNotify(w)
    BY <2>4, ServerUnseen DEF CheckStop, HangUp, WorkerStopFlag, WorkerStopNotify, Drop
  <2> QED
    BY <1>2, <2>1, <2>2, <2>3, <2>4 DEF WorkerThread
<1>3. ASSUME NEW c \in Client, ClientProcess(c)
      PROVE  Serves
  <2>1. CASE Connect(c)
    BY <2>1, AwayServes DEF Connect
  <2>2. CASE CallUnsent(c)
    BY <2>2, AwayServes DEF CallUnsent
  <2>3. CASE Fail(c)
    BY <2>3, AwayServes DEF Fail
  <2>4. CASE Leave(c)
    BY <2>4, AwayServes DEF Leave
  <2>5. CASE Die(c)
    BY <2>5, AwayServes DEF Die
  <2> QED
    BY <1>3, <2>1, <2>2, <2>3, <2>4, <2>5, CallServes, ReturnServes DEF ClientProcess
<1>4. CASE UNCHANGED vars
  BY <1>4, ServerUnseen DEF vars
<1> QED
  BY <1>1, <1>2, <1>3, <1>4 DEF Next

\* For any number of clients, workers and connections and any bound of the
\* queue: the server executes each call at most once, after it was made, before
\* it is answered and never after that, though perhaps after it was given up.
THEOREM CallsAreServed == Spec => ActsAsService
<1>1. Init => Typed /\ Errands /\ Asking /\ Service!Init
  <2>1. Init => Asking /\ Service!Init
    BY DEF Init, Asking, Service!Init
  <2> QED
    BY <2>1, TypedInit, ErrandsInit
<1>2. /\ Typed /\ Errands /\ Asking /\ [Next]_vars
        => Typed' /\ Errands' /\ Asking' /\ [Service!Next]_(Service!serviceVars)
  BY TypedNext, ErrandsNext, ServiceStep DEF Serves
<1> QED
  BY <1>1, <1>2, PTL DEF Spec, ActsAsService, Service!Spec

-----------------------------------------------------------------------------
(* Nobody sleeps while a connection waits for a worker                     *)

Idle == {w \in Worker : worker[w] = "idle"}

\* The notification the acceptor owes.
Due == IF accept = "pushed" THEN 1 ELSE 0

\* A worker that is about to sleep has seen an empty queue, and holds the mutex;
\* if one sleeps, then for every connection in the queue there is a worker on
\* its way, or the notification of one is due.
Attended ==
  /\ \A w \in Worker : worker[w] = "deciding" => queue = <<>>
  /\ Waiting # {} => Cardinality(Idle) + Due >= Len(queue)

\* Nobody sleeps and nothing waits at first.
LEMMA AttendedInit == Init => Attended
BY DEF Init, Attended, Waiting

\* The idle workers can be counted.
LEMMA IdleCount == IsFiniteSet(Idle) /\ Cardinality(Idle) \in Nat
BY FS_Subset, FS_CardinalityType, TransportAssumption DEF Idle

\* Steps after which there are no fewer idle workers, no more in the queue, and
\* nobody new sleeps.
LEMMA AttendedUndisturbed ==
  ASSUME Typed, Attended, queue' = queue, Due' >= Due,
         \A w \in Worker : worker'[w] = "deciding" => worker[w] = "deciding",
         \A w \in Worker : worker'[w] = "waiting" => worker[w] = "waiting",
         \A w \in Worker : worker[w] = "idle" => worker'[w] = "idle"
  PROVE  Attended'
<1>1. Waiting' \subseteq Waiting /\ Idle \subseteq Idle'
  BY DEF Waiting, Idle
<1>2. IsFiniteSet(Idle') /\ Cardinality(Idle') \in Nat
  BY FS_Subset, FS_CardinalityType, TransportAssumption DEF Idle
<1>3. Cardinality(Idle) <= Cardinality(Idle') /\ Cardinality(Idle) \in Nat
  BY <1>1, <1>2, FS_Subset, IdleCount
<1>4. Len(queue) \in Nat /\ Due \in Nat /\ Due' \in Nat
  BY DEF Typed, ServerTyped, Due
<1>5. Waiting' # {} => Cardinality(Idle') + Due' >= Len(queue')
  BY <1>1, <1>2, <1>3, <1>4 DEF Attended
<1> QED
  BY <1>5 DEF Attended

\* An empty queue needs nobody.
LEMMA AttendedEmpty ==
  ASSUME queue' = <<>>
  PROVE  Attended'
<1>1. IsFiniteSet(Idle') /\ Cardinality(Idle') \in Nat
  BY FS_Subset, FS_CardinalityType, TransportAssumption DEF Idle
<1>2. Len(queue') = 0 /\ Due' \in Nat
  BY DEF Due
<1> QED
  BY <1>1, <1>2 DEF Attended

\* Everybody who slept has been woken.
LEMMA AttendedAwake ==
  ASSUME Typed, Attended, queue' = queue,
         \A w \in Worker : worker'[w] = "deciding" => worker[w] = "deciding",
         \A w \in Worker : worker'[w] # "waiting"
  PROVE  Attended'
BY DEF Attended, Waiting

\* A connection has come, and its notification is due.
LEMMA AttendedAccept ==
  ASSUME Typed, Attended, NEW k \in Connection, Accept(k)
  PROVE  Attended'
<1>1. /\ queue \in Seq(Connection) /\ Len(queue) \in Nat
      /\ queue' = queue \/ queue' = Append(queue, k)
      /\ accept = "polling" /\ accept' = "pushed" /\ UNCHANGED worker
      /\ \A w \in Worker : worker[w] # "deciding"
  BY DEF Typed, ServerTyped, Accept, MutexFree
<1>2. Len(queue') <= Len(queue) + 1 /\ Len(queue') \in Nat
  BY <1>1
<1>3. Due = 0 /\ Due' = 1 /\ Idle' = Idle /\ Waiting' = Waiting
  BY <1>1 DEF Due, Idle, Waiting
<1>4. Waiting' # {} => Cardinality(Idle') + Due' >= Len(queue')
  BY <1>1, <1>2, <1>3, IdleCount DEF Attended
<1> QED
  BY <1>1, <1>4 DEF Attended

\* The notification wakes one of those that sleep.
LEMMA AttendedNotify ==
  ASSUME Typed, Attended, NotifyAccepted
  PROVE  Attended'
<1>0. /\ worker \in [Worker -> Place] /\ Len(queue) \in Nat /\ UNCHANGED queue
      /\ accept = "pushed" /\ accept' = "open" /\ worker' \in NotifiedOne
  BY DEF Typed, ServerTyped, NotifyAccepted
<1>1. CASE Waiting = {}
  <2>1. worker' = worker
    BY <1>0, <1>1 DEF NotifiedOne
  <2>2. \A w \in Worker : worker'[w] # "waiting"
    BY <1>1, <2>1 DEF Waiting
  <2> QED
    BY <1>0, <2>1, <2>2, AttendedAwake
<1>2. CASE Waiting # {}
  <2>1. PICK w \in Waiting : worker' = Awake({w})
    BY <1>0, <1>2 DEF NotifiedOne
  <2>2. /\ w \in Worker /\ worker[w] = "waiting" /\ worker'[w] = "idle"
        /\ \A v \in Worker \ {w} : worker'[v] = worker[v]
    BY <2>1 DEF Waiting, Awake
  <2>3. Idle' = Idle \cup {w} /\ w \notin Idle
    BY <2>2 DEF Idle
  <2>4. Cardinality(Idle') = Cardinality(Idle) + 1
    BY <2>3, FS_AddElement, IdleCount
  <2>5. Due = 1 /\ Due' = 0
    BY <1>0 DEF Due
  <2>6. Cardinality(Idle') + Due' >= Len(queue')
    BY <1>0, <1>2, <2>4, <2>5, IdleCount DEF Attended
  <2> QED
    BY <1>0, <2>2, <2>6 DEF Attended
<1> QED
  BY <1>1, <1>2

\* A worker that is on its way takes one connection.
LEMMA AttendedTake ==
  ASSUME Typed, Attended, NEW w \in Worker, Take(w)
  PROVE  Attended'
<1>0. /\ worker \in [Worker -> Place] /\ queue \in Seq(Connection) /\ queue # <<>>
      /\ worker[w] = "idle" /\ queue' = Tail(queue) /\ UNCHANGED accept
      /\ worker' = [worker EXCEPT ![w] = "checking"]
      /\ \A v \in Worker : worker[v] # "deciding"
  BY DEF Typed, ServerTyped, Take, Move, TakenFromQueue, MutexFree
<1>1. Len(queue) \in Nat /\ Len(queue') = Len(queue) - 1
  BY <1>0
<1>2. Idle' = Idle \ {w} /\ w \in Idle /\ Waiting' = Waiting /\ Due' = Due /\ Due \in Nat
  BY <1>0 DEF Idle, Waiting, Due
<1>3. Cardinality(Idle') = Cardinality(Idle) - 1
  BY <1>2, FS_RemoveElement, IdleCount
<1>4. Waiting' # {} => Cardinality(Idle') + Due' >= Len(queue')
  BY <1>1, <1>2, <1>3, IdleCount DEF Attended
<1> QED
  BY <1>0, <1>4 DEF Attended

\* Every step leaves what waits to somebody who is awake.
LEMMA AttendedNext ==
  ASSUME Typed, Attended, [Next]_vars
  PROVE  Attended'
<1>0. worker \in [Worker -> Place] /\ Due \in Nat
  BY DEF Typed, ServerTyped, Due
<1>1. CASE ServeThread \/ StopFlag \/ StopNotify
  <2>1. CASE LookAround \/ PollTimedOut \/ JoinAndReturn \/ StopFlag
    <3>1. \/ UNCHANGED <<queue, worker>> /\ accept # "pushed"
          \/ UNCHANGED <<queue, worker, accept>>
      BY <2>1 DEF LookAround, PollTimedOut, JoinAndReturn, StopFlag
    <3>2. Due' >= Due
      BY <3>1 DEF Due
    <3> QED
      BY <3>1, <3>2, AttendedUndisturbed
  <2>2. CASE NotifyLeaving \/ StopNotify
    <3>1. worker' = Awake(Waiting) /\ queue' = queue
      BY <2>2 DEF NotifyLeaving, StopNotify, NotifiedAll
    <3>2. \A w \in Worker :
            worker'[w] # "waiting" /\ (worker'[w] = "deciding" => worker[w] = "deciding")
      BY <1>0, <3>1 DEF Awake, Waiting
    <3> QED
      BY <3>1, <3>2, AttendedAwake
  <2>3. CASE Destroy
    BY <2>3, AttendedEmpty DEF Destroy
  <2> QED
    BY <1>1, <2>1, <2>2, <2>3, AttendedAccept, AttendedNotify DEF ServeThread
<1>2. ASSUME NEW w \in Worker, WorkerThread(w)
      PROVE  Attended'
  <2>1. CASE Exit(w) \/ Decide(w)
    BY <2>1, AttendedEmpty DEF Exit, Decide
  <2>2. CASE Sleep(w)
    BY <2>2, AttendedEmpty DEF Sleep, Attended
  <2>3. ASSUME NEW place \in Busy \cup {"idle"}, worker[w] \in Busy,
               worker' = [worker EXCEPT ![w] = place], UNCHANGED <<queue, accept>>
        PROVE  Attended'
    <3>1. /\ \A v \in Worker : worker'[v] = "deciding" => worker[v] = "deciding"
          /\ \A v \in Worker : worker'[v] = "waiting" => worker[v] = "waiting"
          /\ \A v \in Worker : worker[v] = "idle" => worker'[v] = "idle"
      BY <1>0, <2>3 DEF Busy
    <3>2. Due' >= Due
      BY <1>0, <2>3 DEF Due
    <3> QED
      BY <2>3, <3>1, <3>2, AttendedUndisturbed
  <2>4. CASE CheckStop(w) \/ HangUp(w) \/ Serve(w) \/ ServeUnanswered(w) \/ WorkerStopFlag(w)
    <3>1. worker[w] \in Busy /\ UNCHANGED <<queue, accept>>
      BY <2>4 DEF CheckStop, HangUp, Serve, ServeUnanswered, WorkerStopFlag, Executing, Arrived,
                  Drop, Busy
    <3>2. \E place \in Busy \cup {"idle"} : worker' = [worker EXCEPT ![w] = place]
      BY <2>4 DEF CheckStop, HangUp, Serve, ServeUnanswered, WorkerStopFlag, Drop, Move, Busy
    <3> QED
      BY <2>3, <3>1, <3>2
  <2>5. CASE WorkerStopNotify(w)
    <3>1. worker' = [Awake(Waiting) EXCEPT ![w] = "idle"] /\ queue' = queue
      BY <2>5 DEF WorkerStopNotify, Drop, NotifiedAll
    <3>2. \A v \in Worker :
            worker'[v] # "waiting" /\ (worker'[v] = "deciding" => worker[v] = "deciding")
      BY <1>0, <3>1 DEF Awake, Waiting
    <3> QED
      BY <3>1, <3>2, AttendedAwake
  <2> QED
    BY <1>2, <2>1, <2>2, <2>4, <2>5, AttendedTake DEF WorkerThread
<1>3. CASE UNCHANGED server
  <2>1. UNCHANGED <<worker, queue, accept>>
    BY <1>3 DEF server
  <2>2. Due' >= Due
    BY <1>0, <2>1 DEF Due
  <2> QED
    BY <2>1, <2>2, AttendedUndisturbed
<1>4. ASSUME NEW c \in Client, ClientProcess(c)
      PROVE  UNCHANGED server
  BY <1>4 DEF ClientProcess, Connect, Call, CallUnsent, Return, Fail, Leave, Die
<1>5. CASE UNCHANGED vars
  BY <1>3, <1>5 DEF vars
<1> QED
  BY <1>1, <1>2, <1>3, <1>4, <1>5 DEF Next

\* No worker sleeps while a connection waits for one that is busy, unless a
\* notification is due.
THEOREM SleepersHaveNoWork == Spec => []NobodySleepsOnWork
<1>1. Init => Typed /\ Attended
  BY TypedInit, AttendedInit
<1>2. Typed /\ Attended /\ [Next]_vars => Typed' /\ Attended'
  BY TypedNext, AttendedNext
<1>3. Typed /\ Attended => NobodySleepsOnWork
  <2>1. Typed => Len(queue) \in Nat
    BY DEF Typed, ServerTyped
  <2> QED
    BY <2>1, IdleCount DEF Attended, NobodySleepsOnWork, Due, Idle
<1> QED
  BY <1>1, <1>2, <1>3, PTL DEF Spec
=============================================================================
