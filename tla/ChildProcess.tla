---------------------------- MODULE ChildProcess ----------------------------
(***************************************************************************)
(* ChildProcess: a real child of the operating system, started, killed and *)
(* waited for by one thread of the program, and the two reader threads that *)
(* drain its standard output and standard error into bounded buffers.      *)
(*                                                                         *)
(* The operating system is modelled as far as the code relies on it: a     *)
(* forked child inherits the write ends its parent holds; a read sees the  *)
(* end of the stream when the pipe is empty and nobody holds its write end;*)
(* a write waits for room in the pipe; a child that has ended is a zombie  *)
(* until it is waited for; SIGKILL arrives some time after it is sent. The *)
(* text of the streams is its length. An EINTR that is retried is left out,*)
(* and so is the branch of joinReaders for a reader that joins itself,     *)
(* which no reader reaches.                                                *)
(***************************************************************************)
EXTENDS Integers, FiniteSets

CONSTANTS
  Object,        \* the ChildProcess objects of the program
  Child,         \* bound: the processes it ever forks, positive numbers
  MaxCapture,    \* kMaxCaptureBytes
  PipeCapacity,  \* what a pipe of the operating system holds
  Output         \* bound: what each child writes, both streams together

NoObject == "none"

ASSUME ChildProcessAssumption ==
  /\ NoObject \notin Object
  /\ Child \subseteq Nat \ {0} /\ IsFiniteSet(Child)
  /\ MaxCapture \in Nat \ {0} /\ PipeCapacity \in Nat \ {0}
  /\ Output \in [Child -> Nat]

Stream == {"out", "err"}

VARIABLES
  object,     \* pid_ and waited_ of each object; an object that has not
              \* started anything has no pid and no Impl
  thread,     \* where the program's thread is, and with which child
  process,    \* what the operating system knows of each child
  signalled,  \* children SIGKILL is on its way to
  writing,    \* the stream each child is about to write to
  pipe,       \* what is in each pipe
  holders,    \* who holds the write end of each pipe: the parent, children
  readEnd,    \* who is to close the read end of each pipe
  capture,    \* CaptureBuffer of each stream: [kept, truncated, marked]
  written     \* history: what each child has written to each stream

system == <<process, signalled, writing, pipe, holders, written>>
vars == <<object, thread, system, readEnd, capture>>

NoChild == 0
Fresh == [pid |-> NoChild, waited |-> FALSE]
Idle == [at |-> "idle", object |-> NoObject, pid |-> NoChild]
Nothing == [kept |-> 0, truncated |-> FALSE, marked |-> FALSE]
Parent == NoChild

Smaller(m, n) == IF m < n THEN m ELSE n

Ended(c) == process[c] \in {"zombie", "reaped"}

\* The thread goes on with the child it is at.
Go(place) == thread' = [thread EXCEPT !.at = place]

-----------------------------------------------------------------------------
(* start. A call on an object that has started a child is refused.         *)

\* The two pipes exist. When the second cannot be created the first is closed
\* and nothing has happened.
CreatePipes(o, c) ==
  /\ thread = Idle /\ object[o].pid = NoChild /\ process[c] = "none"
  /\ thread' = [Idle EXCEPT !.at = "piped", !.object = o, !.pid = c]
  /\ process' = [process EXCEPT ![c] = "pipes"]
  /\ holders' = [holders EXCEPT ![c] = [s \in Stream |-> {Parent}]]
  /\ readEnd' = [readEnd EXCEPT ![c] = [s \in Stream |-> "object"]]
  /\ UNCHANGED <<object, signalled, writing, pipe, capture, written>>

\* Who holds what when a child has been forked: it inherits every write end
\* its parent holds, its own and those of any other pipe.
Inherited(c) ==
  [d \in Child |-> [s \in Stream |->
     IF Parent \in holders[d][s] THEN holders[d][s] \cup {c} ELSE holders[d][s]]]

Fork ==
  LET c == thread.pid IN
  /\ thread.at = "piped"
  /\ process' = [process EXCEPT ![c] = "running"]
  /\ holders' = Inherited(c)
  /\ Go("forked")
  /\ UNCHANGED <<object, signalled, writing, pipe, readEnd, capture, written>>

Unheld(c) == [holders EXCEPT ![c] = [s \in Stream |-> {}]]

\* All four ends are closed.
ForkFails ==
  LET c == thread.pid IN
  /\ thread.at = "piped"
  /\ process' = [process EXCEPT ![c] = "reaped"]
  /\ holders' = Unheld(c)
  /\ readEnd' = [readEnd EXCEPT ![c] = [s \in Stream |-> "closed"]]
  /\ thread' = Idle
  /\ UNCHANGED <<object, signalled, writing, pipe, capture, written>>

\* Mutant: the parent keeps its write ends.
WriteEndsKept(c) == holders

\* The parent drops its write ends, or the readers never see the end.
WriteEndsDropped(c) ==
  [holders EXCEPT ![c] = [s \in Stream |-> @[s] \ {Parent}]]

DropWriteEnds ==
  /\ thread.at = "forked"
  /\ holders' = WriteEndsDropped(thread.pid)
  /\ Go("starting")
  /\ UNCHANGED <<object, process, signalled, writing, pipe, readEnd, capture, written>>

\* The reader of standard output is started, then that of standard error; the
\* child now belongs to the object.
StartOutReader ==
  /\ thread.at = "starting"
  /\ readEnd' = [readEnd EXCEPT ![thread.pid]["out"] = "reader"]
  /\ Go("halfway")
  /\ UNCHANGED <<object, system, capture>>

StartErrReader ==
  /\ thread.at = "halfway"
  /\ readEnd' = [readEnd EXCEPT ![thread.pid]["err"] = "reader"]
  /\ object' = [object EXCEPT ![thread.object] = [pid |-> thread.pid, waited |-> FALSE]]
  /\ thread' = Idle
  /\ UNCHANGED <<system, capture>>

\* A thread cannot be created: the child is killed and waited for, since
\* nothing drains its pipes.
ReaderFails ==
  /\ thread.at \in {"starting", "halfway"}
  /\ signalled' = signalled \cup {thread.pid}
  /\ thread' = [thread EXCEPT !.at = "reap", !.object = NoObject]
  /\ UNCHANGED <<object, process, writing, pipe, holders, written, readEnd, capture>>

-----------------------------------------------------------------------------
(* kill, wait, the destructor and the moves                                *)

\* A child that was waited for is left alone: its number may be another's now.
Killable(o) == object[o].pid # NoChild /\ ~object[o].waited

Kill(o) ==
  /\ thread = Idle /\ Killable(o)
  /\ signalled' = signalled \cup {object[o].pid}
  /\ UNCHANGED <<object, thread, process, writing, pipe, holders, written, readEnd, capture>>

\* A second wait returns the exit code of the first.
Wait(o) ==
  /\ thread = Idle /\ Killable(o)
  /\ thread' = [at |-> "reap", object |-> o, pid |-> object[o].pid]
  /\ UNCHANGED <<object, system, readEnd, capture>>

\* Mutant: the child is waited for without having been killed.
LeftAlone(old) == signalled

\* The destructor kills what has not been waited for.
KilledFirst(old) == IF old.waited THEN signalled ELSE signalled \cup {old.pid}

\* The thread is in the destructor of what the object was.
Release(old) ==
  /\ old.pid # NoChild
  /\ signalled' = KilledFirst(old)
  /\ thread' = [at |-> IF old.waited THEN "join" ELSE "reap", object |-> NoObject,
                pid |-> old.pid]

\* The storage of the object is used for another one later.
Destroy(o) ==
  /\ thread = Idle
  /\ Release(object[o])
  /\ object' = [object EXCEPT ![o] = Fresh]
  /\ UNCHANGED <<process, writing, pipe, holders, written, readEnd, capture>>

\* Mutant: the child that is displaced is forgotten.
Forgotten(old) == UNCHANGED <<signalled, thread>>

\* The temporary of the move assignment has the displaced child, if any.
Displaced(old) ==
  \/ Release(old)
  \/ old.pid = NoChild /\ UNCHANGED <<signalled, thread>>

\* Move construction, where there is nothing to displace, and assignment.
Move(o, from) ==
  /\ thread = Idle /\ o # from
  /\ object' = [object EXCEPT ![o] = object[from], ![from] = Fresh]
  /\ Displaced(object[o])
  /\ UNCHANGED <<process, writing, pipe, holders, written, readEnd, capture>>

\* waitpid. Its failure returns are left out: EINTR is retried, and the pid is
\* always that of an own child nobody has reaped (ChildProcessProofs: OnlyItsOwn).
Reap ==
  /\ thread.at = "reap" /\ process[thread.pid] = "zombie"
  /\ process' = [process EXCEPT ![thread.pid] = "reaped"]
  /\ Go("join")
  /\ UNCHANGED <<object, signalled, writing, pipe, holders, written, readEnd, capture>>

\* Mutant: nobody waits for the readers.
JoinedAtOnce(c) == TRUE

\* Both readers have ended, those that were started.
Joined(c) == \A s \in Stream : readEnd[c][s] # "reader"

\* joinReaders; wait() notes the exit code, the destructor frees the Impl, and
\* the read end no reader took over is closed.
Join ==
  LET c == thread.pid IN
  /\ thread.at = "join" /\ Joined(c)
  /\ object' = IF thread.object # NoObject
                 THEN [object EXCEPT ![thread.object].waited = TRUE] ELSE object
  /\ readEnd' = [readEnd EXCEPT ![c] = [s \in Stream |->
                   IF @[s] = "object" THEN "closed" ELSE @[s]]]
  /\ thread' = Idle
  /\ UNCHANGED <<system, capture>>

Starting ==
  \/ Fork \/ ForkFails \/ DropWriteEnds
  \/ StartOutReader \/ StartErrReader \/ ReaderFails

Operation ==
  \/ \E o \in Object, c \in Child : CreatePipes(o, c)
  \/ \E o \in Object : Kill(o) \/ Wait(o) \/ Destroy(o)
  \/ \E o, from \in Object : Move(o, from)

-----------------------------------------------------------------------------
(* A reader thread                                                         *)

\* Mutant: a buffer that is exactly full counts as cut.
CutWhenFull(size, room) == size >= room

Cut(size, room) == size > room

\* Mutant: what does not fit is kept as well.
AppendedWhole(buffer, size) == [buffer EXCEPT !.kept = @ + size]

\* appendCapture.
Appended(buffer, size) ==
  LET room == MaxCapture - buffer.kept IN
  [buffer EXCEPT !.kept = @ + Smaller(size, room), !.truncated = @ \/ Cut(size, room)]

\* Mutant: standard error is read once standard output has ended.
MayReadInTurn(c, s) ==
  /\ readEnd[c][s] = "reader"
  /\ s = "err" => readEnd[c]["out"] # "reader"

MayRead(c, s) == readEnd[c][s] = "reader"

\* Any part of what is in the pipe is read.
Read(c, s) ==
  /\ MayRead(c, s)
  /\ \E size \in 1..pipe[c][s] :
       /\ pipe' = [pipe EXCEPT ![c][s] = @ - size]
       /\ capture' = [capture EXCEPT ![c][s] = Appended(@, size)]
  /\ UNCHANGED <<object, thread, process, signalled, writing, holders, written, readEnd>>

\* finishCapture, and the reader closes the end it was given.
ReadEnd(c, s) ==
  /\ MayRead(c, s) /\ pipe[c][s] = 0 /\ holders[c][s] = {}
  /\ capture' = [capture EXCEPT ![c][s].marked = capture[c][s].truncated]
  /\ readEnd' = [readEnd EXCEPT ![c][s] = "closed"]
  /\ UNCHANGED <<object, thread, system>>

Reader(c, s) == Read(c, s) \/ ReadEnd(c, s)

-----------------------------------------------------------------------------
(* A child                                                                 *)

BeginWrite(c, s) ==
  /\ process[c] = "running" /\ writing[c] = "nothing"
  /\ written[c]["out"] + written[c]["err"] < Output[c]
  /\ writing' = [writing EXCEPT ![c] = s]
  /\ UNCHANGED <<object, thread, process, signalled, pipe, holders, written, readEnd, capture>>

\* The write waits for room.
Write(c) ==
  \E s \in Stream :
    /\ process[c] = "running" /\ writing[c] = s /\ pipe[c][s] < PipeCapacity
    /\ pipe' = [pipe EXCEPT ![c][s] = @ + 1]
    /\ written' = [written EXCEPT ![c][s] = @ + 1]
    /\ writing' = [writing EXCEPT ![c] = "nothing"]
    /\ UNCHANGED <<object, thread, process, signalled, holders, readEnd, capture>>

\* A child that ends closes every write end it holds.
End(c) ==
  /\ process' = [process EXCEPT ![c] = "zombie"]
  /\ holders' = [d \in Child |-> [s \in Stream |-> holders[d][s] \ {c}]]
  /\ writing' = [writing EXCEPT ![c] = "nothing"]
  /\ UNCHANGED <<object, thread, signalled, pipe, written, readEnd, capture>>

\* The child exits of itself, also when it cannot exec.
Exit(c) ==
  /\ process[c] = "running" /\ writing[c] = "nothing"
  /\ End(c)

\* The signal arrives, whatever the child waits for.
Die(c) ==
  /\ process[c] = "running" /\ c \in signalled
  /\ End(c)

-----------------------------------------------------------------------------
Init ==
  /\ object = [o \in Object |-> Fresh]
  /\ thread = Idle
  /\ process = [c \in Child |-> "none"]
  /\ signalled = {}
  /\ writing = [c \in Child |-> "nothing"]
  /\ pipe = [c \in Child |-> [s \in Stream |-> 0]]
  /\ holders = [c \in Child |-> [s \in Stream |-> {}]]
  /\ readEnd = [c \in Child |-> [s \in Stream |-> "none"]]
  /\ capture = [c \in Child |-> [s \in Stream |-> Nothing]]
  /\ written = [c \in Child |-> [s \in Stream |-> 0]]

Next ==
  \/ Operation
  \/ Starting
  \/ Reap
  \/ Join
  \/ \E c \in Child, s \in Stream : Reader(c, s) \/ BeginWrite(c, s)
  \/ \E c \in Child : Write(c) \/ Exit(c) \/ Die(c)

\* Threads are scheduled, a write that has room is done and a signal arrives.
\* No child need write or exit, and the program need not call anything.
Fairness ==
  /\ WF_vars(Starting \/ Reap \/ Join)
  /\ \A c \in Child :
       /\ WF_vars(Write(c)) /\ WF_vars(Die(c))
       /\ \A s \in Stream : WF_vars(Reader(c, s))

Spec == Init /\ [][Next]_vars /\ Fairness

-----------------------------------------------------------------------------
(* Properties                                                              *)

TypeOK ==
  /\ object \in [Object -> [pid : Child \cup {NoChild}, waited : BOOLEAN]]
  /\ thread \in [at : {"idle", "piped", "forked", "starting", "halfway", "reap", "join"},
                 object : Object \cup {NoObject}, pid : Child \cup {NoChild}]
  /\ process \in [Child -> {"none", "pipes", "running", "zombie", "reaped"}]
  /\ signalled \subseteq Child
  /\ writing \in [Child -> Stream \cup {"nothing"}]
  /\ pipe \in [Child -> [Stream -> 0..PipeCapacity]]
  /\ holders \in [Child -> [Stream -> SUBSET (Child \cup {Parent})]]
  /\ readEnd \in [Child -> [Stream -> {"none", "object", "reader", "closed"}]]
  /\ capture \in [Child -> [Stream -> [kept : 0..MaxCapture, truncated : BOOLEAN,
                                       marked : BOOLEAN]]]
  /\ written \in [Child -> [Stream -> Nat]]

\* Once wait() has returned, the capture is all the child wrote before it ended
\* or was killed, up to the bound, and it is marked exactly when something is
\* missing (appendCapture, finishCapture, joinReaders).
CaptureExact ==
  \A o \in Object : object[o].waited =>
    \A s \in Stream :
      LET all == written[object[o].pid][s]
          got == capture[object[o].pid][s]
      IN  /\ got.kept = Smaller(all, MaxCapture)
          /\ got.marked = (all > MaxCapture)

\* A child in the care of the thread: being started, waited for or released.
InHand(c) == thread.pid = c

Owners(c) == {o \in Object : object[o].pid = c}

\* No process, pipe end or reader thread outlives the object it belongs to, and
\* no two objects have one child (the destructor's promise, the moves).
NothingOutlives ==
  \A c \in Child :
    /\ Cardinality(Owners(c)) <= 1
    /\ Owners(c) = {} /\ ~InHand(c) =>
         /\ process[c] \in {"none", "reaped"}
         /\ \A s \in Stream : readEnd[c][s] \in {"none", "closed"}
         /\ \A s \in Stream : holders[c][s] = {}

\* A child that writes gets its output off, or ends, though the program may
\* never look at it: neither stream waits for the other.
WritesGoThrough ==
  \A c \in Child : writing[c] # "nothing" ~> writing[c] = "nothing"

\* A start that fails and a destructor come to an end, and so does a wait for a
\* child that exits or has been killed.
CallsReturn ==
  \A c \in Child :
    InHand(c) /\ (thread.object = NoObject \/ c \in signalled \/ Ended(c)) ~> ~InHand(c)
=============================================================================
