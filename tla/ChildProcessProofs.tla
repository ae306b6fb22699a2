------------------------- MODULE ChildProcessProofs -------------------------
(***************************************************************************)
(* Proofs about ChildProcess: what wait() leaves in the capture buffers,   *)
(* and that no process, pipe end or reader outlives its object, for any    *)
(* number of objects and children, any output and any bounds.              *)
(***************************************************************************)
EXTENDS ChildProcess, FiniteSetTheorems, TLAPS

-----------------------------------------------------------------------------
(* The invariant                                                           *)

Starts == {"piped", "forked", "starting", "halfway"}

\* The thread has one child in hand or none. One that it starts has no object
\* yet, one that it waits for has it still, one that it releases has none.
Hands ==
  /\ thread.at = "idle" => thread = Idle
  /\ thread.at # "idle" => thread.pid \in Child
  /\ thread.at \in Starts => /\ thread.object \in Object
                             /\ object[thread.object].pid = NoChild
                             /\ \A o \in Object : object[o].pid # thread.pid
  /\ thread.at \in {"reap", "join"} =>
       \/ thread.object = NoObject /\ \A o \in Object : object[o].pid # thread.pid
       \/ /\ thread.object \in Object
          /\ object[thread.object] = [pid |-> thread.pid, waited |-> FALSE]
  /\ \A o, p \in Object : object[o].pid = object[p].pid /\ object[o].pid # NoChild => o = p
  /\ \A o \in Object : object[o].waited => object[o].pid # NoChild

Owned(c) == \E o \in Object : object[o].pid = c
Awaited(c) == \E o \in Object : object[o].pid = c /\ object[o].waited
Loose(c) == ~Owned(c) /\ ~InHand(c)

\* How far a child has got, by whose it is.
Life(c) ==
  /\ InHand(c) /\ thread.at = "piped" => process[c] = "pipes"
  /\ InHand(c) /\ thread.at \in {"forked", "starting", "halfway", "reap"}
       => process[c] \in {"running", "zombie"}
  /\ InHand(c) /\ thread.at = "join" => process[c] = "reaped"
  /\ Owned(c) /\ Awaited(c) => process[c] = "reaped" /\ ~InHand(c)
  /\ Owned(c) /\ ~Awaited(c) /\ ~InHand(c) => process[c] \in {"running", "zombie"}
  /\ Loose(c) => process[c] \in {"none", "reaped"}
  /\ process[c] = "none" => \A s \in Stream : readEnd[c][s] = "none"

\* Who holds the write ends of a child's pipes.
Holding(c) ==
  (IF process[c] = "running" THEN {c} ELSE {}) \cup
  (IF InHand(c) /\ thread.at \in {"piped", "forked"} THEN {Parent} ELSE {})

\* Who has the read ends, by whose the child is.
Ends(c) ==
  /\ \A s \in Stream : holders[c][s] = Holding(c)
  /\ InHand(c) /\ thread.at \in {"piped", "forked", "starting"}
       => \A s \in Stream : readEnd[c][s] = "object"
  /\ InHand(c) /\ thread.at = "halfway"
       => readEnd[c]["out"] \in {"reader", "closed"} /\ readEnd[c]["err"] = "object"
  /\ Owned(c) => \A s \in Stream : readEnd[c][s] \in {"reader", "closed"}
  /\ Awaited(c) => \A s \in Stream : readEnd[c][s] = "closed"
  /\ Loose(c) => \A s \in Stream : readEnd[c][s] \in {"none", "closed"}

\* Whose output will be looked at.
Cared(c) == Owned(c) \/ (InHand(c) /\ thread.object # NoObject)

\* A reader that has ended has left nothing behind.
Drained(c) ==
  \A s \in Stream : readEnd[c][s] = "closed" /\ Cared(c) =>
    /\ process[c] \in {"zombie", "reaped"} /\ pipe[c][s] = 0
    /\ capture[c][s].marked = capture[c][s].truncated

\* The buffer has what was taken out of the pipe, up to the bound.
Accounted(c) ==
  \A s \in Stream :
    /\ pipe[c][s] <= written[c][s]
    /\ capture[c][s].kept = Smaller(written[c][s] - pipe[c][s], MaxCapture)
    /\ capture[c][s].truncated <=> written[c][s] - pipe[c][s] > MaxCapture

Safe(c) == Life(c) /\ Ends(c) /\ Drained(c)

Inv == TypeOK /\ Hands /\ \A c \in Child : Safe(c) /\ Accounted(c)

\* There is no child at first.
LEMMA InvInit == Init => Inv
<1> SUFFICES ASSUME Init PROVE Inv
  OBVIOUS
<1>1. TypeOK
  BY ChildProcessAssumption
     DEF Init, TypeOK, Fresh, Idle, NoObject, NoChild, Nothing, Stream, Parent
<1>2. NoChild \notin Child
  BY ChildProcessAssumption DEF NoChild
<1>3. Hands
  BY DEF Init, Hands, Fresh, Idle, Starts
<1>4. ASSUME NEW c \in Child
      PROVE  Safe(c) /\ Accounted(c)
  <2>1. Loose(c) /\ ~Owned(c) /\ ~Awaited(c) /\ ~InHand(c) /\ ~Cared(c)
    BY <1>2 DEF Init, Loose, Owned, Awaited, InHand, Cared, Fresh, Idle
  <2>2. Life(c) /\ Drained(c)
    BY <2>1 DEF Init, Life, Drained
  <2>3. Ends(c)
    BY <2>1 DEF Init, Ends, Holding
  <2>4. Accounted(c)
    <3>1. ASSUME NEW s \in Stream
          PROVE  /\ pipe[c][s] = 0 /\ written[c][s] = 0 /\ capture[c][s].kept = 0
                 /\ ~capture[c][s].truncated
      BY DEF Init, Nothing
    <3>2. 0 <= 0 /\ Smaller(0 - 0, MaxCapture) = 0 /\ ~(0 - 0 > MaxCapture)
      BY ChildProcessAssumption DEF Smaller
    <3> QED
      BY <3>1, <3>2 DEF Accounted
  <2> QED
    BY <2>2, <2>3, <2>4 DEF Safe
<1> QED
  BY <1>1, <1>3, <1>4 DEF Inv

\* What the invariant implies.
LEMMA InvImplies == Inv => CaptureExact /\ NothingOutlives
<1> SUFFICES ASSUME Inv PROVE CaptureExact /\ NothingOutlives
  OBVIOUS
<1>1. NoChild \notin Child
  BY ChildProcessAssumption DEF NoChild
<1>2. ASSUME NEW o \in Object, object[o].waited, NEW s \in Stream
      PROVE  LET all == written[object[o].pid][s]
                 got == capture[object[o].pid][s]
             IN  got.kept = Smaller(all, MaxCapture) /\ got.marked = (all > MaxCapture)
  <2> DEFINE c == object[o].pid
  <2>1. c \in Child
    BY <1>2 DEF Inv, Hands, TypeOK
  <2>2. Owned(c) /\ Awaited(c) /\ Cared(c)
    BY <1>2 DEF Owned, Awaited, Cared
  <2>3. Safe(c) /\ Accounted(c)
    BY <2>1 DEF Inv
  <2>4. pipe[c][s] = 0 /\ capture[c][s].marked = capture[c][s].truncated
    BY <2>2, <2>3 DEF Safe, Ends, Drained
  <2>5. written[c][s] \in Nat /\ capture[c][s].marked \in BOOLEAN
    BY <2>1 DEF Inv, TypeOK
  <2>6. /\ capture[c][s].kept = Smaller(written[c][s] - pipe[c][s], MaxCapture)
        /\ capture[c][s].truncated <=> written[c][s] - pipe[c][s] > MaxCapture
    BY <2>3 DEF Accounted
  <2>7. written[c][s] - pipe[c][s] = written[c][s]
    BY <2>4, <2>5
  <2>8. capture[c][s].marked <=> written[c][s] > MaxCapture
    BY <2>4, <2>6, <2>7
  <2>9. capture[c][s].marked = (written[c][s] > MaxCapture)
    BY <2>5, <2>8
  <2> QED
    BY <2>6, <2>7, <2>9
<1>3. CaptureExact
  BY <1>2 DEF CaptureExact
<1>4. ASSUME NEW c \in Child
      PROVE  Cardinality(Owners(c)) <= 1
  <2>1. CASE Owners(c) = {}
    BY <2>1, FS_EmptySet
  <2>2. CASE Owners(c) # {}
    <3>1. PICK o \in Object : object[o].pid = c
      BY <2>2 DEF Owners
    <3>2. Owners(c) = {o}
      BY <1>1, <3>1 DEF Owners, Inv, Hands
    <3> QED
      <4>1. Cardinality({o}) = 1
        BY FS_Singleton
      <4> QED
        BY <3>2, <4>1
  <2> QED
    BY <2>1, <2>2
<1>5. ASSUME NEW c \in Child, Owners(c) = {}, ~InHand(c)
      PROVE  /\ process[c] \in {"none", "reaped"}
             /\ \A s \in Stream : readEnd[c][s] \in {"none", "closed"}
             /\ \A s \in Stream : holders[c][s] = {}
  <2>1. Loose(c)
    BY <1>5 DEF Loose, Owned, Owners
  <2>2. Life(c) /\ Ends(c)
    BY DEF Inv, Safe
  <2> QED
    BY <1>5, <2>1, <2>2 DEF Life, Ends, Holding
<1>6. NothingOutlives
  BY <1>4, <1>5 DEF NothingOutlives
<1> QED
  BY <1>3, <1>6

-----------------------------------------------------------------------------
(* Types                                                                   *)

\* A child has a pid that no object without one has.
LEMMA Pids == NoChild \notin Child /\ Parent = NoChild /\ NoObject \notin Object
BY ChildProcessAssumption DEF NoChild, Parent

\* Reading into a buffer.
LEMMA Buffered ==
  ASSUME NEW buffer \in [kept : 0..MaxCapture, truncated : BOOLEAN, marked : BOOLEAN],
         NEW taken \in Nat, NEW size \in Nat \ {0},
         buffer.kept = Smaller(taken, MaxCapture),
         buffer.truncated <=> taken > MaxCapture
  PROVE  /\ Appended(buffer, size) \in [kept : 0..MaxCapture, truncated : BOOLEAN, marked : BOOLEAN]
         /\ Appended(buffer, size).kept = Smaller(taken + size, MaxCapture)
         /\ Appended(buffer, size).truncated <=> taken + size > MaxCapture
         /\ Appended(buffer, size).marked = buffer.marked
<1> DEFINE room == MaxCapture - buffer.kept
<1>1. MaxCapture \in Nat /\ buffer.kept \in 0..MaxCapture /\ room \in 0..MaxCapture
  BY ChildProcessAssumption
<1>2. /\ Appended(buffer, size).kept = buffer.kept + Smaller(size, room)
      /\ Appended(buffer, size).truncated <=> buffer.truncated \/ Cut(size, room)
      /\ Appended(buffer, size).marked = buffer.marked
  BY DEF Appended
<1>3. /\ buffer.kept + Smaller(size, room) = Smaller(taken + size, MaxCapture)
      /\ buffer.kept + Smaller(size, room) \in 0..MaxCapture
  BY <1>1 DEF Smaller
<1>4. (taken > MaxCapture \/ size > room) <=> taken + size > MaxCapture
  BY <1>1 DEF Smaller
<1>5. (buffer.truncated \/ Cut(size, room)) <=> taken + size > MaxCapture
  BY <1>4 DEF Cut
<1>6. Appended(buffer, size) \in [kept : 0..MaxCapture, truncated : BOOLEAN, marked : BOOLEAN]
  <2> DEFINE kept == buffer.kept + Smaller(size, room)
             cut == buffer.truncated \/ Cut(size, room)
  <2>1. Appended(buffer, size) = [buffer EXCEPT !.kept = kept, !.truncated = cut]
    BY DEF Appended
  <2>2. kept \in 0..MaxCapture
    BY <1>3
  <2>3. cut \in BOOLEAN
    OBVIOUS
  <2> HIDE DEF kept, cut
  <2>4. [buffer EXCEPT !.kept = kept, !.truncated = cut]
          \in [kept : 0..MaxCapture, truncated : BOOLEAN, marked : BOOLEAN]
    BY <2>2, <2>3
  <2> QED
    BY <2>1, <2>4
<1> QED
  BY <1>2, <1>3, <1>5, <1>6

Place == {"idle", "piped", "forked", "starting", "halfway", "reap", "join"}
Whereabouts == [at : Place, object : Object \cup {NoObject}, pid : Child \cup {NoChild}]
Owner == [pid : Child \cup {NoChild}, waited : BOOLEAN]
Status == {"none", "pipes", "running", "zombie", "reaped"}
Possession == {"none", "object", "reader", "closed"}
Held == [Child -> [Stream -> SUBSET (Child \cup {Parent})]]

\* The types, under the names of this module.
Typed ==
  /\ object \in [Object -> Owner] /\ thread \in Whereabouts
  /\ process \in [Child -> Status] /\ signalled \subseteq Child
  /\ writing \in [Child -> Stream \cup {"nothing"}]
  /\ pipe \in [Child -> [Stream -> 0..PipeCapacity]]
  /\ holders \in Held
  /\ readEnd \in [Child -> [Stream -> Possession]]
  /\ capture \in [Child -> [Stream -> [kept : 0..MaxCapture, truncated : BOOLEAN,
                                       marked : BOOLEAN]]]
  /\ written \in [Child -> [Stream -> Nat]]

\* Typed is the type invariant, now and after a step.
LEMMA Types == (TypeOK <=> Typed) /\ (TypeOK' <=> Typed')
BY DEF Typed, TypeOK, Owner, Whereabouts, Place, Status, Held, Possession

\* The steps of a start keep the types.
LEMMA TypeStart ==
  ASSUME Inv, Starting \/ (\E o \in Object, c \in Child : CreatePipes(o, c))
  PROVE  TypeOK'
<1>0. TypeOK /\ Hands
  BY DEF Inv
<1>a. Idle \in Whereabouts
  BY DEF Idle, Whereabouts, Place
<1>b. ASSUME NEW place \in Place, Go(place)
      PROVE  thread' \in Whereabouts
  BY <1>0, <1>b, Types DEF Typed, Go, Whereabouts
<1>c. ASSUME thread.at \in Starts
      PROVE  thread.pid \in Child /\ thread.object \in Object
  BY <1>0, <1>c DEF Hands, Starts
<1>1. ASSUME NEW o \in Object, NEW c \in Child, CreatePipes(o, c)
      PROVE  TypeOK'
  <2>1. thread' \in Whereabouts
    BY <1>1 DEF CreatePipes, Whereabouts, Place, Idle
  <2>2. process' \in [Child -> Status]
    BY <1>0, <1>1, Types DEF Typed, CreatePipes, Status
  <2>3. holders' \in Held
    BY <1>0, <1>1, Types DEF Typed, CreatePipes, Held
  <2>4. readEnd' \in [Child -> [Stream -> Possession]]
    BY <1>0, <1>1, Types DEF Typed, CreatePipes, Possession
  <2> QED
    BY <1>0, <1>1, <2>1, <2>2, <2>3, <2>4, Types DEF Typed, CreatePipes
<1>2. CASE Fork
  <2>1. thread' \in Whereabouts
    BY <1>b, <1>2 DEF Fork, Place
  <2>2. process' \in [Child -> Status]
    BY <1>0, <1>2, Types DEF Typed, Fork, Status
  <2>3. holders' \in Held
    <3>1. thread.pid \in Child
      BY <1>c, <1>2 DEF Fork, Starts
    <3> QED
      BY <1>0, <1>2, <3>1, Types DEF Typed, Fork, Inherited, Held
  <2> QED
    BY <1>0, <1>2, <2>1, <2>2, <2>3, Types DEF Typed, Fork
<1>3. CASE ForkFails
  <2>2. process' \in [Child -> Status]
    BY <1>0, <1>3, Types DEF Typed, ForkFails, Status
  <2>3. holders' \in Held
    BY <1>0, <1>3, Types DEF Typed, ForkFails, Unheld, Held
  <2>4. readEnd' \in [Child -> [Stream -> Possession]]
    BY <1>0, <1>3, Types DEF Typed, ForkFails, Possession
  <2> QED
    BY <1>0, <1>a, <1>3, <2>2, <2>3, <2>4, Types DEF Typed, ForkFails
<1>4. CASE DropWriteEnds
  <2>1. thread' \in Whereabouts
    BY <1>b, <1>4 DEF DropWriteEnds, Place
  <2>3. holders' \in Held
    <3>1. thread.pid \in Child
      BY <1>c, <1>4 DEF DropWriteEnds, Starts
    <3>2. [s \in Stream |-> holders[thread.pid][s] \ {Parent}]
             \in [Stream -> SUBSET (Child \cup {Parent})]
      BY <1>0, <3>1, Types DEF Typed, Held
    <3> QED
      BY <1>0, <1>4, <3>2, Types DEF Typed, DropWriteEnds, WriteEndsDropped, Held
  <2> QED
    BY <1>0, <1>4, <2>1, <2>3, Types DEF Typed, DropWriteEnds
<1>5. CASE StartOutReader
  <2>1. thread' \in Whereabouts
    BY <1>b, <1>5 DEF StartOutReader, Place
  <2>4. readEnd' \in [Child -> [Stream -> Possession]]
    BY <1>0, <1>5, Types DEF Typed, StartOutReader, Possession
  <2> QED
    BY <1>0, <1>5, <2>1, <2>4, Types DEF Typed, StartOutReader, system
<1>6. CASE StartErrReader
  <2>4. readEnd' \in [Child -> [Stream -> Possession]]
    BY <1>0, <1>6, Types DEF Typed, StartErrReader, Possession
  <2>5. object' \in [Object -> Owner]
    <3>1. [pid |-> thread.pid, waited |-> FALSE] \in Owner
      BY <1>c, <1>6 DEF StartErrReader, Starts, Owner
    <3> QED
      BY <1>0, <1>6, <3>1, Types DEF Typed, StartErrReader
  <2> QED
    BY <1>0, <1>a, <1>6, <2>4, <2>5, Types DEF Typed, StartErrReader, system
<1>7. CASE ReaderFails
  <2>1. thread' \in Whereabouts
    BY <1>0, <1>7, Types DEF Typed, ReaderFails, Whereabouts, Place
  <2>2. signalled' \subseteq Child
    BY <1>0, <1>c, <1>7, Types DEF Typed, ReaderFails, Starts
  <2> QED
    BY <1>0, <1>7, <2>1, <2>2, Types DEF Typed, ReaderFails
<1> QED
  BY <1>1, <1>2, <1>3, <1>4, <1>5, <1>6, <1>7 DEF Starting

\* A child that is given up is killed if it was not waited for.
LEMMA TypeRelease ==
  ASSUME TypeOK, NEW old \in Owner, Release(old)
  PROVE  signalled' \subseteq Child /\ thread' \in Whereabouts
<1>1. signalled' \subseteq Child
  BY Types DEF Typed, Release, KilledFirst, Owner
<1>2. thread' \in Whereabouts
  <2>1. old.pid \in Child \cup {NoChild}
    BY DEF Owner
  <2>2. (IF old.waited THEN "join" ELSE "reap") \in Place
    BY DEF Place
  <2> QED
    BY <2>1, <2>2 DEF Release, Whereabouts
<1> QED
  BY <1>1, <1>2

\* The calls on an object keep the types, and so does what follows on them.
LEMMA TypeCall ==
  ASSUME Inv,
         \/ \E o \in Object : Kill(o) \/ Wait(o) \/ Destroy(o)
         \/ \E o, from \in Object : Move(o, from)
         \/ Reap \/ Join
  PROVE  TypeOK'
<1>0. TypeOK /\ Hands
  BY DEF Inv
<1>a. Fresh \in Owner /\ Idle \in Whereabouts
  BY DEF Fresh, Owner, Idle, Whereabouts, Place
<1>1. ASSUME NEW o \in Object, Kill(o)
      PROVE  TypeOK'
  <2>1. object[o].pid \in Child
    BY <1>0, <1>1, Types DEF Typed, Kill, Killable, Owner
  <2> QED
    BY <1>0, <1>1, <2>1, Types DEF Typed, Kill
<1>2. ASSUME NEW o \in Object, Wait(o)
      PROVE  TypeOK'
  <2>1. object[o].pid \in Child
    BY <1>0, <1>2, Types DEF Typed, Wait, Killable, Owner
  <2>2. thread' \in Whereabouts
    BY <1>2, <2>1 DEF Wait, Whereabouts, Place
  <2> QED
    BY <1>0, <1>2, <2>2, Types DEF Typed, Wait, system
<1>3. ASSUME NEW o \in Object, Destroy(o)
      PROVE  TypeOK'
  <2>1. object[o] \in Owner /\ object' \in [Object -> Owner]
    BY <1>0, <1>a, <1>3, Types DEF Typed, Destroy
  <2>2. signalled' \subseteq Child /\ thread' \in Whereabouts
    BY <1>0, <1>3, <2>1, TypeRelease DEF Destroy
  <2> QED
    BY <1>0, <1>3, <2>1, <2>2, Types DEF Typed, Destroy
<1>4. ASSUME NEW o \in Object, NEW from \in Object, Move(o, from)
      PROVE  TypeOK'
  <2>1. object[o] \in Owner /\ object' \in [Object -> Owner]
    BY <1>0, <1>a, <1>4, Types DEF Typed, Move
  <2>2. signalled' \subseteq Child /\ thread' \in Whereabouts
    BY <1>0, <1>4, <2>1, TypeRelease, Types DEF Typed, Move, Displaced
  <2> QED
    BY <1>0, <1>4, <2>1, <2>2, Types DEF Typed, Move
<1>5. CASE Reap
  <2>1. thread' \in Whereabouts
    BY <1>0, <1>5, Types DEF Typed, Reap, Go, Whereabouts, Place
  <2>2. process' \in [Child -> Status]
    BY <1>0, <1>5, Types DEF Typed, Reap, Status
  <2> QED
    BY <1>0, <1>5, <2>1, <2>2, Types DEF Typed, Reap
<1>6. CASE Join
  <2>1. object' \in [Object -> Owner]
    <3>1. CASE thread.object = NoObject
      BY <1>0, <1>6, <3>1, Types DEF Typed, Join
    <3>2. CASE thread.object # NoObject
      <4>1. thread.object \in Object
        BY <1>0, <3>2, Types DEF Typed, Whereabouts
      <4>2. [object[thread.object] EXCEPT !.waited = TRUE] \in Owner
        <5>1. object[thread.object] \in Owner
          BY <1>0, <4>1, Types DEF Typed
        <5> QED
          BY <5>1 DEF Owner
      <4>3. object' = [object EXCEPT ![thread.object] =
                         [object[thread.object] EXCEPT !.waited = TRUE]]
        BY <1>6, <3>2 DEF Join
      <4> QED
        BY <1>0, <4>2, <4>3, Types DEF Typed
    <3> QED
      BY <3>1, <3>2
  <2>2. readEnd' \in [Child -> [Stream -> Possession]]
    <3>1. thread.pid \in Child
      BY <1>0, <1>6 DEF Join, Hands
    <3>2. [s \in Stream |-> IF readEnd[thread.pid][s] = "object"
                              THEN "closed" ELSE readEnd[thread.pid][s]] \in [Stream -> Possession]
      BY <1>0, <3>1, Types DEF Typed, Possession
    <3> QED
      BY <1>0, <1>6, <3>2, Types DEF Typed, Join
  <2> QED
    BY <1>0, <1>a, <1>6, <2>1, <2>2, Types DEF Typed, Join, system
<1> QED
  BY <1>1, <1>2, <1>3, <1>4, <1>5, <1>6

\* Readers and children keep the types.
LEMMA TypeRun ==
  ASSUME Inv, NEW c \in Child,
         \/ \E s \in Stream : Reader(c, s) \/ BeginWrite(c, s)
         \/ Write(c) \/ Exit(c) \/ Die(c)
  PROVE  TypeOK'
<1>0. TypeOK /\ Accounted(c)
  BY DEF Inv
<1>1. ASSUME NEW s \in Stream, Read(c, s)
      PROVE  TypeOK'
  <2>1. PICK size \in 1..pipe[c][s] :
          /\ pipe' = [pipe EXCEPT ![c][s] = pipe[c][s] - size]
          /\ capture' = [capture EXCEPT ![c][s] = Appended(capture[c][s], size)]
    BY <1>1 DEF Read
  <2>2. /\ pipe[c][s] \in 0..PipeCapacity /\ written[c][s] \in Nat /\ PipeCapacity \in Nat
        /\ capture[c][s] \in [kept : 0..MaxCapture, truncated : BOOLEAN, marked : BOOLEAN]
    BY <1>0, ChildProcessAssumption DEF TypeOK
  <2>3. /\ written[c][s] - pipe[c][s] \in Nat /\ size \in Nat \ {0}
        /\ pipe[c][s] - size \in 0..PipeCapacity
    BY <1>0, <2>1, <2>2 DEF Accounted
  <2>4. Appended(capture[c][s], size)
          \in [kept : 0..MaxCapture, truncated : BOOLEAN, marked : BOOLEAN]
    BY <1>0, <2>2, <2>3, Buffered DEF Accounted
  <2>5. capture' \in
          [Child -> [Stream -> [kept : 0..MaxCapture, truncated : BOOLEAN, marked : BOOLEAN]]]
    BY <1>0, <2>1, <2>4 DEF TypeOK
  <2>6. pipe' \in [Child -> [Stream -> 0..PipeCapacity]]
    BY <1>0, <2>1, <2>3 DEF TypeOK
  <2> QED
    BY <1>0, <1>1, <2>5, <2>6 DEF Read, TypeOK
<1>2. ASSUME NEW s \in Stream, ReadEnd(c, s)
      PROVE  TypeOK'
  <2>1. capture' \in
          [Child -> [Stream -> [kept : 0..MaxCapture, truncated : BOOLEAN, marked : BOOLEAN]]]
    <3>1. capture[c][s] \in [kept : 0..MaxCapture, truncated : BOOLEAN, marked : BOOLEAN]
      BY <1>0 DEF TypeOK
    <3>2. [capture[c][s] EXCEPT !.marked = capture[c][s].truncated]
            \in [kept : 0..MaxCapture, truncated : BOOLEAN, marked : BOOLEAN]
      BY <3>1
    <3>3. capture' = [capture EXCEPT ![c] = [capture[c] EXCEPT ![s] =
                        [capture[c][s] EXCEPT !.marked = capture[c][s].truncated]]]
      BY <1>2 DEF ReadEnd
    <3> QED
      BY <1>0, <3>2, <3>3 DEF TypeOK
  <2>2. readEnd' \in [Child -> [Stream -> {"none", "object", "reader", "closed"}]]
    BY <1>0, <1>2 DEF ReadEnd, TypeOK
  <2> QED
    BY <1>0, <1>2, <2>1, <2>2 DEF ReadEnd, TypeOK, system
<1>3. ASSUME NEW s \in Stream, BeginWrite(c, s)
      PROVE  TypeOK'
  BY <1>0, <1>3 DEF BeginWrite, TypeOK
<1>4. CASE Write(c)
  <2>1. PICK s \in Stream :
          /\ pipe[c][s] < PipeCapacity
          /\ pipe' = [pipe EXCEPT ![c][s] = pipe[c][s] + 1]
          /\ written' = [written EXCEPT ![c][s] = written[c][s] + 1]
          /\ writing' = [writing EXCEPT ![c] = "nothing"]
          /\ UNCHANGED <<object, thread, process, signalled, holders, readEnd, capture>>
    BY <1>4 DEF Write
  <2>2. pipe[c][s] + 1 \in 0..PipeCapacity
    BY <1>0, <2>1, ChildProcessAssumption DEF TypeOK
  <2>3. pipe' \in [Child -> [Stream -> 0..PipeCapacity]]
    BY <1>0, <2>1, <2>2 DEF TypeOK
  <2>4. written' \in [Child -> [Stream -> Nat]]
    BY <1>0, <2>1 DEF TypeOK
  <2> QED
    BY <1>0, <2>1, <2>3, <2>4 DEF TypeOK
<1>5. CASE Exit(c) \/ Die(c)
  <2>1. End(c)
    BY <1>5 DEF Exit, Die
  <2>2. process' \in [Child -> Status]
    BY <1>0, <2>1, Types DEF Typed, End, Status
  <2>3. holders' \in Held
    BY <1>0, <2>1, Types DEF Typed, End, Held
  <2> QED
    BY <1>0, <2>1, <2>2, <2>3, Types DEF Typed, End
<1> QED
  BY <1>1, <1>2, <1>3, <1>4, <1>5 DEF Reader
-----------------------------------------------------------------------------
(* Whose a child is                                                        *)

\* An object with a child is the only one that has it.
LEMMA TheOwner ==
  ASSUME Hands, NEW o \in Object, NEW d \in Child, object[o].pid = d
  PROVE  /\ Owned(d) /\ (Awaited(d) <=> object[o].waited)
         /\ \A p \in Object : object[p].pid = d => p = o
BY Pids DEF Hands, Owned, Awaited

\* What the thread has in hand while it is idle, and while it is not.
LEMMA HandsNow ==
  ASSUME Inv
  PROVE  /\ thread = Idle => \A d \in Child : ~InHand(d)
         /\ thread.at # "idle" => thread.pid \in Child /\ InHand(thread.pid)
         /\ thread.at \in Starts => /\ ~Owned(thread.pid) /\ thread.object \in Object
                                    /\ thread.object # NoObject
         /\ \A d \in Child : process[d] = "none" => ~Owned(d) /\ ~InHand(d)
<1>1. Hands /\ \A d \in Child : Life(d)
  BY DEF Inv, Safe
<1>2. thread = Idle => \A d \in Child : ~InHand(d)
  BY Pids DEF Idle, InHand
<1>3. thread.at # "idle" => thread.pid \in Child /\ InHand(thread.pid)
  BY <1>1 DEF Hands, InHand
<1>4. thread.at \in Starts => /\ ~Owned(thread.pid) /\ thread.object \in Object
                              /\ thread.object # NoObject
  BY <1>1, Pids DEF Hands, Owned
<1>5. ASSUME NEW d \in Child, process[d] = "none"
      PROVE  ~Owned(d) /\ ~InHand(d)
  <2>1. ~InHand(d)
    <3>1. ASSUME InHand(d)
          PROVE  FALSE
      <4>1. thread.at # "idle"
        BY <1>1, <3>1, Pids DEF Hands, InHand, Idle
      <4>2. thread.at \in Place
        BY Types DEF Inv, Typed, Whereabouts
      <4> QED
        BY <1>1, <1>5, <3>1, <4>1, <4>2 DEF Life, Place
    <3> QED
      BY <3>1
  <2> QED
    BY <1>1, <1>5, <2>1 DEF Life
<1> QED
  BY <1>2, <1>3, <1>4, <1>5

\* Steps that leave the objects alone and the thread with its child or idle.
LEMMA HandsGoOn ==
  ASSUME Inv, NEW place \in Place, Go(place), UNCHANGED object,
         \/ thread.at \in Starts /\ place \in Starts
         \/ thread.at = "reap" /\ place = "join"
  PROVE  Hands'
<1>0. Hands /\ thread \in Whereabouts
  BY Types DEF Inv, Typed
<1>1. /\ thread'.at = place /\ thread'.object = thread.object /\ thread'.pid = thread.pid
      /\ thread.at # "idle"
  BY <1>0 DEF Go, Whereabouts, Starts
<1> QED
  BY <1>0, <1>1 DEF Hands, Starts

\* The thread is idle again, and the objects are as they were.
LEMMA HandsEmpty ==
  ASSUME Inv, thread' = Idle, UNCHANGED object
  PROVE  Hands'
BY DEF Inv, Hands, Idle, Starts

\* A join leaves every child with its object, and marks the one that waited.
LEMMA AfterJoin ==
  ASSUME Inv, Join
  PROVE  /\ \A p \in Object : object'[p].pid = object[p].pid
         /\ \A p \in Object : object'[p].waited <=> object[p].waited \/ p = thread.object
         /\ thread.object # NoObject => /\ thread.object \in Object
                                        /\ object[thread.object].pid = thread.pid
         /\ thread.pid \in Child
<1>0. /\ Hands /\ object \in [Object -> Owner] /\ thread \in Whereabouts
      /\ thread.at = "join"
  BY Types DEF Inv, Typed, Join
<1>1. thread.pid \in Child
  BY <1>0 DEF Hands
<1>2. CASE thread.object = NoObject
  BY <1>0, <1>1, <1>2, Pids DEF Join
<1>3. CASE thread.object # NoObject
  <2> DEFINE o == thread.object
             was == object[thread.object]
  <2>1. o \in Object /\ was \in Owner
    BY <1>0, <1>3 DEF Whereabouts
  <2>2. was.pid = thread.pid
    BY <1>0, <1>3 DEF Hands
  <2>3. object' = [object EXCEPT ![o] = [was EXCEPT !.waited = TRUE]]
    BY <1>3 DEF Join
  <2>4. /\ [was EXCEPT !.waited = TRUE].pid = was.pid
        /\ [was EXCEPT !.waited = TRUE].waited = TRUE
    BY <2>1 DEF Owner
  <2>5. object'[o].pid = was.pid /\ object'[o].waited = TRUE
    BY <1>0, <2>1, <2>3, <2>4
  <2>6. \A p \in Object : p # o => object'[p] = object[p]
    BY <1>0, <2>1, <2>3
  <2> QED
    BY <1>1, <2>1, <2>2, <2>5, <2>6
<1> QED
  BY <1>2, <1>3

\* The steps that take a child in hand, or give it to an object.
LEMMA HandsNext ==
  ASSUME Inv, Next
  PROVE  Hands'
<1>0. TypeOK /\ Hands /\ object \in [Object -> Owner] /\ thread \in Whereabouts
  BY Types DEF Inv, Typed
<1>a. ASSUME UNCHANGED <<object, thread>>
      PROVE  Hands'
  BY <1>0, <1>a DEF Hands
<1>1. ASSUME NEW o \in Object, NEW c \in Child, CreatePipes(o, c)
      PROVE  Hands'
  <2>1. ~Owned(c)
    BY <1>1, HandsNow DEF CreatePipes
  <2>2. /\ thread'.at = "piped" /\ thread'.object = o /\ thread'.pid = c
        /\ object' = object /\ object[o].pid = NoChild
    BY <1>1 DEF CreatePipes, Idle
  <2> QED
    BY <1>0, <2>1, <2>2 DEF Hands, Starts, Owned
<1>2. CASE Fork \/ DropWriteEnds \/ StartOutReader
  BY <1>2, HandsGoOn DEF Fork, DropWriteEnds, StartOutReader, Place, Starts
<1>3. CASE ForkFails
  BY <1>3, HandsEmpty DEF ForkFails
<1>4. CASE StartErrReader
  <2> DEFINE o == thread.object
             c == thread.pid
  <2>1. o \in Object /\ c \in Child /\ object[o].pid = NoChild
        /\ \A p \in Object : object[p].pid # c
    BY <1>0, <1>4 DEF StartErrReader, Hands, Starts
  <2>2. /\ object'[o] = [pid |-> c, waited |-> FALSE]
        /\ \A p \in Object : p # o => object'[p] = object[p]
    BY <1>0, <1>4, <2>1 DEF StartErrReader
  <2>3. \A p, q \in Object :
          object'[p].pid = object'[q].pid /\ object'[p].pid # NoChild => p = q
    BY <1>0, <2>1, <2>2 DEF Hands
  <2>4. \A p \in Object : object'[p].waited => object'[p].pid # NoChild
    BY <1>0, <2>1, <2>2 DEF Hands
  <2>5. thread' = Idle
    BY <1>4 DEF StartErrReader
  <2> QED
    BY <2>3, <2>4, <2>5 DEF Hands, Idle, Starts
<1>5. CASE ReaderFails
  <2>1. /\ thread'.at = "reap" /\ thread'.object = NoObject /\ thread'.pid = thread.pid
        /\ thread.pid \in Child /\ \A o \in Object : object[o].pid # thread.pid
    BY <1>0, <1>5 DEF ReaderFails, Hands, Starts, Whereabouts
  <2> QED
    BY <1>0, <1>5, <2>1 DEF ReaderFails, Hands, Starts
<1>6. ASSUME NEW o \in Object, Kill(o) \/ Wait(o)
      PROVE  Hands'
  <2>1. CASE Kill(o)
    BY <1>a, <2>1 DEF Kill
  <2>2. CASE Wait(o)
    <3>1. object[o].pid \in Child /\ object[o] = [pid |-> object[o].pid, waited |-> FALSE]
      <4>1. object[o] \in Owner /\ object[o].pid # NoChild /\ ~object[o].waited
        BY <1>0, <2>2 DEF Wait, Killable
      <4>2. object[o].waited = FALSE
        BY <4>1 DEF Owner
      <4> QED
        BY <4>1, <4>2 DEF Owner
    <3>2. /\ thread'.at = "reap" /\ thread'.object = o /\ thread'.pid = object[o].pid
          /\ object' = object
      BY <2>2 DEF Wait
    <3> QED
      BY <1>0, <3>1, <3>2 DEF Hands, Starts
  <2> QED
    BY <1>6, <2>1, <2>2
<1>b. ASSUME NEW o \in Object, Release(object[o]),
             \A p \in Object : object'[p].pid # object[o].pid,
             \A p, q \in Object :
               object'[p].pid = object'[q].pid /\ object'[p].pid # NoChild => p = q,
             \A p \in Object : object'[p].waited => object'[p].pid # NoChild
      PROVE  Hands'
  <2>1. object[o].pid \in Child
    BY <1>0, <1>b DEF Release, Owner
  <2>2. thread'.at \in {"reap", "join"} /\ thread'.object = NoObject /\ thread'.pid = object[o].pid
    BY <1>b DEF Release
  <2> QED
    BY <1>b, <2>1, <2>2 DEF Hands, Starts
<1>7. ASSUME NEW o \in Object, Destroy(o)
      PROVE  Hands'
  <2>1. /\ object'[o] = Fresh /\ \A p \in Object : p # o => object'[p] = object[p]
        /\ object[o].pid # NoChild
    BY <1>0, <1>7 DEF Destroy, Release
  <2>2. /\ \A p \in Object : object'[p].pid # object[o].pid
        /\ \A p, q \in Object :
             object'[p].pid = object'[q].pid /\ object'[p].pid # NoChild => p = q
        /\ \A p \in Object : object'[p].waited => object'[p].pid # NoChild
    BY <1>0, <2>1 DEF Hands, Fresh
  <2> QED
    BY <1>7, <1>b, <2>2 DEF Destroy
<1>8. ASSUME NEW o \in Object, NEW from \in Object, Move(o, from)
      PROVE  Hands'
  <2>1. /\ object'[o] = object[from] /\ object'[from] = Fresh /\ o # from
        /\ \A p \in Object \ {o, from} : object'[p] = object[p]
    BY <1>0, <1>8 DEF Move
  <2>2. /\ \A p, q \in Object :
             object'[p].pid = object'[q].pid /\ object'[p].pid # NoChild => p = q
        /\ \A p \in Object : object'[p].waited => object'[p].pid # NoChild
    BY <1>0, <2>1 DEF Hands, Fresh
  <2>3. CASE Release(object[o])
    <3>1. \A p \in Object : object'[p].pid # object[o].pid
      BY <1>0, <2>1, <2>3 DEF Hands, Fresh, Release
    <3> QED
      BY <1>b, <2>2, <2>3, <3>1
  <2>4. CASE UNCHANGED thread
    BY <1>8, <2>2, <2>4 DEF Move, Hands, Idle, Starts
  <2> QED
    BY <1>8, <2>3, <2>4 DEF Move, Displaced
<1>9. CASE Reap
  BY <1>9, HandsGoOn DEF Reap, Place
<1>10. CASE Join
  <2>1. thread' = Idle
    BY <1>10 DEF Join
  <2>2. CASE thread.object = NoObject
    <3>1. UNCHANGED object
      BY <1>10, <2>2 DEF Join
    <3> QED
      BY <2>1, <3>1, HandsEmpty
  <2>3. CASE thread.object # NoObject
    <3>1. \A p \in Object : object'[p].waited => object'[p].pid # NoChild
      BY <1>0, <1>10, <2>3, Pids, AfterJoin DEF Hands
    <3> QED
      BY <1>0, <1>10, <2>1, <3>1, AfterJoin DEF Hands, Idle, Starts
  <2> QED
    BY <2>2, <2>3
<1>11. ASSUME NEW c \in Child, NEW s \in Stream, Reader(c, s) \/ BeginWrite(c, s)
       PROVE  Hands'
  BY <1>a, <1>11 DEF Reader, Read, ReadEnd, BeginWrite
<1>12. ASSUME NEW c \in Child, Write(c) \/ Exit(c) \/ Die(c)
       PROVE  Hands'
  BY <1>a, <1>12 DEF Write, Exit, Die, End
<1> QED
  BY <1>1, <1>2, <1>3, <1>4, <1>5, <1>6, <1>7, <1>8, <1>9, <1>10, <1>11, <1>12
     DEF Next, Operation, Starting

-----------------------------------------------------------------------------
(* How far a child has got                                                 *)

\* Nothing of the child is touched, and it stays whose it is.
SameChild(d) ==
  /\ process'[d] = process[d]
  /\ \A s \in Stream : /\ holders'[d][s] = holders[d][s] /\ readEnd'[d][s] = readEnd[d][s]
                       /\ pipe'[d][s] = pipe[d][s] /\ capture'[d][s] = capture[d][s]
SameOwner(d) == (Owned(d)' <=> Owned(d)) /\ (Awaited(d)' <=> Awaited(d))
SameHands(d) == (InHand(d)' <=> InHand(d)) /\ (InHand(d) => thread' = thread)

\* A child that nothing happens to is as safe as it was.
LEMMA SafeUndisturbed ==
  ASSUME NEW d \in Child, Safe(d), SameChild(d), SameOwner(d), SameHands(d)
  PROVE  Safe(d)'
<1>1. (Loose(d)' <=> Loose(d)) /\ (Cared(d)' <=> Cared(d))
  BY DEF SameOwner, SameHands, Loose, Cared
<1>2. Holding(d)' = Holding(d)
  BY DEF SameChild, SameHands, Holding
<1>3. Life(d)'
  BY <1>1 DEF Safe, Life, SameChild, SameOwner, SameHands
<1>4. Ends(d)'
  <2>1. readEnd'[d]["out"] = readEnd[d]["out"] /\ readEnd'[d]["err"] = readEnd[d]["err"]
    BY DEF SameChild, Stream
  <2> QED
    BY <1>1, <1>2, <2>1 DEF Safe, Ends, SameChild, SameOwner, SameHands
<1>5. Drained(d)'
  BY <1>1 DEF Safe, Drained, SameChild
<1> QED
  BY <1>3, <1>4, <1>5 DEF Safe

\* The objects are as they were.
LEMMA OwnersUndisturbed ==
  ASSUME UNCHANGED object
  PROVE  \A d \in Child : SameOwner(d)
BY DEF SameOwner, Owned, Awaited

\* Nothing was read or written.
LEMMA AccountedUndisturbed ==
  ASSUME UNCHANGED <<pipe, capture, written>>, NEW d \in Child, Accounted(d)
  PROVE  Accounted(d)'
BY DEF Accounted

\* A start: the child is the thread's until it is the object's.
LEMMA SafeStart ==
  ASSUME Inv, Starting \/ (\E o \in Object, c \in Child : CreatePipes(o, c)),
         NEW d \in Child
  PROVE  Safe(d)'
<1>0. /\ Safe(d) /\ Life(d) /\ Ends(d) /\ Drained(d) /\ Hands
      /\ object \in [Object -> Owner] /\ thread \in Whereabouts
      /\ process \in [Child -> Status] /\ holders \in Held
      /\ readEnd \in [Child -> [Stream -> Possession]]
  BY Types DEF Inv, Safe, Typed
<1>1. ASSUME NEW o \in Object, NEW c \in Child, CreatePipes(o, c)
      PROVE  Safe(d)'
  <2>0. thread = Idle /\ thread'.pid = c /\ thread'.at = "piped" /\ process[c] = "none"
        /\ object' = object
    BY <1>1 DEF CreatePipes, Idle
  <2>1. CASE d # c
    <3>1. SameChild(d)
      <4>1. process'[d] = process[d] /\ holders'[d] = holders[d] /\ readEnd'[d] = readEnd[d]
        BY <1>0, <1>1, <2>1 DEF CreatePipes, Held
      <4>2. pipe' = pipe /\ capture' = capture
        BY <1>1 DEF CreatePipes
      <4> QED
        BY <4>1, <4>2 DEF SameChild
    <3>2. SameHands(d)
      BY <2>0, <2>1, HandsNow DEF SameHands, InHand
    <3> QED
      BY <1>0, <2>0, <3>1, <3>2, OwnersUndisturbed, SafeUndisturbed
  <2>2. CASE d = c
    <3>1. ~Owned(d)' /\ ~Awaited(d)' /\ InHand(d)' /\ ~Loose(d)'
      <4>1. ~Owned(d)
        BY <2>0, <2>2, HandsNow
      <4> QED
        BY <2>0, <2>2, <4>1 DEF Owned, Awaited, InHand, Loose
    <3>2. /\ process'[d] = "pipes"
          /\ \A s \in Stream : readEnd'[d][s] = "object" /\ holders'[d][s] = {Parent}
      BY <1>0, <1>1, <2>2 DEF CreatePipes, Held
    <3>3. Holding(d)' = {Parent}
      BY <2>0, <3>1, <3>2 DEF Holding
    <3>4. Life(d)'
      BY <2>0, <3>1, <3>2 DEF Life
    <3>5. Ends(d)'
      BY <2>0, <3>1, <3>2, <3>3 DEF Ends
    <3>6. Drained(d)'
      BY <3>2 DEF Drained
    <3> QED
      BY <3>4, <3>5, <3>6 DEF Safe
  <2> QED
    BY <2>1, <2>2
<1> DEFINE c == thread.pid
<1>a. ASSUME Starting
      PROVE  thread.at \in Starts /\ c \in Child /\ InHand(c) /\ ~Owned(c) /\ ~Awaited(c)
             /\ thread.object # NoObject
  <2>1. thread.at \in Starts
    BY <1>a DEF Starting, Fork, ForkFails, DropWriteEnds, StartOutReader, StartErrReader,
               ReaderFails, Starts
  <2>2. c \in Child /\ InHand(c)
    BY <1>0, <2>1 DEF Hands, Starts, InHand
  <2>3. ~Owned(c) /\ thread.object # NoObject
    BY <2>1, HandsNow
  <2> QED
    BY <2>1, <2>2, <2>3 DEF Owned, Awaited
<1>b. ASSUME Starting, d # c
      PROVE  SameHands(d) /\ ~InHand(d)
  <2>1. ~InHand(d)
    BY <1>b DEF InHand
  <2>2. thread'.pid \in {c, NoChild}
    <3>1. CASE ForkFails \/ StartErrReader
      BY <3>1 DEF ForkFails, StartErrReader, Idle
    <3>2. ASSUME NEW place, Go(place)
          PROVE  thread'.pid = c
      BY <1>0, <3>2 DEF Go, Whereabouts
    <3>3. CASE Fork \/ DropWriteEnds \/ StartOutReader
      BY <3>2, <3>3 DEF Fork, DropWriteEnds, StartOutReader
    <3>4. CASE ReaderFails
      BY <1>0, <3>4 DEF ReaderFails, Whereabouts
    <3> QED
      BY <1>b, <3>1, <3>3, <3>4 DEF Starting
  <2> QED
    BY <1>b, <2>1, <2>2, Pids DEF SameHands, InHand
<1>2. CASE Fork
  <2>0. /\ thread.at = "piped" /\ thread'.at = "forked" /\ thread'.pid = c /\ object' = object
        /\ Starting
    BY <1>0, <1>2 DEF Fork, Go, Whereabouts, Starting
  <2>1. CASE d # c
    <3>1. \A s \in Stream : Parent \notin holders[d][s]
      BY <1>0, <1>b, <2>0, <2>1, Pids DEF Ends, Holding
    <3>2. SameChild(d)
      BY <1>0, <1>2, <2>1, <3>1 DEF Fork, Inherited, SameChild
    <3> QED
      BY <1>0, <1>b, <2>0, <2>1, <3>2, OwnersUndisturbed, SafeUndisturbed
  <2>2. CASE d = c
    <3>1. ~Owned(d)' /\ ~Awaited(d)' /\ InHand(d)' /\ ~Loose(d)'
      BY <1>a, <2>0, <2>2 DEF Owned, Awaited, InHand, Loose
    <3>2. /\ process'[d] = "running" /\ process[d] = "pipes"
          /\ \A s \in Stream : readEnd'[d][s] = "object" /\ holders[d][s] = {Parent}
      BY <1>0, <1>a, <1>2, <2>0, <2>2 DEF Fork, Life, Ends, Holding
    <3>3. \A s \in Stream : holders'[d][s] = {Parent, d}
      BY <1>2, <2>2, <3>2 DEF Fork, Inherited
    <3>4. Holding(d)' = {Parent, d}
      BY <2>0, <3>1, <3>2 DEF Holding
    <3>5. Life(d)'
      BY <2>0, <3>1, <3>2 DEF Life
    <3>6. Ends(d)'
      BY <2>0, <3>1, <3>2, <3>3, <3>4 DEF Ends
    <3>7. Drained(d)'
      BY <3>2 DEF Drained
    <3> QED
      BY <3>5, <3>6, <3>7 DEF Safe
  <2> QED
    BY <2>1, <2>2
<1>3. CASE ForkFails
  <2>0. thread.at = "piped" /\ thread' = Idle /\ object' = object /\ Starting
    BY <1>3 DEF ForkFails, Starting
  <2>1. CASE d # c
    <3>1. SameChild(d)
      BY <1>0, <1>3, <2>1 DEF ForkFails, Unheld, SameChild
    <3> QED
      BY <1>0, <1>b, <2>0, <2>1, <3>1, OwnersUndisturbed, SafeUndisturbed
  <2>2. CASE d = c
    <3>1. ~Owned(d)' /\ ~Awaited(d)' /\ ~InHand(d)'
      BY <1>a, <2>0, <2>2, Pids DEF Owned, Awaited, InHand, Idle
    <3>2. /\ process'[d] = "reaped"
          /\ \A s \in Stream : readEnd'[d][s] = "closed" /\ holders'[d][s] = {}
      BY <1>0, <1>3, <2>2 DEF ForkFails, Unheld, Held
    <3>3. Holding(d)' = {}
      BY <3>1, <3>2 DEF Holding
    <3>4. Life(d)'
      BY <3>1, <3>2 DEF Life
    <3>5. Ends(d)'
      BY <3>1, <3>2, <3>3 DEF Ends
    <3>6. Drained(d)'
      BY <3>1 DEF Drained, Cared
    <3> QED
      BY <3>4, <3>5, <3>6 DEF Safe
  <2> QED
    BY <2>1, <2>2
<1>4. CASE DropWriteEnds
  <2>0. /\ thread.at = "forked" /\ thread'.at = "starting" /\ thread'.pid = c
        /\ object' = object /\ Starting
    BY <1>0, <1>4 DEF DropWriteEnds, Go, Whereabouts, Starting
  <2>1. CASE d # c
    <3>1. SameChild(d)
      BY <1>0, <1>4, <2>1 DEF DropWriteEnds, WriteEndsDropped, SameChild
    <3> QED
      BY <1>0, <1>b, <2>0, <2>1, <3>1, OwnersUndisturbed, SafeUndisturbed
  <2>2. CASE d = c
    <3>1. ~Owned(d)' /\ ~Awaited(d)' /\ InHand(d)' /\ ~Loose(d)'
      BY <1>a, <2>0, <2>2 DEF Owned, Awaited, InHand, Loose
    <3>2. /\ process'[d] = process[d] /\ process[d] \in {"running", "zombie"}
          /\ \A s \in Stream : readEnd'[d][s] = "object"
          /\ \A s \in Stream : holders[d][s] = Holding(d)
      BY <1>0, <1>a, <1>4, <2>0, <2>2 DEF DropWriteEnds, Life, Ends
    <3>3. \A s \in Stream : holders'[d][s] = Holding(d) \ {Parent}
      BY <1>0, <1>4, <2>2, <3>2 DEF DropWriteEnds, WriteEndsDropped, Held
    <3>4. Holding(d)' = Holding(d) \ {Parent}
      BY <1>a, <2>0, <2>2, <3>1, <3>2, Pids DEF Holding
    <3>5. Life(d)'
      BY <2>0, <3>1, <3>2 DEF Life
    <3>6. Ends(d)'
      BY <2>0, <3>1, <3>2, <3>3, <3>4 DEF Ends
    <3>7. Drained(d)'
      BY <3>2 DEF Drained
    <3> QED
      BY <3>5, <3>6, <3>7 DEF Safe
  <2> QED
    BY <2>1, <2>2
<1>5. CASE StartOutReader
  <2>0. /\ thread.at = "starting" /\ thread'.at = "halfway" /\ thread'.pid = c
        /\ object' = object /\ Starting
    BY <1>0, <1>5 DEF StartOutReader, Go, Whereabouts, Starting
  <2>1. CASE d # c
    <3>1. SameChild(d)
      BY <1>0, <1>5, <2>1 DEF StartOutReader, SameChild, system
    <3> QED
      BY <1>0, <1>b, <2>0, <2>1, <3>1, OwnersUndisturbed, SafeUndisturbed
  <2>2. CASE d = c
    <3>1. ~Owned(d)' /\ ~Awaited(d)' /\ InHand(d)' /\ ~Loose(d)'
      BY <1>a, <2>0, <2>2 DEF Owned, Awaited, InHand, Loose
    <3>2. /\ process'[d] = process[d] /\ process[d] \in {"running", "zombie"}
          /\ readEnd'[d]["out"] = "reader" /\ readEnd'[d]["err"] = "object"
          /\ \A s \in Stream : holders'[d][s] = Holding(d)
      BY <1>0, <1>a, <1>5, <2>0, <2>2 DEF StartOutReader, Life, Ends, system, Stream
    <3>4. Holding(d)' = Holding(d)
      BY <1>a, <2>0, <2>2, <3>1, <3>2 DEF Holding
    <3>5. Life(d)'
      BY <2>0, <3>1, <3>2 DEF Life
    <3>6. Ends(d)'
      BY <2>0, <3>1, <3>2, <3>4 DEF Ends
    <3>7. Drained(d)'
      BY <3>2 DEF Drained, Stream
    <3> QED
      BY <3>5, <3>6, <3>7 DEF Safe
  <2> QED
    BY <2>1, <2>2
<1>6. CASE StartErrReader
  <2>0. /\ thread.at = "halfway" /\ thread' = Idle /\ Starting /\ thread.object \in Object
        /\ object' = [object EXCEPT ![thread.object] = [pid |-> c, waited |-> FALSE]]
        /\ object[thread.object].pid = NoChild
    BY <1>0, <1>6 DEF StartErrReader, Starting, Hands, Starts
  <2>1. CASE d # c
    <3>1. SameChild(d)
      BY <1>0, <1>6, <2>1 DEF StartErrReader, SameChild, system
    <3>2. SameOwner(d)
      <4>1. object[thread.object].pid # d /\ object'[thread.object].pid # d
        BY <1>0, <2>0, <2>1, Pids
      <4>2. \A p \in Object : p # thread.object => object'[p] = object[p]
        BY <1>0, <2>0
      <4> QED
        BY <4>1, <4>2 DEF SameOwner, Owned, Awaited
    <3> QED
      BY <1>0, <1>b, <2>0, <2>1, <3>1, <3>2, SafeUndisturbed
  <2>2. CASE d = c
    <3>1. Owned(d)' /\ ~Awaited(d)' /\ ~InHand(d)' /\ ~Loose(d)'
      <4>1. object'[thread.object] = [pid |-> c, waited |-> FALSE]
        BY <1>0, <2>0
      <4>2. \A p \in Object : p # thread.object => object'[p].pid # d
        BY <1>0, <1>a, <2>0, <2>2 DEF Owned
      <4>3. ~InHand(d)'
        BY <2>0, Pids DEF InHand, Idle
      <4> QED
        BY <2>0, <2>2, <4>1, <4>2, <4>3 DEF Owned, Awaited, Loose
    <3>2. /\ process'[d] = process[d] /\ process[d] \in {"running", "zombie"}
          /\ \A s \in Stream : holders'[d][s] = Holding(d)
          /\ readEnd[d]["out"] \in {"reader", "closed"}
      BY <1>0, <1>a, <1>6, <2>0, <2>2 DEF StartErrReader, Life, Ends, system
    <3>3. readEnd'[d]["err"] = "reader" /\ readEnd'[d]["out"] = readEnd[d]["out"]
      BY <1>0, <1>6, <2>2 DEF StartErrReader, Stream
    <3>4. Holding(d)' = Holding(d)
      BY <1>a, <2>0, <2>2, <3>1, <3>2 DEF Holding
    <3>5. Life(d)'
      BY <2>0, <3>1, <3>2 DEF Life
    <3>6. Ends(d)'
      BY <2>0, <3>1, <3>2, <3>3, <3>4 DEF Ends, Stream
    <3>7. Drained(d)'
      <4>1. Cared(d)
        BY <1>a, <2>0, <2>2 DEF Cared
      <4>2. UNCHANGED <<pipe, capture>>
        BY <1>6 DEF StartErrReader, system
      <4> QED
        BY <1>0, <3>2, <3>3, <4>1, <4>2 DEF Drained, Stream
    <3> QED
      BY <3>5, <3>6, <3>7 DEF Safe
  <2> QED
    BY <2>1, <2>2
<1>7. CASE ReaderFails
  <2>0. /\ thread.at \in {"starting", "halfway"} /\ thread'.at = "reap" /\ thread'.pid = c
        /\ thread'.object = NoObject
        /\ UNCHANGED <<object, process, pipe, holders, readEnd, capture>> /\ Starting
    BY <1>0, <1>7 DEF ReaderFails, Whereabouts, Starting
  <2>1. CASE d # c
    <3>1. SameChild(d)
      BY <2>0 DEF SameChild
    <3> QED
      BY <1>0, <1>b, <2>0, <2>1, <3>1, OwnersUndisturbed, SafeUndisturbed
  <2>2. CASE d = c
    <3>1. ~Owned(d)' /\ ~Awaited(d)' /\ InHand(d)' /\ ~Loose(d)' /\ ~Cared(d)'
      BY <1>a, <2>0, <2>2 DEF Owned, Awaited, InHand, Loose, Cared
    <3>2. /\ process'[d] = process[d] /\ process[d] \in {"running", "zombie"}
          /\ \A s \in Stream : holders'[d][s] = Holding(d)
      BY <1>0, <1>a, <2>0, <2>2 DEF Life, Ends
    <3>4. Holding(d)' = Holding(d)
      BY <1>a, <2>0, <2>2, <3>1, <3>2 DEF Holding
    <3>5. Life(d)'
      BY <2>0, <3>1, <3>2 DEF Life
    <3>6. Ends(d)'
      BY <2>0, <3>1, <3>2, <3>4 DEF Ends
    <3>7. Drained(d)'
      BY <3>1 DEF Drained
    <3> QED
      BY <3>5, <3>6, <3>7 DEF Safe
  <2> QED
    BY <2>1, <2>2
<1> QED
  BY <1>1, <1>2, <1>3, <1>4, <1>5, <1>6, <1>7 DEF Starting

\* What remains of an object that is destroyed, or that another is moved to, is
\* in the hands of the thread.
LEMMA SafeReleased ==
  ASSUME Inv, thread = Idle, NEW o \in Object, Release(object[o]),
         UNCHANGED <<process, holders, readEnd, pipe, capture>>,
         \A d \in Child : d # object[o].pid => SameOwner(d),
         \A p \in Object : object'[p].pid # object[o].pid, NEW d \in Child
  PROVE  Safe(d)'
<1>0. /\ Safe(d) /\ Life(d) /\ Ends(d) /\ Hands /\ ~InHand(d)
      /\ object[o] \in Owner
  BY HandsNow, Types DEF Inv, Safe, Typed
<1>1. /\ thread'.pid = object[o].pid /\ thread'.object = NoObject
      /\ thread'.at = (IF object[o].waited THEN "join" ELSE "reap")
  BY DEF Release
<1>2. CASE d # object[o].pid
  <2>1. SameChild(d)
    BY DEF SameChild
  <2>2. SameHands(d)
    BY <1>0, <1>1, <1>2 DEF SameHands, InHand
  <2> QED
    BY <1>0, <1>2, <2>1, <2>2, SafeUndisturbed
<1>3. CASE d = object[o].pid
  <2>1. Owned(d) /\ (Awaited(d) <=> object[o].waited)
    BY <1>0, <1>3, TheOwner
  <2>2. ~Owned(d)' /\ ~Awaited(d)' /\ InHand(d)' /\ ~Loose(d)' /\ ~Cared(d)'
    BY <1>1, <1>3 DEF Owned, Awaited, InHand, Loose, Cared
  <2>3. /\ object[o].waited => process[d] = "reaped"
        /\ ~object[o].waited => process[d] \in {"running", "zombie"}
    BY <1>0, <2>1 DEF Life
  <2>4. Holding(d)' = Holding(d) /\ \A s \in Stream : holders[d][s] = Holding(d)
    BY <1>0, <1>1 DEF Holding, Ends
  <2>5. Life(d)'
    BY <1>1, <2>2, <2>3 DEF Life
  <2>6. Ends(d)'
    BY <1>1, <2>2, <2>4 DEF Ends
  <2>7. Drained(d)'
    BY <2>2 DEF Drained
  <2> QED
    BY <2>5, <2>6, <2>7 DEF Safe
<1> QED
  BY <1>2, <1>3

\* Calls on objects, and what follows on them.
LEMMA SafeCall ==
  ASSUME Inv,
         \/ \E o \in Object : Kill(o) \/ Wait(o) \/ Destroy(o)
         \/ \E o, from \in Object : Move(o, from)
         \/ Reap \/ Join,
         NEW d \in Child
  PROVE  Safe(d)'
<1>0. /\ Safe(d) /\ Life(d) /\ Ends(d) /\ Drained(d) /\ Hands
      /\ object \in [Object -> Owner] /\ thread \in Whereabouts
      /\ process \in [Child -> Status] /\ readEnd \in [Child -> [Stream -> Possession]]
  BY Types DEF Inv, Safe, Typed
<1>1. ASSUME NEW o \in Object, Kill(o)
      PROVE  Safe(d)'
  <2>1. UNCHANGED <<object, thread, process, holders, readEnd, pipe, capture>>
    BY <1>1 DEF Kill
  <2>2. SameChild(d) /\ SameHands(d)
    BY <2>1 DEF SameChild, SameHands, InHand
  <2> QED
    BY <1>0, <2>1, <2>2, OwnersUndisturbed, SafeUndisturbed
<1>2. ASSUME NEW o \in Object, Wait(o)
      PROVE  Safe(d)'
  <2>0. /\ thread = Idle /\ thread'.at = "reap" /\ thread'.pid = object[o].pid
        /\ UNCHANGED <<object, process, holders, readEnd, pipe, capture>>
        /\ ~object[o].waited
    BY <1>2 DEF Wait, system, Killable
  <2>1. ~InHand(d) /\ SameOwner(d) /\ SameChild(d)
    BY <2>0, HandsNow, OwnersUndisturbed DEF SameChild
  <2>2. CASE d # object[o].pid
    <3>1. SameHands(d)
      BY <2>0, <2>1, <2>2 DEF SameHands, InHand
    <3> QED
      BY <1>0, <2>1, <3>1, SafeUndisturbed
  <2>3. CASE d = object[o].pid
    <3>1. Owned(d) /\ ~Awaited(d) /\ process[d] \in {"running", "zombie"}
      BY <1>0, <2>0, <2>1, <2>3, TheOwner DEF Life
    <3>2. Owned(d)' /\ ~Awaited(d)' /\ InHand(d)' /\ ~Loose(d)'
      BY <2>0, <2>1, <2>3, <3>1 DEF SameOwner, InHand, Loose
    <3>3. Holding(d)' = Holding(d)
      BY <2>0, <2>1 DEF Holding
    <3>4. Life(d)'
      BY <2>0, <3>1, <3>2 DEF Life
    <3>5. Ends(d)'
      BY <1>0, <2>0, <3>1, <3>2, <3>3 DEF Ends
    <3>6. Drained(d)'
      BY <1>0, <2>0, <3>1 DEF Drained, Cared
    <3> QED
      BY <3>4, <3>5, <3>6 DEF Safe
  <2> QED
    BY <2>2, <2>3
<1>3. ASSUME NEW o \in Object, Destroy(o)
      PROVE  Safe(d)'
  <2>1. /\ object'[o] = Fresh /\ \A p \in Object : p # o => object'[p] = object[p]
        /\ object[o].pid \in Child /\ thread = Idle /\ Release(object[o])
    BY <1>0, <1>3 DEF Destroy, Release, Owner
  <2>2. \A p \in Object : object'[p].pid # object[o].pid
    BY <1>0, <2>1, Pids DEF Fresh, Hands
  <2>3. ASSUME NEW e \in Child, e # object[o].pid
        PROVE  SameOwner(e)
    BY <2>1, <2>3, Pids DEF SameOwner, Owned, Awaited, Fresh
  <2> QED
    BY <1>3, <2>1, <2>2, <2>3, SafeReleased DEF Destroy
<1>4. ASSUME NEW o \in Object, NEW from \in Object, Move(o, from)
      PROVE  Safe(d)'
  <2>1. /\ object'[o] = object[from] /\ object'[from] = Fresh /\ o # from
        /\ \A p \in Object \ {o, from} : object'[p] = object[p]
        /\ thread = Idle
    BY <1>0, <1>4 DEF Move
  <2>2. ASSUME NEW e \in Child, e # object[o].pid
        PROVE  SameOwner(e)
    BY <2>1, <2>2, Pids DEF SameOwner, Owned, Awaited, Fresh
  <2>3. CASE Release(object[o])
    <3>1. object[o].pid \in Child
      BY <1>0, <2>3 DEF Release, Owner
    <3>2. \A p \in Object : object'[p].pid # object[o].pid
      BY <1>0, <2>1, <3>1, Pids DEF Fresh, Hands
    <3> QED
      BY <1>4, <2>1, <2>2, <2>3, <3>2, SafeReleased DEF Move
  <2>4. CASE object[o].pid = NoChild /\ UNCHANGED <<signalled, thread>>
    <3>1. SameChild(d) /\ SameHands(d)
      BY <1>4, <2>4 DEF Move, SameChild, SameHands, InHand
    <3>2. SameOwner(d)
      BY <2>2, <2>4, Pids
    <3> QED
      BY <1>0, <3>1, <3>2, SafeUndisturbed
  <2> QED
    BY <1>4, <2>3, <2>4 DEF Move, Displaced
<1> DEFINE c == thread.pid
<1>5. CASE Reap
  <2>0. /\ thread.at = "reap" /\ thread'.at = "join" /\ thread'.pid = c /\ c \in Child
        /\ process[c] = "zombie" /\ InHand(c)
        /\ UNCHANGED <<object, holders, readEnd, pipe, capture>>
    BY <1>0, <1>5 DEF Reap, Go, Whereabouts, Hands, InHand
  <2>1. SameOwner(d)
    BY <2>0, OwnersUndisturbed
  <2>2. CASE d # c
    <3>1. SameChild(d)
      BY <1>0, <1>5, <2>0, <2>2 DEF Reap, SameChild
    <3>2. SameHands(d)
      BY <2>0, <2>2 DEF SameHands, InHand
    <3> QED
      BY <1>0, <2>1, <3>1, <3>2, SafeUndisturbed
  <2>3. CASE d = c
    <3>1. process'[d] = "reaped"
      BY <1>0, <1>5, <2>0, <2>3 DEF Reap
    <3>2. ~Awaited(d)' /\ InHand(d)' /\ ~Loose(d)'
      <4>1. ~Awaited(d)
        BY <1>0, <2>0, <2>3 DEF Life, Awaited, Owned
      <4> QED
        BY <2>0, <2>1, <2>3, <4>1 DEF SameOwner, InHand, Loose
    <3>3. Holding(d)' = Holding(d)
      BY <2>0, <2>3, <3>1 DEF Holding
    <3>4. Life(d)'
      BY <2>0, <3>1, <3>2 DEF Life
    <3>5. Ends(d)'
      BY <1>0, <2>0, <2>1, <3>2, <3>3 DEF Ends, SameOwner
    <3>6. Drained(d)'
      <4>1. thread'.object = thread.object
        BY <1>0, <1>5 DEF Reap, Go, Whereabouts
      <4>2. Cared(d)' => Cared(d)
        BY <2>0, <2>1, <2>3, <4>1 DEF Cared, SameOwner
      <4> QED
        BY <1>0, <2>0, <3>1, <4>2 DEF Drained
    <3> QED
      BY <3>4, <3>5, <3>6 DEF Safe
  <2> QED
    BY <2>2, <2>3
<1>6. CASE Join
  <2>0. /\ thread.at = "join" /\ thread' = Idle /\ c \in Child /\ InHand(c) /\ ~InHand(d)'
        /\ UNCHANGED <<process, holders, pipe, capture>> /\ Joined(c)
    BY <1>6, AfterJoin, Pids DEF Join, system, InHand, Idle
  <2>1. \A p \in Object : object'[p].pid = object[p].pid
    BY <1>6, AfterJoin
  <2>2. Owned(d)' <=> Owned(d)
    BY <2>1 DEF Owned
  <2>3. CASE d # c
    <3>1. SameChild(d)
      BY <1>0, <1>6, <2>0, <2>3 DEF Join, SameChild
    <3>2. SameHands(d)
      BY <2>0, <2>3 DEF SameHands, InHand
    <3>3. SameOwner(d)
      <4>1. \A p \in Object : object[p].pid = d => (object'[p].waited <=> object[p].waited)
        BY <1>6, <2>3, Pids, AfterJoin
      <4> QED
        BY <2>1, <2>2, <4>1 DEF SameOwner, Awaited
    <3> QED
      BY <1>0, <3>1, <3>2, <3>3, SafeUndisturbed
  <2>4. CASE d = c
    <3>1. process[d] = "reaped" /\ \A s \in Stream : holders'[d][s] = {}
      BY <1>0, <2>0, <2>4 DEF Life, Ends, Holding
    <3>2. Holding(d)' = {}
      BY <2>0, <3>1 DEF Holding
    <3>3. ASSUME NEW s \in Stream
          PROVE  /\ readEnd[d][s] # "reader"
                 /\ readEnd'[d][s] = IF readEnd[d][s] = "object" THEN "closed" ELSE readEnd[d][s]
                 /\ readEnd[d][s] \in Possession
      BY <1>0, <1>6, <2>0, <2>4 DEF Join, Joined
    <3>4. Owned(d) => Awaited(d)'
      <4>1. ASSUME Owned(d)
            PROVE  /\ thread.object \in Object /\ object'[thread.object].pid = d
                   /\ object'[thread.object].waited
        <5>1. thread.object # NoObject
          BY <1>0, <2>0, <2>4, <4>1, Pids DEF Hands, Owned
        <5> QED
          BY <1>6, <2>1, <2>4, <5>1, AfterJoin
      <4> QED
        BY <4>1 DEF Awaited
    <3>0. Life(d)'
      BY <2>0, <2>2, <3>1, <3>4 DEF Life
    <3>5. CASE Owned(d)
      <4>1. \A s \in Stream : readEnd[d][s] = "closed" /\ readEnd'[d][s] = "closed"
        BY <1>0, <3>3, <3>5 DEF Ends
      <4>2. ~Loose(d)'
        BY <2>2, <3>5 DEF Loose
      <4>3. Ends(d)'
        BY <2>0, <3>1, <3>2, <4>1, <4>2 DEF Ends
      <4>4. Drained(d)'
        BY <1>0, <2>0, <3>5, <4>1 DEF Drained, Cared
      <4> QED
        BY <3>0, <4>3, <4>4 DEF Safe
    <3>6. CASE ~Owned(d)
      <4>1. \A s \in Stream : readEnd'[d][s] \in {"none", "closed"}
        BY <3>3 DEF Possession
      <4>2. ~Owned(d)' /\ ~Awaited(d)' /\ ~Cared(d)'
        BY <2>0, <2>2, <3>6 DEF Owned, Awaited, Cared
      <4>3. Ends(d)'
        BY <2>0, <3>1, <3>2, <4>1, <4>2 DEF Ends
      <4>4. Drained(d)'
        BY <4>2 DEF Drained
      <4> QED
        BY <3>0, <4>3, <4>4 DEF Safe
    <3> QED
      BY <3>5, <3>6
  <2> QED
    BY <2>3, <2>4
<1> QED
  BY <1>1, <1>2, <1>3, <1>4, <1>5, <1>6

\* A child whose pipes have only been made is in hand.
LEMMA OnlyPipes ==
  ASSUME Inv, NEW d \in Child, process[d] = "pipes"
  PROVE  InHand(d) /\ thread.at = "piped"
<1>0. Life(d) /\ Hands /\ thread.at \in Place
  BY Types DEF Inv, Safe, Typed, Whereabouts
<1>1. InHand(d)
  BY <1>0 DEF Life, Loose
<1>2. thread.at # "idle"
  BY <1>0, <1>1, Pids DEF Hands, InHand, Idle
<1> QED
  BY <1>0, <1>1, <1>2 DEF Life, Place

\* Readers and children, while the thread is anywhere.
LEMMA SafeRun ==
  ASSUME Inv, NEW c \in Child,
         \/ \E s \in Stream : Reader(c, s) \/ BeginWrite(c, s)
         \/ Write(c) \/ Exit(c) \/ Die(c),
         NEW d \in Child
  PROVE  Safe(d)'
<1>0. /\ Safe(d) /\ Life(d) /\ Ends(d) /\ Drained(d)
      /\ process \in [Child -> Status] /\ holders \in Held
      /\ readEnd \in [Child -> [Stream -> Possession]]
      /\ pipe \in [Child -> [Stream -> 0..PipeCapacity]]
      /\ capture \in [Child -> [Stream -> [kept : 0..MaxCapture, truncated : BOOLEAN,
                                           marked : BOOLEAN]]]
  BY Types DEF Inv, Safe, Typed
<1>a. UNCHANGED <<object, thread>>
  BY DEF Reader, Read, ReadEnd, BeginWrite, Write, Exit, Die, End
<1>b. SameOwner(d) /\ SameHands(d) /\ (Cared(d)' <=> Cared(d)) /\ (Loose(d)' <=> Loose(d))
      /\ (InHand(d)' <=> InHand(d))
  BY <1>a, OwnersUndisturbed DEF SameOwner, SameHands, InHand, Cared, Loose
<1>c. ASSUME UNCHANGED <<process, holders, readEnd>>
      PROVE  Life(d)' /\ Ends(d)'
  <2>1. Holding(d)' = Holding(d)
    BY <1>a, <1>c DEF Holding, InHand
  <2> QED
    BY <1>0, <1>a, <1>b, <1>c, <2>1 DEF Life, Ends, SameOwner
<1>1. ASSUME NEW s \in Stream, Read(c, s)
      PROVE  Safe(d)'
  <2>1. UNCHANGED <<process, holders, readEnd>> /\ readEnd[c][s] = "reader"
    BY <1>1 DEF Read, MayRead
  <2>2. PICK size \in 1..pipe[c][s] :
          /\ pipe' = [pipe EXCEPT ![c][s] = pipe[c][s] - size]
          /\ capture' = [capture EXCEPT ![c][s] = Appended(capture[c][s], size)]
    BY <1>1 DEF Read
  <2>3. ASSUME NEW t \in Stream, readEnd[d][t] = "closed"
        PROVE  pipe'[d][t] = pipe[d][t] /\ capture'[d][t] = capture[d][t]
    <3>1. d # c \/ t # s
      BY <2>1, <2>3
    <3> QED
      BY <1>0, <2>2, <3>1
  <2>4. Drained(d)'
    BY <1>0, <1>b, <2>1, <2>3 DEF Drained
  <2> QED
    BY <1>c, <2>1, <2>4 DEF Safe
<1>2. ASSUME NEW s \in Stream, ReadEnd(c, s)
      PROVE  Safe(d)'
  <2>0. /\ UNCHANGED <<process, holders, pipe>> /\ readEnd[c][s] = "reader"
        /\ pipe[c][s] = 0 /\ holders[c][s] = {}
    BY <1>2 DEF ReadEnd, MayRead, system
  <2>1. CASE d # c
    <3>1. readEnd'[d] = readEnd[d] /\ capture'[d] = capture[d]
      BY <1>0, <1>2, <2>1 DEF ReadEnd
    <3>2. SameChild(d)
      BY <2>0, <3>1 DEF SameChild
    <3> QED
      BY <1>0, <1>b, <3>2, SafeUndisturbed
  <2>2. CASE d = c
    <3>1. /\ readEnd'[d][s] = "closed"
          /\ \A t \in Stream : t # s => readEnd'[d][t] = readEnd[d][t]
      BY <1>0, <1>2, <2>2 DEF ReadEnd
    <3>2. /\ capture'[d][s].marked = capture[d][s].truncated
          /\ capture'[d][s].truncated = capture[d][s].truncated
          /\ \A t \in Stream : t # s => capture'[d][t] = capture[d][t]
      <4>1. capture' = [capture EXCEPT ![d] = [capture[d] EXCEPT ![s] =
                          [capture[d][s] EXCEPT !.marked = capture[d][s].truncated]]]
        BY <1>2, <2>2 DEF ReadEnd
      <4>2. capture[d][s] \in [kept : 0..MaxCapture, truncated : BOOLEAN, marked : BOOLEAN]
        BY <1>0
      <4> QED
        BY <1>0, <4>1, <4>2
    <3>3. process[d] \in {"zombie", "reaped"}
      <4>1. process[d] # "running"
        BY <1>0, <2>0, <2>2 DEF Ends, Holding
      <4>2. process[d] # "none"
        BY <1>0, <2>0, <2>2 DEF Life
      <4>3. process[d] # "pipes"
        BY <1>0, <2>0, <2>2, OnlyPipes DEF Ends
      <4> QED
        BY <1>0, <4>1, <4>2, <4>3 DEF Status
    <3>4. Life(d)'
      BY <1>0, <1>a, <1>b, <2>0, <3>3 DEF Life, SameOwner
    <3>5. Ends(d)'
      <4>1. Holding(d)' = Holding(d)
        BY <1>a, <2>0 DEF Holding, InHand
      <4>2. ~(InHand(d) /\ thread.at \in {"piped", "forked", "starting"})
            /\ ~Awaited(d) /\ ~Loose(d)
        BY <1>0, <2>0, <2>2 DEF Ends
      <4>3. InHand(d) /\ thread.at = "halfway" => s = "out"
        BY <1>0, <2>0, <2>2 DEF Ends, Stream
      <4>4. InHand(d) /\ thread.at = "halfway"
              => readEnd'[d]["out"] = "closed" /\ readEnd'[d]["err"] = "object"
        BY <1>0, <3>1, <4>3 DEF Ends, Stream
      <4>5. Owned(d) => \A t \in Stream : readEnd'[d][t] \in {"reader", "closed"}
        BY <1>0, <3>1 DEF Ends
      <4> QED
        BY <1>0, <1>a, <1>b, <2>0, <4>1, <4>2, <4>4, <4>5 DEF Ends, SameOwner
    <3>6. Drained(d)'
      <4>1. process'[d] \in {"zombie", "reaped"} /\ pipe'[d] = pipe[d]
        BY <2>0, <3>3
      <4>2. pipe'[d][s] = 0 /\ capture'[d][s].marked = capture'[d][s].truncated
        BY <2>0, <2>2, <3>2, <4>1
      <4>3. ASSUME NEW t \in Stream, t # s, readEnd'[d][t] = "closed", Cared(d)'
            PROVE  pipe'[d][t] = 0 /\ capture'[d][t].marked = capture'[d][t].truncated
        <5>1. readEnd[d][t] = "closed" /\ Cared(d)
          BY <1>b, <3>1, <4>3
        <5>2. pipe[d][t] = 0 /\ capture[d][t].marked = capture[d][t].truncated
          BY <1>0, <5>1 DEF Drained
        <5> QED
          BY <3>2, <4>1, <4>3, <5>2
      <4> QED
        BY <4>1, <4>2, <4>3 DEF Drained
    <3> QED
      BY <3>4, <3>5, <3>6 DEF Safe
  <2> QED
    BY <2>1, <2>2
<1>3. ASSUME NEW s \in Stream, BeginWrite(c, s)
      PROVE  Safe(d)'
  <2>1. SameChild(d)
    BY <1>3 DEF BeginWrite, SameChild
  <2> QED
    BY <1>0, <1>b, <2>1, SafeUndisturbed
<1>4. CASE Write(c)
  <2>1. UNCHANGED <<process, holders, readEnd, capture>> /\ process[c] = "running"
    BY <1>4 DEF Write
  <2>2. d # c => pipe'[d] = pipe[d]
    BY <1>0, <1>4 DEF Write
  <2>3. Drained(d)'
    BY <1>0, <1>b, <2>1, <2>2 DEF Drained
  <2> QED
    BY <1>c, <2>1, <2>3 DEF Safe
<1>5. CASE Exit(c) \/ Die(c)
  <2>1. End(c) /\ process[c] = "running"
    BY <1>5 DEF Exit, Die
  <2>2. \A s \in Stream : holders'[d][s] = Holding(d) \ {c}
    BY <1>0, <2>1 DEF End, Ends
  <2>3. UNCHANGED <<pipe, readEnd, capture>>
    BY <2>1 DEF End
  <2>4. CASE d # c
    <3>1. c \notin Holding(d)
      BY <2>4, Pids DEF Holding
    <3>2. SameChild(d)
      BY <1>0, <2>1, <2>2, <2>3, <2>4, <3>1 DEF End, Ends, SameChild
    <3> QED
      BY <1>0, <1>b, <3>2, SafeUndisturbed
  <2>5. CASE d = c
    <3>1. process'[d] = "zombie" /\ process[d] = "running"
      BY <1>0, <2>1, <2>5 DEF End
    <3>2. Holding(d)' = Holding(d) \ {c}
      BY <1>a, <2>5, <3>1, Pids DEF Holding, InHand
    <3>3. Life(d)'
      BY <1>0, <1>a, <1>b, <3>1 DEF Life, SameOwner
    <3>4. Ends(d)'
      BY <1>0, <1>a, <1>b, <2>2, <2>3, <3>2 DEF Ends, SameOwner
    <3>5. Drained(d)'
      BY <1>0, <1>b, <2>3, <3>1 DEF Drained
    <3> QED
      BY <3>3, <3>4, <3>5 DEF Safe
  <2> QED
    BY <2>4, <2>5
<1> QED
  BY <1>1, <1>2, <1>3, <1>4, <1>5 DEF Reader

-----------------------------------------------------------------------------
(* What is in the buffers                                                  *)

\* What is read comes out of the pipe and goes into the buffer; what is written
\* goes into the pipe.
LEMMA AccountedNext ==
  ASSUME Inv, [Next]_vars, NEW d \in Child
  PROVE  Accounted(d)'
<1>0. /\ Accounted(d)
      /\ pipe \in [Child -> [Stream -> 0..PipeCapacity]] /\ PipeCapacity \in Nat
      /\ capture \in [Child -> [Stream -> [kept : 0..MaxCapture, truncated : BOOLEAN,
                                           marked : BOOLEAN]]]
      /\ written \in [Child -> [Stream -> Nat]]
  BY Types, ChildProcessAssumption DEF Inv, Typed
<1>1. ASSUME NEW c \in Child, NEW s \in Stream, Read(c, s)
      PROVE  Accounted(d)'
  <2>1. PICK size \in 1..pipe[c][s] :
          /\ pipe' = [pipe EXCEPT ![c][s] = pipe[c][s] - size]
          /\ capture' = [capture EXCEPT ![c][s] = Appended(capture[c][s], size)]
    BY <1>1 DEF Read
  <2>2. written' = written
    BY <1>1 DEF Read
  <2>3. ASSUME NEW t \in Stream
        PROVE  /\ pipe'[d][t] <= written[d][t]
               /\ capture'[d][t].kept = Smaller(written[d][t] - pipe'[d][t], MaxCapture)
               /\ capture'[d][t].truncated <=> written[d][t] - pipe'[d][t] > MaxCapture
    <3>1. CASE d # c \/ t # s
      <4>1. pipe'[d][t] = pipe[d][t] /\ capture'[d][t] = capture[d][t]
        BY <1>0, <2>1, <3>1
      <4> QED
        BY <1>0, <4>1 DEF Accounted
    <3>2. CASE d = c /\ t = s
      <4> DEFINE taken == written[d][t] - pipe[d][t]
      <4>1. pipe'[d][t] = pipe[d][t] - size /\ capture'[d][t] = Appended(capture[d][t], size)
        BY <1>0, <2>1, <3>2
      <4>2. /\ taken \in Nat /\ size \in Nat \ {0} /\ pipe[d][t] \in Nat /\ written[d][t] \in Nat
            /\ capture[d][t].kept = Smaller(taken, MaxCapture)
            /\ capture[d][t] \in [kept : 0..MaxCapture, truncated : BOOLEAN, marked : BOOLEAN]
        BY <1>0, <2>1, <3>2 DEF Accounted
      <4>3. capture[d][t].truncated <=> taken > MaxCapture
        BY <1>0 DEF Accounted
      <4>4. /\ Appended(capture[d][t], size).kept = Smaller(taken + size, MaxCapture)
            /\ Appended(capture[d][t], size).truncated <=> taken + size > MaxCapture
        BY <4>2, <4>3, Buffered
      <4>5. written[d][t] - pipe'[d][t] = taken + size /\ pipe'[d][t] <= written[d][t]
        BY <4>1, <4>2
      <4> QED
        BY <4>1, <4>4, <4>5
    <3> QED
      BY <3>1, <3>2
  <2> QED
    BY <2>2, <2>3 DEF Accounted
<1>2. ASSUME NEW c \in Child, NEW s \in Stream, ReadEnd(c, s)
      PROVE  Accounted(d)'
  <2>1. UNCHANGED <<pipe, written>>
    BY <1>2 DEF ReadEnd, system
  <2>2. ASSUME NEW t \in Stream
        PROVE  capture'[d][t].kept = capture[d][t].kept
               /\ capture'[d][t].truncated = capture[d][t].truncated
    <3>1. capture' = [capture EXCEPT ![c] = [capture[c] EXCEPT ![s] =
                        [capture[c][s] EXCEPT !.marked = capture[c][s].truncated]]]
      BY <1>2 DEF ReadEnd
    <3>2. capture[c][s] \in [kept : 0..MaxCapture, truncated : BOOLEAN, marked : BOOLEAN]
      BY <1>0
    <3> QED
      BY <1>0, <3>1, <3>2
  <2> QED
    BY <1>0, <2>1, <2>2 DEF Accounted
<1>3. ASSUME NEW c \in Child, Write(c)
      PROVE  Accounted(d)'
  <2>1. PICK s \in Stream : /\ pipe' = [pipe EXCEPT ![c][s] = pipe[c][s] + 1]
                            /\ written' = [written EXCEPT ![c][s] = written[c][s] + 1]
    BY <1>3 DEF Write
  <2>2. capture' = capture
    BY <1>3 DEF Write
  <2>3. ASSUME NEW t \in Stream
        PROVE  /\ pipe'[d][t] <= written'[d][t]
               /\ written'[d][t] - pipe'[d][t] = written[d][t] - pipe[d][t]
    <3>1. pipe[d][t] \in Nat /\ written[d][t] \in Nat /\ pipe[d][t] <= written[d][t]
      BY <1>0 DEF Accounted
    <3>2. CASE d # c \/ t # s
      BY <1>0, <2>1, <3>1, <3>2
    <3>3. CASE d = c /\ t = s
      <4>1. pipe'[d][t] = pipe[d][t] + 1 /\ written'[d][t] = written[d][t] + 1
        BY <1>0, <2>1, <3>3
      <4> QED
        BY <3>1, <4>1
    <3> QED
      BY <3>2, <3>3
  <2> QED
    BY <1>0, <2>2, <2>3 DEF Accounted
<1>4. ASSUME UNCHANGED <<pipe, capture, written>>
      PROVE  Accounted(d)'
  BY <1>0, <1>4, AccountedUndisturbed
<1>5. CASE Operation \/ Starting \/ Reap \/ Join
  BY <1>4, <1>5 DEF Operation, CreatePipes, Kill, Wait, Destroy, Move, Starting, Fork,
       ForkFails, DropWriteEnds, StartOutReader, StartErrReader, ReaderFails, Reap, Join,
       system
<1>6. ASSUME NEW c \in Child, NEW s \in Stream, BeginWrite(c, s)
      PROVE  Accounted(d)'
  BY <1>4, <1>6 DEF BeginWrite
<1>7. ASSUME NEW c \in Child, Exit(c) \/ Die(c)
      PROVE  Accounted(d)'
  BY <1>4, <1>7 DEF Exit, Die, End
<1>8. CASE UNCHANGED vars
  BY <1>4, <1>8 DEF vars, system
<1> QED
  BY <1>1, <1>2, <1>3, <1>5, <1>6, <1>7, <1>8 DEF Next, Reader

-----------------------------------------------------------------------------
(* The theorems                                                            *)

\* Every step keeps the invariant.
LEMMA InvNext == Inv /\ [Next]_vars => Inv'
<1> SUFFICES ASSUME Inv, [Next]_vars PROVE Inv'
  OBVIOUS
<1>0. \A d \in Child : Accounted(d)'
  BY AccountedNext
<1>1. CASE Next
  <2>1. TypeOK'
    BY <1>1, TypeStart, TypeCall, TypeRun DEF Next, Operation
  <2>2. Hands'
    BY <1>1, HandsNext
  <2>3. \A d \in Child : Safe(d)'
    BY <1>1, SafeStart, SafeCall, SafeRun DEF Next, Operation
  <2> QED
    BY <1>0, <2>1, <2>2, <2>3 DEF Inv
<1>2. CASE UNCHANGED vars
  <2>1. TypeOK' /\ Hands'
    BY <1>2 DEF vars, system, Inv, TypeOK, Hands
  <2>2. ASSUME NEW d \in Child
        PROVE  Safe(d)'
    <3>1. SameChild(d) /\ SameHands(d) /\ SameOwner(d)
      BY <1>2, OwnersUndisturbed DEF vars, system, SameChild, SameHands, InHand
    <3> QED
      BY <3>1, SafeUndisturbed DEF Inv
  <2> QED
    BY <1>0, <2>1, <2>2 DEF Inv
<1> QED
  BY <1>1, <1>2

\* The types of the state.
THEOREM ChildTypes == Spec => []TypeOK
<1>1. Inv => TypeOK
  BY DEF Inv
<1> QED
  BY <1>1, InvInit, InvNext, PTL DEF Spec

\* Once a child was waited for, its buffers hold what it wrote up to the bound,
\* and are marked exactly when something is missing, however reads and writes
\* interleave and whether it exits or is killed.
THEOREM CapturesAreExact == Spec => []CaptureExact
<1>1. Inv => CaptureExact
  BY InvImplies
<1> QED
  BY <1>1, InvInit, InvNext, PTL DEF Spec

\* A child that belongs to no object and is not being dealt with has no process,
\* no open pipe end and no reader; and no two objects have the same child.
THEOREM NothingIsLeft == Spec => []NothingOutlives
<1>1. Inv => NothingOutlives
  BY InvImplies
<1> QED
  BY <1>1, InvInit, InvNext, PTL DEF Spec

\* Whom the thread may send a signal or wait for at its next step is a child of
\* the program that was not waited for: nobody else can have its number.
Addressed(c) ==
  \/ thread = Idle /\ \E o \in Object : object[o].pid = c /\ Killable(o)
  \/ thread.at \in {"starting", "halfway", "reap"} /\ InHand(c)

OnlyItsOwn == \A c \in Child : Addressed(c) => process[c] \in {"running", "zombie"}

\* kill, the destructor, the moves and the failure of start never signal the
\* number of a child that was waited for, and waitpid never asks for one, though
\* children start, end, move and are released in any order (waited_).
THEOREM SignalsReachItsOwn == Spec => []OnlyItsOwn
<1>1. Inv => OnlyItsOwn
  <2> SUFFICES ASSUME Inv, NEW c \in Child, Addressed(c)
               PROVE  process[c] \in {"running", "zombie"}
    BY DEF OnlyItsOwn
  <2>1. Life(c) /\ Hands /\ NoChild \notin Child
    BY Pids DEF Inv, Safe
  <2>2. ASSUME NEW o \in Object, thread = Idle, object[o].pid = c, Killable(o)
        PROVE  Owned(c) /\ ~Awaited(c) /\ ~InHand(c)
    <3>1. \A p \in Object : object[p].pid = c => p = o
      BY <2>1, <2>2 DEF Hands
    <3> QED
      BY <2>1, <2>2, <3>1 DEF Owned, Awaited, InHand, Killable, Idle
  <2>3. CASE \E o \in Object : thread = Idle /\ object[o].pid = c /\ Killable(o)
    BY <2>1, <2>2, <2>3 DEF Life
  <2>4. CASE thread.at \in {"starting", "halfway", "reap"} /\ InHand(c)
    BY <2>1, <2>4 DEF Life
  <2> QED
    BY <2>3, <2>4 DEF Addressed
<1> QED
  BY <1>1, InvInit, InvNext, PTL DEF Spec
=============================================================================
