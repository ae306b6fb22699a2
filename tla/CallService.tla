----------------------------- MODULE CallService -----------------------------
(***************************************************************************)
(* What the transport is to its clients: a service that executes a call at *)
(* most once. A client makes one call at a time and waits for its answer,  *)
(* or gives it up. A call that was given up may be executed all the same,  *)
(* then or later; one that was answered was executed before, unless its    *)
(* bytes were no good, and never is again.                                 *)
(*                                                                         *)
(* There are no connections, frames, queues or workers at this level, and  *)
(* stopping the service is giving up on every call.                        *)
(***************************************************************************)
EXTENDS Integers

CONSTANTS
  Client,
  CallOf      \* calls: a client and the number of the call

VARIABLES
  made,       \* how many calls each client has made
  waiting,    \* clients that wait for the answer to their last call
  executed,   \* how often each call was executed
  answered,   \* calls whose answer their client has
  damaged     \* calls that cannot be executed

serviceVars == <<made, waiting, executed, answered, damaged>>

Last(c) == <<c, made[c]>>

Init ==
  /\ made = [c \in Client |-> 0]
  /\ waiting = {}
  /\ executed = [call \in CallOf |-> 0]
  /\ answered = {} /\ damaged = {}

\* The call may get lost on its way out.
Make(c) ==
  /\ c \notin waiting
  /\ made' = [made EXCEPT ![c] = @ + 1]
  /\ waiting' \in {waiting, waiting \cup {c}}
  /\ damaged' \in {damaged, damaged \cup {<<c, made[c] + 1>>}}
  /\ UNCHANGED <<executed, answered>>

Execute(c, n) ==
  /\ n <= made[c]
  /\ executed[<<c, n>>] = 0
  /\ <<c, n>> \notin answered \cup damaged
  /\ executed' = [executed EXCEPT ![<<c, n>>] = 1]
  /\ UNCHANGED <<made, waiting, answered, damaged>>

Answer(c) ==
  /\ c \in waiting
  /\ Last(c) \notin answered
  /\ Last(c) \in damaged \/ executed[Last(c)] = 1
  /\ waiting' = waiting \ {c}
  /\ answered' = answered \cup {Last(c)}
  /\ UNCHANGED <<made, executed, damaged>>

GiveUp(c) ==
  /\ c \in waiting
  /\ waiting' = waiting \ {c}
  /\ UNCHANGED <<made, executed, answered, damaged>>

Next ==
  \/ \E c \in Client : Make(c) \/ Answer(c) \/ GiveUp(c)
  \/ \E call \in CallOf : Execute(call[1], call[2])

Spec == Init /\ [][Next]_serviceVars
=============================================================================
