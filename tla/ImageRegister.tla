--------------------------- MODULE ImageRegister ---------------------------
(***************************************************************************)
(* What the state file is to the processes that share it: a register that  *)
(* holds one image. A save puts its image in at one instant, before its    *)
(* caller is told that it is done, and never if its caller is told that it *)
(* failed. A load gives the complete image that the register held at one   *)
(* instant of the load, or is refused, for which there must be a reason.   *)
(* The death of a process leaves the register alone; a loss of power may   *)
(* take it back to an image it held before, or spoil it.                   *)
(*                                                                         *)
(* There are no files, names, buffers or sizes at this level.              *)
(***************************************************************************)
EXTENDS Integers

CONSTANTS
  Process,
  Torn      \* what is no complete image

None == 0

VARIABLES
  value,    \* the image the register holds, by its save; None is no image
  safe,     \* what a loss of power may take it back to
  latest,   \* saves begun
  doing,    \* what each process does
  saving,   \* the save each process is at
  before,   \* what the register held when a load began
  taken,    \* what a load took from it
  loaded,   \* the image each process has from its load
  acked,    \* the last save whose caller was told that it is done
  failed    \* the saves whose callers were told that they failed

register == <<value, safe>>
loads == <<before, taken, loaded>>
answers == <<acked, failed>>
registerVars == <<register, latest, doing, saving, loads, answers>>

Turn(p, s, t) == doing[p] = s /\ doing' = [doing EXCEPT ![p] = t]

Init ==
  /\ value = None /\ safe = None /\ latest = 0
  /\ doing = [p \in Process |-> "down"]
  /\ saving = [p \in Process |-> None]
  /\ before = [p \in Process |-> None]
  /\ taken = [p \in Process |-> None]
  /\ loaded = [p \in Process |-> None]
  /\ acked = None /\ failed = {}

\* A save begins, or fails at once.
Submit(p) ==
  /\ latest' = latest + 1
  /\ \/ /\ Turn(p, "up", "saving")
        /\ saving' = [saving EXCEPT ![p] = latest']
        /\ UNCHANGED failed
     \/ /\ Turn(p, "up", "up")
        /\ failed' = failed \cup {latest'}
        /\ UNCHANGED saving
  /\ UNCHANGED <<register, loads, acked>>

\* The instant of a save.
Replace(p) ==
  /\ Turn(p, "saving", "saved")
  /\ value' = saving[p]
  /\ UNCHANGED <<safe, latest, saving, loads, answers>>

\* The register still holds the image when the caller is told.
Succeed(p) ==
  /\ Turn(p, "saved", "up")
  /\ value = saving[p]
  /\ acked' = saving[p]
  /\ saving' = [saving EXCEPT ![p] = None]
  /\ UNCHANGED <<register, latest, loads, failed>>

\* A save that fails has not had its instant, and has none.
Fail(p) ==
  /\ Turn(p, "saving", "up")
  /\ failed' = failed \cup {saving[p]}
  /\ saving' = [saving EXCEPT ![p] = None]
  /\ UNCHANGED <<register, latest, loads, acked>>

\* A process starts; it has nothing to load from an empty register.
BeginLoad(p) ==
  /\ IF value = None THEN Turn(p, "down", "up") /\ UNCHANGED before
                     ELSE /\ Turn(p, "down", "loading")
                          /\ before' = [before EXCEPT ![p] = value]
  /\ UNCHANGED <<register, latest, saving, taken, loaded, answers>>

\* The instant of a load.
Take(p) ==
  /\ Turn(p, "loading", "taken")
  /\ taken' = [taken EXCEPT ![p] = value]
  /\ UNCHANGED <<register, latest, saving, before, loaded, answers>>

\* A load is refused only if what it took is no image, or is not what was
\* there when it began.
EndLoad(p) ==
  /\ \/ /\ Turn(p, "taken", "up")
        /\ taken[p] # Torn
        /\ loaded' = [loaded EXCEPT ![p] = taken[p]]
     \/ /\ Turn(p, "taken", "refused")
        /\ taken[p] = Torn \/ taken[p] # before[p]
        /\ UNCHANGED loaded
  /\ UNCHANGED <<register, latest, saving, before, taken, answers>>

\* What the processes ps know is gone.
Forget(ps) ==
  /\ doing' = [p \in Process |-> IF p \in ps THEN "down" ELSE doing[p]]
  /\ saving' = [p \in Process |-> IF p \in ps THEN None ELSE saving[p]]
  /\ before' = [p \in Process |-> IF p \in ps THEN None ELSE before[p]]
  /\ taken' = [p \in Process |-> IF p \in ps THEN None ELSE taken[p]]
  /\ loaded' = [p \in Process |-> IF p \in ps THEN None ELSE loaded[p]]

Die(p) ==
  /\ doing[p] # "down"
  /\ Forget({p})
  /\ UNCHANGED <<register, latest, answers>>

\* What the register holds is what it falls back to from now on.
Settle ==
  /\ safe' = value
  /\ UNCHANGED <<value, latest, doing, saving, loads, answers>>

LosePower ==
  /\ value' \in {value, safe, Torn}
  /\ safe' = value'
  /\ Forget(Process)
  /\ UNCHANGED <<latest, answers>>

Next ==
  \/ \E p \in Process :
       \/ Submit(p) \/ Replace(p) \/ Succeed(p) \/ Fail(p)
       \/ BeginLoad(p) \/ Take(p) \/ EndLoad(p) \/ Die(p)
  \/ Settle
  \/ LosePower

Spec == Init /\ [][Next]_registerVars
=============================================================================
