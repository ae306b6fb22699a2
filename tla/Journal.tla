------------------------------ MODULE Journal ------------------------------
(***************************************************************************)
(* What a runtime keeps across its incarnations, and how it accounts for   *)
(* it: the changes it has made and the bounded audit trail, in the memory  *)
(* of each process and in the images that StateFile carries from one       *)
(* process to the next. A process is wavelengthd with durable commits, or  *)
(* one run of wfcli over a state path, which loads the image, performs one *)
(* command, saves if the command changed something, and ends.              *)
(*                                                                         *)
(* A change stands for the effect of one call on reservations (Fabric has  *)
(* what it is) and is named by the save that carried it. Of the audit      *)
(* kinds those are kept that concern changes and their durability.         *)
(***************************************************************************)
EXTENDS StateFile, Sequences

CONSTANT MaxAudit  \* RuntimeConfig::maxAuditRecords

\* The constructor raises a bound of zero to one.
ASSUME JournalAssumption == MaxAudit \in Nat \ {0}

VARIABLES
  memory,  \* of each process: [trail, sequence, effects]; an effect is the
           \* change and, as history, the sequence it was recorded under
  image,   \* of each save: the memory it encoded
  call,    \* the call each process is in: an allocation, another change of one
           \* reservation, a sweep over all of them, or a save
  granted  \* history: allocations whose caller was told so, since the last reset

file == <<names, contents, status, saving, reading, history>>
journal == <<memory, image, call, granted>>
allVars == <<file, journal>>

Call == {"allocate", "change", "sweep", "save"}
AuditKind == {"RuntimeOpened", "Changed", "PersistenceFailed", "PersistenceFlushed",
              "CorruptionDetected", "RecoveryPerformed", "StateReset"}

Blank == [trail |-> <<>>, sequence |-> 0, effects |-> {}]

\* Mutant: the trail is cut after the record was added.
CutLate(trail) == IF Len(trail) > MaxAudit THEN Tail(trail) ELSE trail

\* Oldest records are dropped until there is room for one.
Shortened(trail) ==
  SubSeq(trail, IF Len(trail) < MaxAudit THEN 1 ELSE Len(trail) - MaxAudit + 2, Len(trail))

\* appendAudit.
Recorded(m, kind, change) ==
  [m EXCEPT !.sequence = @ + 1,
            !.trail = Append(Shortened(@), [sequence |-> m.sequence + 1, kind |-> kind,
                                            change |-> change])]

\* A process keeps what it has.
Keep == UNCHANGED journal

Remember(p, m) == memory' = [memory EXCEPT ![p] = m]

-----------------------------------------------------------------------------
(* Changing and saving                                                     *)

\* The record and the effect of a change precede its save.
Applied(m, c, s) ==
  IF c = "save" THEN m
  ELSE LET noted == Recorded(m, "Changed", s) IN
       [noted EXCEPT !.effects = @ \cup {[change |-> s, sequence |-> noted.sequence]}]

Without(effects, s) == {e \in effects : e.change # s}

\* Mutant: a save that fails is not recorded.
FailedSilently(m, c, s) == [m EXCEPT !.effects = Without(@, s)]

\* saveLocked records the failure; a change is then undone, but for that of a
\* sweep, and allocate records the undoing as well.
Failed(m, c, s) ==
  LET noted == Recorded(m, "PersistenceFailed", None) IN
  CASE c = "allocate" -> [Recorded(noted, "PersistenceFailed", None)
                            EXCEPT !.effects = Without(@, s)]
    [] c = "change"   -> [noted EXCEPT !.effects = Without(@, s)]
    [] OTHER          -> noted

\* A call takes the lock, makes its change and encodes the state.
Begin(p, c) ==
  LET m == Applied(memory[p], c, saves + 1) IN
  /\ Open(p)
  /\ \/ /\ status'[p] = "open"
        /\ Remember(p, m)
        /\ image' = [image EXCEPT ![saves'] = m]
        /\ call' = [call EXCEPT ![p] = c]
     \/ /\ status'[p] = "up"
        /\ Remember(p, Failed(m, c, saves'))
        /\ UNCHANGED <<image, call>>
  /\ UNCHANGED granted

\* The write goes on, or ends with an error.
Proceed(p) ==
  /\ Write(p) \/ Sync(p) \/ Close(p) \/ Rename(p)
  /\ \/ /\ status'[p] = "up"
        /\ Remember(p, Failed(memory[p], call[p], saving[p]))
        /\ image' = [image EXCEPT ![saving[p]] = Blank]
        /\ call' = [call EXCEPT ![p] = "none"]
     \/ status'[p] # "up" /\ UNCHANGED <<memory, image, call>>
  /\ UNCHANGED granted

\* The flush is recorded in memory only; the caller is told.
Finish(p) ==
  /\ Return(p)
  /\ Remember(p, Recorded(memory[p], "PersistenceFlushed", None))
  /\ granted' = IF call[p] = "allocate" THEN granted \cup {saving[p]} ELSE granted
  /\ call' = [call EXCEPT ![p] = "none"]
  /\ UNCHANGED image

\* reset clears trail and sequence too, and leaves the file.
Reset(p) ==
  /\ p \in Writers /\ status[p] = "up"
  /\ Remember(p, Recorded(Blank, "StateReset", None))
  /\ granted' = {}
  /\ UNCHANGED <<file, image, call>>

-----------------------------------------------------------------------------
(* Starting                                                                *)

Opened == Recorded(Blank, "RuntimeOpened", None)

Corrupt(m) == Recorded(m, "CorruptionDetected", None)

\* A process constructs its runtime, and recovers if the file exists.
Launch(p) ==
  /\ Start(p)
  /\ Remember(p, IF status'[p] = "refused" THEN Corrupt(Opened) ELSE Opened)
  /\ UNCHANGED <<image, call, granted>>

\* Mutant: the trail of the new process is kept.
RestoredBesides(s) == [Opened EXCEPT !.effects = image[s].effects]

\* Mutant: what was decoded is not taken over.
RestoredWithout(s) == [image[s] EXCEPT !.effects = {}]

\* decodeState gives back effects, trail and sequence as they were encoded.
Restored(s) == image[s]

\* recover, once the file was read: the runtime is replaced by what was
\* decoded, its own trail included, or a refusal is recorded in that.
Load(p) ==
  \/ /\ OpenToRead(p)
     /\ Keep
  \/ /\ Read(p)
     /\ Remember(p, IF status'[p] = "up" THEN Recorded(Restored(view'[p]), "RecoveryPerformed", None)
                                         ELSE Corrupt(memory[p]))
     /\ UNCHANGED <<image, call, granted>>

\* Memory is lost with its process. A refused one ends too.
Perish ==
  /\ \/ \E p \in Process : Die(p)
     \/ LosePower
  /\ memory' = [p \in Process |-> IF status'[p] = "down" THEN Blank ELSE memory[p]]
  /\ call' = [p \in Process |-> IF status'[p] = "down" THEN "none" ELSE call[p]]
  /\ UNCHANGED <<image, granted>>

-----------------------------------------------------------------------------
JournalInit ==
  /\ Init
  /\ memory = [p \in Process |-> Blank]
  /\ image = [s \in Save |-> Blank]
  /\ call = [p \in Process |-> "none"]
  /\ granted = {}

JournalNext ==
  \/ \E p \in Process :
       \/ \E c \in Call : Begin(p, c)
       \/ Proceed(p) \/ Finish(p) \/ Reset(p) \/ Launch(p) \/ Load(p)
  \/ Perish
  \/ Settle /\ Keep

JournalSpec == JournalInit /\ [][JournalNext]_allVars

-----------------------------------------------------------------------------
(* Properties                                                              *)

\* A trail as decodeState demands it: within the bound, strictly increasing,
\* and no record later than the sequence.
WellFormed(m) ==
  /\ Len(m.trail) <= MaxAudit
  /\ \A i \in DOMAIN m.trail : m.trail[i].kind \in AuditKind
  /\ \A i, j \in DOMAIN m.trail : i < j => m.trail[i].sequence < m.trail[j].sequence
  /\ \A i \in DOMAIN m.trail : m.trail[i].sequence <= m.sequence
  /\ m.effects \subseteq [change : Save, sequence : Nat]

\* Shape of the state, that of the state file included.
JournalTypeOK ==
  /\ TypeOK
  /\ \A p \in Process : WellFormed(memory[p])
  /\ \A s \in Save : WellFormed(image[s])
  /\ call \in [Process -> Call \cup {"none"}]
  /\ granted \subseteq Save

\* Memory of the running processes and the image a new one would load.
Kept == {memory[p] : p \in Process} \cup (IF path = None THEN {} ELSE {image[path]})

Changes(m) == {e.change : e \in m.effects}

Explained(m, e) ==
  \E i \in DOMAIN m.trail :
    m.trail[i] = [sequence |-> e.sequence, kind |-> "Changed", change |-> e.change]

\* Every change in effect is in the trail, unless as many later records as the
\* bound allows have driven it out: a recovered runtime explains what the
\* incarnations before it did. A change the trail has and that is not in effect
\* is followed by the failure of its save (README, "Audit"; appendAudit,
\* saveLocked, recover).
TrailExplains ==
  \A m \in Kept :
    /\ \A e \in m.effects : Explained(m, e) \/ m.sequence >= e.sequence + MaxAudit
    /\ \A i \in DOMAIN m.trail :
         m.trail[i].kind = "Changed" /\ m.trail[i].change \notin Changes(m) =>
           \E j \in DOMAIN m.trail : j > i /\ m.trail[j].kind = "PersistenceFailed"

\* An allocation that a caller was told of is owned by every incarnation that
\* follows, whatever fails or dies in between, as long as the machine keeps its
\* power (allocate's durable boundary over writeStateFile, and recover).
GrantKept ==
  \A p \in Writers :
    ~powerLost /\ status[p] \notin {"down", "sized", "reading", "refused"}
      => granted \subseteq Changes(memory[p])
=============================================================================
