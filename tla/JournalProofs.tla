--------------------------- MODULE JournalProofs ---------------------------
(***************************************************************************)
(* Proofs about StateFile and Journal when one process at a time saves to  *)
(* a path: the state file is a register that is replaced and read in one   *)
(* step, it is never torn or set back while the machine has power, what    *)
(* failed is never seen, what is whole is not refused, and a granted       *)
(* allocation is owned by every later incarnation, for any number of       *)
(* processes, of saves, and any sizes.                                     *)
(***************************************************************************)
EXTENDS Journal, TLAPS

-----------------------------------------------------------------------------
(* The inductive invariant of the state file                               *)

\* What the daemon relies on, and the file system does not enforce.
OneWriter == \A p, q \in Writers : p = q

Filling == {"open", "written", "synced", "closed"}
AtWork == Filling \cup {"renamed"}
Loading == {"down", "sized", "reading", "refused"}

\* Every number in use is that of a save that has begun; what a crash of the
\* machine brings back is no newer than what it takes away.
Begun ==
  /\ path <= saves /\ settled <= path
  /\ failed \subseteq 1..saves
  /\ path # None => WithinBound(path)
  /\ \A f \in Save : f > saves => synced[f] = 0

\* What was published did not fail, and is whole while the machine has power.
Published ==
  /\ path \notin failed /\ settled \notin failed
  /\ settled # None => WithinBound(settled)
  /\ ~powerLost => /\ path # None => Whole(path)
                   /\ acked <= path

\* The file a writer fills is the newest one, and nobody has seen it; once it
\* was renamed it stays in place until its writer has returned.
WriterOK(p) ==
  /\ status[p] \in AtWork => p \in Writers /\ saves # 0 /\ saving[p] = saves
  /\ status[p] \in Filling => /\ temporary = saves /\ path < saves
                              /\ saves \notin failed /\ WithinBound(saves)
  /\ status[p] = "open" => synced[saves] = 0
  /\ status[p] \in {"closed", "renamed"} => Whole(saves)
  /\ status[p] = "renamed" => path = saves

\* A reader has the size of the file it saw first and then a file no older;
\* what it recovered is that file, complete.
ReaderOK(p) ==
  /\ handle[p].since <= path /\ handle[p].file <= path
  /\ handle[p].file \notin failed
  /\ handle[p].file # None => handle[p].since <= handle[p].file
  /\ status[p] = "down" => handle[p] = NoHandle
  /\ status[p] \in {"sized", "reading"} =>
       handle[p].since # None /\ handle[p].size = length[handle[p].since]
  /\ status[p] = "reading" => handle[p].file # None
  /\ status[p] = "refused" =>
       handle[p].since # None /\ (path # handle[p].since \/ ~Whole(path))
  /\ status[p] \in Loading => view[p] = None
  /\ view[p] # None => view[p] = handle[p].file /\ handle[p].size = Size[view[p]]

\* The inductive invariant of the state file, for one writer.
FileInv ==
  /\ TypeOK /\ Begun /\ Published
  /\ \A p \in Process : WriterOK(p) /\ ReaderOK(p)

-----------------------------------------------------------------------------
(* Steps of one side leave the other alone                                 *)

\* What the parts of the type invariant say of one process.
LEMMA Types ==
  ASSUME TypeOK, NEW p \in Process
  PROVE  /\ path \in Nat /\ temporary \in Nat /\ settled \in Nat /\ acked \in Nat
         /\ saving[p] \in Nat /\ view[p] \in Nat
         /\ handle[p].since \in Nat /\ handle[p].file \in Nat /\ handle[p].size \in Nat
         /\ saves \in Nat /\ status[p] \in Status
<1>1. Name \subseteq Nat
  BY StateFileAssumption DEF Name, Save, None
<1>2. handle[p] \in [since : Name, size : Nat, file : Name]
  BY DEF TypeOK
<1>3. saving[p] \in Name /\ view[p] \in Name
  BY DEF TypeOK
<1>4. saves \in Nat /\ status[p] \in Status
  BY StateFileAssumption DEF TypeOK
<1>5. path \in Name /\ temporary \in Name /\ settled \in Name /\ acked \in Name
  BY DEF TypeOK
<1> QED
  BY <1>1, <1>2, <1>3, <1>4, <1>5

\* Nobody saves beside the only writer.
LEMMA Alone ==
  ASSUME OneWriter, FileInv, NEW p \in Writers, NEW q \in Process, q # p
  PROVE  status[q] \notin AtWork
BY DEF OneWriter, FileInv, WriterOK

\* Readers see nothing of a save but that the state path moves on to a newer
\* file, and what is new has not been seen by them.
LEMMA ReadersUndisturbed ==
  ASSUME FileInv, NEW q \in Process,
         handle'[q] = handle[q], view'[q] = view[q],
         path' = path \/ (path' \in Nat /\ path < path'),
         \A s \in failed' : s \in failed \/ s > path,
         \A f \in Save : f <= path => length'[f] = length[f],
         \/ status'[q] = status[q]
         \/ status[q] \notin Loading /\ status'[q] \notin Loading
  PROVE  ReaderOK(q)'
<1>1. TypeOK /\ Begun /\ ReaderOK(q)
  BY DEF FileInv
<1>2. /\ path \in Nat /\ handle[q].since \in Name /\ handle[q].file \in Name
      /\ path \in Name /\ view[q] \in Name
  BY <1>1, Types DEF TypeOK
<1>3. handle[q].file \notin failed'
  BY <1>1, <1>2, Types DEF ReaderOK
<1>4. handle[q].since # None => length'[handle[q].since] = length[handle[q].since]
  BY <1>1, <1>2 DEF ReaderOK, Name
<1>5. path # None => (Whole(path) <=> length'[path] = Size[path])
  BY <1>1, <1>2 DEF Whole, Name
<1>6. handle[q].since <= path' /\ handle[q].file <= path'
  BY <1>1, <1>2, Types DEF ReaderOK
<1>7. status'[q] = "refused" =>
        handle[q].since # None /\ (path' # handle[q].since \/ length'[path'] # Size[path'])
  BY <1>1, <1>2, <1>5, Types DEF ReaderOK, Loading
<1> QED
  BY <1>1, <1>3, <1>4, <1>6, <1>7 DEF ReaderOK, Whole, Loading

\* Writers see nothing of a read, nor of a process that ends.
LEMMA WritersUndisturbed ==
  ASSUME FileInv, UNCHANGED <<names, contents, history>>,
         \A q \in Process : status'[q] \in AtWork => /\ status'[q] = status[q]
                                                     /\ saving'[q] = saving[q]
  PROVE  Begun' /\ Published' /\ \A q \in Process : WriterOK(q)'
<1>1. Begun /\ Published /\ \A q \in Process : WriterOK(q)
  BY DEF FileInv
<1>2. Begun' /\ Published'
  BY <1>1 DEF Begun, Published, WithinBound, Whole, names, contents, history
<1>3. ASSUME NEW q \in Process
      PROVE  WriterOK(q)'
  BY <1>1 DEF WriterOK, WithinBound, Whole, names, contents, history, AtWork, Filling
<1> QED
  BY <1>2, <1>3

-----------------------------------------------------------------------------
(* A save                                                                  *)

\* The initial states.
LEMMA FileInitially == Init => FileInv
<1> SUFFICES ASSUME Init PROVE FileInv
  OBVIOUS
<1>1. TypeOK
  <2>1. /\ path \in Name /\ temporary \in Name /\ settled \in Name /\ acked \in Name
        /\ failed \subseteq Save /\ powerLost \in BOOLEAN
    BY DEF Init, Name, Save
  <2>2. /\ length \in [Save -> Nat] /\ synced \in [Save -> Nat] /\ saves \in 0..MaxSaves
        /\ \A f \in Save : synced[f] <= length[f] /\ length[f] <= Size[f]
    BY StateFileAssumption DEF Init
  <2>3. /\ status \in [Process -> Status] /\ saving \in [Process -> Name]
        /\ view \in [Process -> Name]
        /\ handle \in [Process -> [since : Name, size : Nat, file : Name]]
    BY DEF Init, NoHandle, Name, Status
  <2> QED
    BY <2>1, <2>2, <2>3 DEF TypeOK
<1>2. Begun /\ Published
  BY DEF Init, Begun, Published, None
<1>3. ASSUME NEW p \in Process
      PROVE  WriterOK(p) /\ ReaderOK(p)
  BY <1>3 DEF Init, WriterOK, ReaderOK, AtWork, Filling, Loading, NoHandle, None
<1> QED
  BY <1>1, <1>2, <1>3 DEF FileInv

\* What a step of a save has to keep: the part of its own writer, and that
\* nobody else is concerned.
LEMMA SaveSafe ==
  ASSUME OneWriter, FileInv, NEW p \in Writers,
         TypeOK', Begun', Published', WriterOK(p)',
         UNCHANGED reading,
         path' = path \/ (path' \in Nat /\ path < path'),
         \A s \in failed' : s \in failed \/ s > path,
         \A f \in Save : f <= path => length'[f] = length[f],
         status[p] \notin Loading, status'[p] \notin Loading,
         \A q \in Process \ {p} : status'[q] = status[q]
  PROVE  FileInv'
<1>1. p \in Process
  BY StateFileAssumption
<1>2. ASSUME NEW q \in Process
      PROVE  ReaderOK(q)'
  <2>1. handle'[q] = handle[q] /\ view'[q] = view[q]
    BY DEF reading
  <2>2. \/ status'[q] = status[q]
        \/ status[q] \notin Loading /\ status'[q] \notin Loading
    OBVIOUS
  <2> QED
    BY <2>1, <2>2, ReadersUndisturbed
<1>3. ASSUME NEW q \in Process, q # p
      PROVE  WriterOK(q)'
  <2>1. status'[q] \notin AtWork
    BY Alone, <1>3
  <2> QED
    BY <2>1 DEF WriterOK, AtWork, Filling
<1>4. ASSUME NEW q \in Process
      PROVE  WriterOK(q)' /\ ReaderOK(q)'
  <2>1. CASE q = p
    BY <1>2, <2>1
  <2>2. CASE q # p
    BY <1>2, <1>3, <2>2
  <2> QED
    BY <2>1, <2>2
<1> QED
  BY <1>4 DEF FileInv

\* A save begins, or fails before it has written anything.
LEMMA OpenSafe ==
  ASSUME OneWriter, FileInv, NEW p \in Process, Open(p)
  PROVE  FileInv'
<1>0. TypeOK /\ Begun /\ Published /\ p \in Writers
  BY DEF FileInv, Open
<1>1. saves' = saves + 1 /\ saves \in Nat /\ saves' \in Save /\ path \in Nat /\ settled \in Nat
      /\ acked \in Nat
  <2>1. saves \in Nat /\ path \in Nat /\ settled \in Nat /\ acked \in Nat
    BY <1>0, Types
  <2>2. saves < MaxSaves /\ saves' = saves + 1
    BY DEF Open
  <2> QED
    BY <2>1, <2>2, StateFileAssumption DEF Save
<1>2. /\ status[p] = "up" /\ status'[p] \in {"up", "open"}
      /\ \A q \in Process \ {p} : status'[q] = status[q]
  BY <1>0 DEF Open, At, TypeOK
<1>3. TypeOK'
  <2>1. failed' \subseteq Save /\ temporary' \in Name /\ saving' \in [Process -> Name]
    BY <1>0, <1>1 DEF Open, TypeOK, Name
  <2>2. saves' \in 0..MaxSaves
    BY <1>1, StateFileAssumption DEF Save
  <2>3. status' \in [Process -> Status]
    BY <1>0 DEF Open, At, TypeOK, Status
  <2> QED
    BY <1>0, <2>1, <2>2, <2>3 DEF Open, TypeOK, reading
<1>4. failed' \subseteq failed \cup {saves'} /\ path < saves'
  BY <1>0, <1>1 DEF Open, Begun
<1>5. Begun'
  <2>1. failed' \subseteq 1..saves'
    BY <1>0, <1>1, <1>4 DEF Begun
  <2> QED
    BY <1>0, <1>1, <2>1 DEF Begun, Open, WithinBound
<1>6. Published'
  BY <1>0, <1>1, <1>4 DEF Published, Begun, Open, WithinBound, Whole
<1>7. WriterOK(p)'
  <2>1. CASE status'[p] = "open"
    <3>1. /\ WithinBound(saves') /\ temporary' = saves' /\ saving'[p] = saves'
          /\ failed' = failed
      BY <2>1, <1>0, <1>2 DEF Open, At, TypeOK
    <3>2. saves' \notin failed' /\ synced'[saves'] = 0
      BY <3>1, <1>0, <1>1 DEF Begun, Open
    <3> QED
      BY <2>1, <3>1, <3>2, <1>0, <1>1, <1>4 DEF WriterOK, Open, WithinBound, AtWork, Filling
  <2>2. CASE status'[p] = "up"
    BY <2>2 DEF WriterOK, AtWork, Filling
  <2> QED
    BY <2>1, <2>2, <1>2
<1>8. /\ UNCHANGED reading /\ path' = path
      /\ \A f \in Save : f <= path => length'[f] = length[f]
      /\ \A s \in failed' : s \in failed \/ s > path
      /\ status[p] \notin Loading /\ status'[p] \notin Loading
  BY <1>1, <1>2, <1>4 DEF Open, Loading
<1>9. path' = path \/ (path' \in Nat /\ path < path')
  BY <1>8
<1> QED
  BY <1>0, <1>2, <1>3, <1>5, <1>6, <1>7, <1>8, <1>9, SaveSafe, Zenon

\* A save that ends with an error.
LEMMA AbandonSafe ==
  ASSUME OneWriter, FileInv, NEW p \in Process, status[p] \in Filling,
         At(p, status[p], "up"), Abandon(p), UNCHANGED contents, UNCHANGED reading
  PROVE  FileInv'
<1>0. TypeOK /\ Begun /\ Published /\ WriterOK(p)
  BY DEF FileInv
<1>1. /\ p \in Writers /\ saving[p] = saves /\ path < saves /\ saves # 0
      /\ saves \in Nat /\ saves \in Save /\ path \in Nat /\ settled \in Nat
  <2>1. p \in Writers /\ saving[p] = saves /\ path < saves /\ saves # 0
    BY <1>0 DEF WriterOK, AtWork
  <2>2. saves \in Nat /\ path \in Nat /\ settled \in Nat
    BY <1>0, Types
  <2>3. saves \in 0..MaxSaves
    BY <1>0 DEF TypeOK
  <2>4. saves \in Save
    BY <2>1, <2>3, StateFileAssumption DEF Save
  <2> QED
    BY <2>1, <2>2, <2>4
<1>2. /\ status'[p] = "up" /\ status[p] \notin Loading
      /\ \A q \in Process \ {p} : status'[q] = status[q]
  BY <1>0 DEF At, TypeOK, Filling, Loading
<1>3. failed' = failed \cup {saves} /\ temporary' = None
  BY <1>1 DEF Abandon
<1>4. TypeOK'
  <2>1. saving' \in [Process -> Name] /\ status' \in [Process -> Status]
    BY <1>0 DEF Abandon, SaveEnds, At, TypeOK, Name, Status
  <2> QED
    BY <1>0, <1>1, <1>3, <2>1 DEF Abandon, TypeOK, Name, contents, reading
<1>5. Begun'
  <2>1. UNCHANGED <<saves, synced, path, settled>>
    BY DEF contents, Abandon
  <2>2. failed' \subseteq 1..saves'
    BY <1>0, <1>1, <1>3, <2>1 DEF Begun
  <2> QED
    BY <1>0, <2>1, <2>2 DEF Begun, WithinBound
<1>6. Published'
  BY <1>0, <1>1, <1>3 DEF Published, Begun, Abandon, contents, WithinBound, Whole
<1>7. WriterOK(p)'
  BY <1>2 DEF WriterOK, AtWork, Filling
<1>8. /\ path' = path
      /\ \A f \in Save : f <= path => length'[f] = length[f]
      /\ \A s \in failed' : s \in failed \/ s > path
      /\ status[p] \notin Loading /\ status'[p] \notin Loading
  BY <1>1, <1>2, <1>3 DEF Abandon, contents, Loading
<1>9. path' = path \/ (path' \in Nat /\ path < path')
  BY <1>8
<1> QED
  BY <1>1, <1>2, <1>4, <1>5, <1>6, <1>7, <1>8, <1>9, SaveSafe, Zenon

\* A step that only fills the file and moves its writer on.
LEMMA FillSafe ==
  ASSUME OneWriter, FileInv, NEW p \in Process, status[p] \in Filling,
         NEW t \in {"written", "synced", "closed"}, At(p, status[p], t),
         NEW n \in 0..Size[saves], length' = [length EXCEPT ![saves] = n],
         synced' \in [Save -> Nat], \A f \in Save : synced'[f] <= length'[f],
         \A f \in Save \ {saves} : synced'[f] = synced[f],
         t = "closed" => n = Size[saves],
         UNCHANGED <<names, saves, saving, reading, history>>
  PROVE  FileInv'
<1>0. TypeOK /\ Begun /\ Published /\ WriterOK(p)
  BY DEF FileInv
<1>1. /\ p \in Writers /\ saving[p] = saves /\ path < saves /\ saves # 0
      /\ temporary = saves
  BY <1>0 DEF WriterOK, AtWork
<1>b. saves \in Nat /\ saves \in Save /\ path \in Nat /\ settled \in Nat
  <2>1. saves \in 0..MaxSaves /\ MaxSaves \in Nat
    BY <1>0, StateFileAssumption DEF TypeOK
  <2> QED
    BY <1>0, <1>1, <2>1, Types DEF Save
<1>2. /\ status'[p] = t /\ status[p] \notin Loading
      /\ \A q \in Process \ {p} : status'[q] = status[q]
  BY <1>0 DEF At, TypeOK, Filling, Loading
<1>3. TypeOK'
  <2>1. Size[saves] \in Nat /\ n \in Nat /\ n <= Size[saves]
    BY <1>b, StateFileAssumption
  <2>2. length' \in [Save -> Nat] /\ \A f \in Save : length'[f] <= Size[f]
    BY <1>0, <1>1, <1>b, <2>1 DEF TypeOK
  <2>3. status' \in [Process -> Status]
    BY <1>0 DEF At, TypeOK, Status
  <2> QED
    BY <1>0, <2>2, <2>3 DEF TypeOK, names, reading, history
<1>4. Begun'
  <2>1. \A f \in Save : f > saves => synced'[f] = 0
    BY <1>0, <1>b DEF Begun
  <2> QED
    BY <1>0, <2>1 DEF Begun, names, history, WithinBound
<1>5. \A f \in Save : f <= path => length'[f] = length[f]
  BY <1>0, <1>1, <1>b DEF TypeOK
<1>6. Published'
  <2>1. path # None => path \in Save
    BY <1>0 DEF TypeOK, Name
  <2> QED
    BY <1>0, <1>1, <1>b, <1>5, <2>1 DEF Published, names, history, WithinBound, Whole
<1>7. WriterOK(p)'
  <2>1. length'[saves] = n
    BY <1>0, <1>1, <1>b DEF TypeOK
  <2> QED
    BY <1>0, <1>1, <1>b, <1>2, <2>1
       DEF WriterOK, names, history, WithinBound, Whole, AtWork, Filling
<1>8. /\ path' = path
      /\ \A s \in failed' : s \in failed \/ s > path
      /\ status[p] \notin Loading /\ status'[p] \notin Loading
  BY <1>2 DEF names, history, Loading
<1>9. path' = path \/ (path' \in Nat /\ path < path')
  BY <1>8
<1> QED
  BY <1>1, <1>2, <1>3, <1>4, <1>5, <1>6, <1>7, <1>8, <1>9, SaveSafe, Zenon

\* The writer at a stage of a save, and the newest file.
LEMMA AtStage ==
  ASSUME FileInv, NEW p \in Process, status[p] \in AtWork
  PROVE  /\ p \in Writers /\ saving[p] = saves /\ saves \in Save /\ saves \in Nat
         /\ Size[saves] \in Nat /\ path \in Nat /\ length \in [Save -> Nat]
         /\ length[saves] <= Size[saves]
<1>1. TypeOK /\ WriterOK(p)
  BY DEF FileInv
<1>2. p \in Writers /\ saving[p] = saves /\ saves # 0
  BY <1>1 DEF WriterOK
<1>3. saves \in Nat /\ saves \in Save
  <2>1. saves \in 0..MaxSaves /\ MaxSaves \in Nat
    BY <1>1, StateFileAssumption DEF TypeOK
  <2> QED
    BY <1>2, <2>1 DEF Save
<1>4. Size[saves] \in Nat /\ path \in Nat
  BY <1>1, <1>3, Types, StateFileAssumption
<1> QED
  BY <1>1, <1>2, <1>3, <1>4 DEF TypeOK

\* fwrite, which fills the new file or ends the save.
LEMMA WriteSafe ==
  ASSUME OneWriter, FileInv, NEW p \in Process, Write(p)
  PROVE  FileInv'
<1>1. status[p] = "open" /\ status[p] \in Filling /\ status[p] \in AtWork
  BY DEF Write, At, Filling, AtWork
<1>2. saving[p] = saves /\ TypeOK /\ saves \in Save
  BY <1>1, AtStage DEF FileInv
<1>3. CASE At(p, "open", "up") /\ Abandon(p) /\ UNCHANGED length
  <2>1. At(p, status[p], "up") /\ UNCHANGED contents /\ UNCHANGED reading
    BY <1>1, <1>3 DEF Write, contents, At
  <2> QED
    BY <1>1, <1>3, <2>1, AbandonSafe
<1>4. CASE /\ At(p, "open", "written")
           /\ \E n \in 0..Size[saving[p]] : length' = [length EXCEPT ![saving[p]] = n]
           /\ UNCHANGED <<names, saving, history>>
  <2>1. PICK n \in 0..Size[saves] : length' = [length EXCEPT ![saves] = n]
    BY <1>2, <1>4
  <2>2. UNCHANGED <<names, saves, saving, reading, history, synced>>
    BY <1>4 DEF Write
  <2>3. \A f \in Save : synced'[f] <= length'[f]
    <3>1. synced[saves] = 0 /\ length \in [Save -> Nat] /\ synced \in [Save -> Nat]
      BY <1>1, <1>2 DEF FileInv, WriterOK, TypeOK
    <3>2. \A f \in Save : synced[f] <= length[f]
      BY <1>2 DEF TypeOK
    <3> QED
      BY <2>1, <2>2, <3>1, <3>2
  <2>4. synced' \in [Save -> Nat] /\ \A f \in Save \ {saves} : synced'[f] = synced[f]
    BY <1>2, <2>2 DEF TypeOK
  <2>5. At(p, status[p], "written")
    BY <1>1, <1>4
  <2> QED
    BY <1>1, <2>1, <2>2, <2>3, <2>4, <2>5, FillSafe
<1> QED
  BY <1>3, <1>4 DEF Write

\* fsync, which puts on the medium no more than the file has.
LEMMA SyncSafe ==
  ASSUME OneWriter, FileInv, NEW p \in Process, Sync(p)
  PROVE  FileInv'
<1>1. status[p] = "written" /\ status[p] \in Filling /\ status[p] \in AtWork
  BY DEF Sync, At, Filling, AtWork
<1>2. saving[p] = saves /\ TypeOK /\ saves \in Save /\ length \in [Save -> Nat]
      /\ length[saves] <= Size[saves] /\ Size[saves] \in Nat /\ length[saves] \in Nat
  BY <1>1, AtStage DEF FileInv
<1>3. length' = [length EXCEPT ![saves] = length[saves]] /\ length[saves] \in 0..Size[saves]
  BY <1>2 DEF Sync
<1>4. \/ synced' = [synced EXCEPT ![saves] = length[saves]]
      \/ synced' = synced
  BY <1>2 DEF Sync, Flushed
<1>5. synced \in [Save -> Nat] /\ \A f \in Save : synced[f] <= length[f]
  BY <1>2 DEF TypeOK
<1>6. /\ synced' \in [Save -> Nat] /\ \A f \in Save \ {saves} : synced'[f] = synced[f]
      /\ \A f \in Save : synced'[f] <= length[f]
  BY <1>2, <1>4, <1>5
<1>7. \A f \in Save : synced'[f] <= length'[f]
  BY <1>6 DEF Sync
<1>8. UNCHANGED <<names, saves, saving, reading, history>> /\ At(p, status[p], "synced")
  BY <1>1 DEF Sync
<1> QED
  BY <1>1, <1>3, <1>6, <1>7, <1>8, FillSafe

\* fclose, after which the file is whole.
LEMMA CloseSafe ==
  ASSUME OneWriter, FileInv, NEW p \in Process, Close(p)
  PROVE  FileInv'
<1>1. status[p] = "synced" /\ status[p] \in Filling /\ status[p] \in AtWork
  BY DEF Close, At, Filling, AtWork
<1>2. saving[p] = saves /\ TypeOK /\ saves \in Save /\ length[saves] <= Size[saves]
      /\ Size[saves] \in Nat
  BY <1>1, AtStage DEF FileInv
<1>3. CASE At(p, "synced", "up") /\ Abandon(p) /\ UNCHANGED length
  <2>1. At(p, status[p], "up") /\ UNCHANGED contents /\ UNCHANGED reading
    BY <1>1, <1>3 DEF Close, contents
  <2> QED
    BY <1>1, <1>3, <2>1, AbandonSafe
<1>4. CASE /\ At(p, "synced", "closed")
           /\ length' = [length EXCEPT ![saving[p]] = Size[saving[p]]]
           /\ UNCHANGED <<names, saving, history>>
  <2>1. length' = [length EXCEPT ![saves] = Size[saves]] /\ Size[saves] \in 0..Size[saves]
    BY <1>2, <1>4
  <2>2. UNCHANGED <<names, saves, saving, reading, history, synced>>
    BY <1>4 DEF Close
  <2>3. length \in [Save -> Nat] /\ synced \in [Save -> Nat]
        /\ \A f \in Save : synced[f] <= length[f]
    BY <1>2 DEF TypeOK
  <2>4. synced' \in [Save -> Nat] /\ \A f \in Save \ {saves} : synced'[f] = synced[f]
    BY <2>2, <2>3
  <2>5. \A f \in Save : synced'[f] <= length'[f]
    BY <1>2, <2>1, <2>2, <2>3
  <2>6. At(p, status[p], "closed")
    BY <1>1, <1>4
  <2> QED
    BY <1>1, <2>1, <2>2, <2>4, <2>5, <2>6, FillSafe
<1> QED
  BY <1>3, <1>4 DEF Close

\* rename, which publishes the newest file.
LEMMA RenameSafe ==
  ASSUME OneWriter, FileInv, NEW p \in Process, Rename(p)
  PROVE  FileInv'
<1>1. status[p] = "closed" /\ status[p] \in Filling /\ status[p] \in AtWork
  BY DEF Rename, At, Filling, AtWork
<1>2. /\ p \in Writers /\ saving[p] = saves /\ saves \in Save /\ saves \in Nat /\ path \in Nat
      /\ TypeOK /\ Begun /\ Published /\ WriterOK(p)
  BY <1>1, AtStage DEF FileInv
<1>3. CASE At(p, "closed", "up") /\ Abandon(p)
  <2>1. At(p, status[p], "up") /\ UNCHANGED contents /\ UNCHANGED reading
    BY <1>1, <1>3 DEF Rename
  <2> QED
    BY <1>1, <1>3, <2>1, AbandonSafe
<1>4. CASE /\ temporary # None
           /\ At(p, "closed", "renamed")
           /\ path' = temporary /\ temporary' = None
           /\ UNCHANGED <<settled, saving, history>>
  <2>1. /\ path' = saves /\ temporary' = None /\ path < saves /\ saves \notin failed
        /\ WithinBound(saves) /\ Whole(saves)
    BY <1>1, <1>2, <1>4 DEF WriterOK, Filling
  <2>2. UNCHANGED <<settled, saving, history, contents, reading>>
    BY <1>4 DEF Rename
  <2>3. /\ status'[p] = "renamed"
        /\ \A q \in Process \ {p} : status'[q] = status[q]
    BY <1>2, <1>4 DEF At, TypeOK
  <2>4. TypeOK'
    <3>1. status' \in [Process -> Status]
      BY <1>2, <1>4 DEF At, TypeOK, Status
    <3>2. path' \in Name /\ temporary' \in Name
      BY <1>2, <2>1 DEF Name
    <3> QED
      BY <1>2, <2>2, <3>1, <3>2 DEF TypeOK, contents, reading, history
  <2>5. settled \in Nat /\ acked \in Nat
    BY <1>2, Types
  <2>6. Begun'
    <3>1. settled' <= path' /\ path' <= saves'
      BY <1>2, <2>1, <2>2, <2>5 DEF Begun, contents
    <3> QED
      BY <1>2, <2>1, <2>2, <3>1 DEF Begun, WithinBound, contents, history
  <2>7. Published'
    <3>1. ~powerLost => acked <= path'
      BY <1>2, <2>1, <2>5 DEF Published
    <3> QED
      BY <1>2, <2>1, <2>2, <3>1 DEF Published, WithinBound, Whole, contents, history
  <2>8. WriterOK(p)'
    <3>1. Whole(saves)'
      BY <2>1, <2>2 DEF Whole, contents
    <3> QED
      BY <1>2, <2>1, <2>2, <2>3, <3>1 DEF WriterOK, AtWork, Filling, contents
  <2>9. /\ path' = path \/ (path' \in Nat /\ path < path')
        /\ \A s \in failed' : s \in failed \/ s > path
        /\ \A f \in Save : f <= path => length'[f] = length[f]
        /\ status[p] \notin Loading /\ status'[p] \notin Loading
        /\ UNCHANGED reading
    BY <1>1, <1>2, <2>1, <2>2, <2>3 DEF history, contents, Loading
  <2> QED
    BY <1>2, <2>3, <2>4, <2>6, <2>7, <2>8, <2>9, SaveSafe, Zenon
<1> QED
  BY <1>3, <1>4 DEF Rename

\* The caller is told.
LEMMA ReturnSafe ==
  ASSUME OneWriter, FileInv, NEW p \in Process, Return(p)
  PROVE  FileInv'
<1>1. status[p] = "renamed" /\ status[p] \in AtWork
  BY DEF Return, At, AtWork
<1>2. /\ p \in Writers /\ saving[p] = saves /\ saves \in Save /\ saves \in Nat /\ path \in Nat
      /\ TypeOK /\ Begun /\ Published /\ WriterOK(p)
  BY <1>1, AtStage DEF FileInv
<1>3. /\ status'[p] = "up"
      /\ \A q \in Process \ {p} : status'[q] = status[q]
  BY <1>2 DEF Return, At, TypeOK
<1>4. acked' = saves /\ path = saves
  BY <1>1, <1>2 DEF Return, WriterOK
<1>5. TypeOK'
  <2>1. status' \in [Process -> Status] /\ saving' \in [Process -> Name]
    BY <1>2 DEF Return, At, SaveEnds, TypeOK, Status, Name
  <2> QED
    BY <1>2, <1>4, <2>1 DEF Return, TypeOK, names, contents, reading, Name
<1>6. Begun' /\ Published'
  BY <1>2, <1>4 DEF Return, Begun, Published, names, contents, WithinBound, Whole
<1>7. WriterOK(p)'
  BY <1>3 DEF WriterOK, AtWork, Filling
<1>8. /\ path' = path \/ (path' \in Nat /\ path < path')
      /\ \A s \in failed' : s \in failed \/ s > path
      /\ \A f \in Save : f <= path => length'[f] = length[f]
      /\ status[p] \notin Loading /\ status'[p] \notin Loading
      /\ UNCHANGED reading
  BY <1>1, <1>3 DEF Return, names, contents, Loading
<1> QED
  BY <1>2, <1>3, <1>5, <1>6, <1>7, <1>8, SaveSafe, Zenon

-----------------------------------------------------------------------------
(* A read, and what ends it                                                *)

\* What a step of one reader has to keep: its own part.
LEMMA ReadSafely ==
  ASSUME FileInv, NEW p \in Process, UNCHANGED <<names, contents, saving, history>>,
         handle' \in [Process -> [since : Name, size : Nat, file : Name]],
         view' \in [Process -> Name],
         NEW t \in Loading \cup {"up"}, status' = [status EXCEPT ![p] = t],
         \A q \in Process \ {p} : handle'[q] = handle[q] /\ view'[q] = view[q],
         ReaderOK(p)'
  PROVE  FileInv'
<1>1. TypeOK
  BY DEF FileInv
<1>2. /\ status'[p] = t
      /\ \A q \in Process \ {p} : status'[q] = status[q]
  BY <1>1 DEF TypeOK
<1>3. TypeOK'
  <2>1. status' \in [Process -> Status]
    BY <1>1 DEF TypeOK, Status, Loading
  <2> QED
    BY <1>1, <2>1 DEF TypeOK, names, contents, history
<1>4. Begun' /\ Published' /\ \A q \in Process : WriterOK(q)'
  <2>1. \A q \in Process : status'[q] \in AtWork => /\ status'[q] = status[q]
                                                    /\ saving'[q] = saving[q]
    BY <1>2 DEF AtWork, Filling, Loading
  <2> QED
    BY <2>1, WritersUndisturbed
<1>5. ASSUME NEW q \in Process, q # p
      PROVE  ReaderOK(q)'
  <2>1. /\ handle'[q] = handle[q] /\ view'[q] = view[q] /\ path' = path
        /\ \A s \in failed' : s \in failed \/ s > path
        /\ \A f \in Save : f <= path => length'[f] = length[f]
        /\ status'[q] = status[q]
    BY <1>2, <1>5 DEF names, contents, history
  <2> QED
    BY <2>1, ReadersUndisturbed, Zenon
<1> QED
  BY <1>3, <1>4, <1>5 DEF FileInv

\* A process looks for the file, and sizes it.
LEMMA StartSafe ==
  ASSUME FileInv, NEW p \in Process, Start(p)
  PROVE  FileInv'
<1>1. TypeOK /\ Begun /\ Published /\ ReaderOK(p)
  BY DEF FileInv
<1>2. status[p] = "down" /\ handle[p] = NoHandle /\ view[p] = None
  BY <1>1 DEF Start, At, ReaderOK, Loading
<1>3. /\ UNCHANGED <<names, contents, saving, history>> /\ view' = view
      /\ view' \in [Process -> Name] /\ path \in Nat /\ path \in Name
  BY <1>1, Types DEF Start, TypeOK
<1>4. CASE path = None
  <2>1. handle' = handle /\ status' = [status EXCEPT ![p] = "up"] /\ status'[p] = "up"
    BY <1>1, <1>4 DEF Start, At, TypeOK
  <2>2. ReaderOK(p)'
    BY <1>1, <1>2, <1>3, <2>1 DEF ReaderOK, names, contents, history, Loading, NoHandle, None
  <2> QED
    BY <1>1, <1>3, <2>1, <2>2, ReadSafely DEF TypeOK, Loading
<1>5. CASE path # None
  <2>1. path \in Save /\ length[path] \in Nat
    BY <1>1, <1>3, <1>5 DEF TypeOK, Name
  <2>2. PICK t \in {"sized", "refused"} :
          /\ status' = [status EXCEPT ![p] = t]
          /\ t = "refused" => ~(length[path] <= MaxBytes)
    BY <1>5 DEF Start, At
  <2>3. handle' = [handle EXCEPT ![p] = [since |-> path, size |-> length[path], file |-> None]]
    BY <1>5 DEF Start
  <2>4. /\ handle' \in [Process -> [since : Name, size : Nat, file : Name]]
        /\ handle'[p] = [since |-> path, size |-> length[path], file |-> None]
        /\ \A q \in Process \ {p} : handle'[q] = handle[q]
    BY <1>1, <1>3, <2>1, <2>3 DEF TypeOK, Name
  <2>5. status'[p] = t
    BY <1>1, <2>2 DEF TypeOK
  <2>6. t = "refused" => ~Whole(path)
    <3>1. Size[path] <= MaxBytes
      BY <1>1, <1>5 DEF Begun, WithinBound
    <3> QED
      BY <2>2, <3>1 DEF Whole
  <2>7. None \notin failed /\ 0 <= path
    BY <1>1, <1>3 DEF TypeOK, Save, None
  <2>8. ReaderOK(p)'
    BY <1>2, <1>3, <1>5, <2>1, <2>2, <2>4, <2>5, <2>6, <2>7
       DEF ReaderOK, names, contents, history, Loading, Whole, None
  <2>9. t \in Loading \cup {"up"}
    BY DEF Loading
  <2> QED
    BY <1>3, <2>2, <2>4, <2>8, <2>9, ReadSafely
<1> QED
  BY <1>4, <1>5

\* The file that is opened may be newer than the one that was sized.
LEMMA OpenToReadSafe ==
  ASSUME FileInv, NEW p \in Process, OpenToRead(p)
  PROVE  FileInv'
<1>1. TypeOK /\ Begun /\ Published /\ ReaderOK(p)
  BY DEF FileInv
<1>2. /\ status[p] = "sized" /\ status' = [status EXCEPT ![p] = "reading"]
      /\ status'[p] = "reading"
  BY <1>1 DEF OpenToRead, At, TypeOK
<1>3. /\ UNCHANGED <<names, contents, saving, history>> /\ view' = view
      /\ view' \in [Process -> Name] /\ path \in Nat /\ path \in Name
      /\ handle[p].since \in Nat
  BY <1>1, Types DEF OpenToRead, TypeOK
<1>4. handle' = [handle EXCEPT ![p].file = path]
  BY DEF OpenToRead
<1>5. /\ handle' \in [Process -> [since : Name, size : Nat, file : Name]]
      /\ handle'[p].file = path /\ handle'[p].since = handle[p].since
      /\ handle'[p].size = handle[p].size
      /\ \A q \in Process \ {p} : handle'[q] = handle[q]
  BY <1>1, <1>3, <1>4 DEF TypeOK
<1>6. path # None
  BY <1>1, <1>2, <1>3 DEF ReaderOK, None
<1>7. ReaderOK(p)'
  BY <1>1, <1>2, <1>3, <1>5, <1>6 DEF ReaderOK, Published, names, contents, history, Loading
<1> QED
  BY <1>2, <1>3, <1>5, <1>7, ReadSafely DEF Loading

\* What is read is whole, or refused.
LEMMA ReadSafe ==
  ASSUME FileInv, NEW p \in Process, Read(p)
  PROVE  FileInv'
<1> DEFINE accepted == /\ handle[p].size <= length[handle[p].file]
                       /\ Decodes(handle[p].file, handle[p].size)
<1>1. TypeOK /\ Begun /\ Published /\ ReaderOK(p)
  BY DEF FileInv
<1>2. /\ UNCHANGED <<names, contents, saving, history>> /\ handle' = handle
      /\ handle' \in [Process -> [since : Name, size : Nat, file : Name]]
      /\ status[p] = "reading"
  BY <1>1 DEF Read, At, TypeOK
<1>3. /\ handle[p].since # None /\ handle[p].size = length[handle[p].since]
      /\ handle[p].file # None /\ handle[p].since <= handle[p].file
      /\ handle[p].file <= path /\ view[p] = None
  BY <1>1, <1>2 DEF ReaderOK, Loading
<1>4. /\ handle[p].since \in Nat /\ handle[p].file \in Nat /\ handle[p].size \in Nat
      /\ handle[p].file \in Name /\ path \in Nat /\ handle[p].file \in Save
      /\ length[handle[p].file] \in Nat
  BY <1>1, <1>3, Types DEF TypeOK, Name
<1>5. CASE At(p, "reading", "up") /\ accepted /\ view' = [view EXCEPT ![p] = handle[p].file]
  <2>1. /\ view' \in [Process -> Name] /\ view'[p] = handle[p].file
        /\ \A q \in Process \ {p} : view'[q] = view[q]
        /\ status'[p] = "up"
    BY <1>1, <1>4, <1>5 DEF TypeOK, At
  <2>2. handle[p].size = Size[handle[p].file]
    BY <1>5 DEF Decodes
  <2>3. ReaderOK(p)'
    BY <1>1, <1>2, <1>3, <2>1, <2>2 DEF ReaderOK, names, contents, history, Loading
  <2> QED
    BY <1>2, <1>5, <2>1, <2>3, ReadSafely DEF At
<1>6. CASE At(p, "reading", "refused") /\ ~accepted /\ UNCHANGED view
  <2>1. /\ view' \in [Process -> Name]
        /\ \A q \in Process \ {p} : view'[q] = view[q]
        /\ status'[p] = "refused"
    BY <1>1, <1>6 DEF TypeOK, At
  <2>2. path # handle[p].since \/ ~Whole(path)
    <3>1. ASSUME path = handle[p].since
          PROVE  ~Whole(path)
      <4>1. handle[p].file = path
        BY <1>3, <1>4, <3>1
      <4> QED
        BY <1>3, <1>4, <1>6, <3>1, <4>1 DEF Decodes, Whole
    <3> QED
      BY <3>1
  <2>3. ReaderOK(p)'
    BY <1>1, <1>2, <1>3, <1>6, <2>1, <2>2
       DEF ReaderOK, names, contents, history, Loading, Whole
  <2> QED
    BY <1>2, <1>6, <2>1, <2>3, ReadSafely DEF At, Loading
<1> QED
  BY <1>5, <1>6 DEF Read

\* What is left of a process that is gone.
LEMMA GoneTypes ==
  ASSUME TypeOK, NEW ps, ps \subseteq Process, Gone(ps)
  PROVE  /\ status' \in [Process -> Status] /\ saving' \in [Process -> Name]
         /\ handle' \in [Process -> [since : Name, size : Nat, file : Name]]
         /\ view' \in [Process -> Name]
         /\ \A q \in ps : /\ status'[q] = "down" /\ handle'[q] = NoHandle
                          /\ view'[q] = None
         /\ \A q \in Process \ ps : /\ status'[q] = status[q] /\ saving'[q] = saving[q]
                                    /\ handle'[q] = handle[q] /\ view'[q] = view[q]
<1>1. NoHandle \in [since : Name, size : Nat, file : Name] /\ None \in Name /\ "down" \in Status
  BY DEF NoHandle, Name, None, Status
<1>2. /\ \A q \in Process : status[q] \in Status /\ saving[q] \in Name /\ view[q] \in Name
      /\ \A q \in Process : handle[q] \in [since : Name, size : Nat, file : Name]
  BY DEF TypeOK
<1>3. status' \in [Process -> Status] /\ saving' \in [Process -> Name]
  BY <1>1, <1>2 DEF Gone
<1>4. view' \in [Process -> Name]
  BY <1>1, <1>2 DEF Gone
<1>5. handle' \in [Process -> [since : Name, size : Nat, file : Name]]
  BY <1>1, <1>2 DEF Gone
<1>6. \A q \in ps : status'[q] = "down" /\ handle'[q] = NoHandle /\ view'[q] = None
  BY DEF Gone
<1>7. \A q \in Process \ ps : /\ status'[q] = status[q] /\ saving'[q] = saving[q]
                              /\ handle'[q] = handle[q] /\ view'[q] = view[q]
  BY DEF Gone
<1> QED
  BY <1>3, <1>4, <1>5, <1>6, <1>7

\* A process that is down holds nothing.
LEMMA DownSafe ==
  ASSUME NEW q \in Process, status'[q] = "down", handle'[q] = NoHandle, view'[q] = None,
         path' \in Nat, failed' \subseteq Save
  PROVE  ReaderOK(q)' /\ WriterOK(q)'
<1>1. None \notin failed'
  BY DEF Save, None
<1> QED
  BY <1>1 DEF ReaderOK, WriterOK, NoHandle, None, Loading, AtWork, Filling

\* A process ends, wherever it is.
LEMMA DieSafe ==
  ASSUME FileInv, NEW p \in Process, Die(p)
  PROVE  FileInv'
<1>1. TypeOK
  BY DEF FileInv
<1>2. Gone({p}) /\ UNCHANGED <<names, contents, history>>
  BY DEF Die
<1>3. /\ status' \in [Process -> Status] /\ saving' \in [Process -> Name]
      /\ handle' \in [Process -> [since : Name, size : Nat, file : Name]]
      /\ view' \in [Process -> Name]
      /\ status'[p] = "down" /\ handle'[p] = NoHandle /\ view'[p] = None
      /\ \A q \in Process \ {p} : /\ status'[q] = status[q] /\ saving'[q] = saving[q]
                                  /\ handle'[q] = handle[q] /\ view'[q] = view[q]
  BY <1>1, <1>2, GoneTypes
<1>4. TypeOK'
  BY <1>1, <1>2, <1>3 DEF TypeOK, names, contents, history
<1>5. Begun' /\ Published' /\ \A q \in Process : WriterOK(q)'
  <2>1. \A q \in Process : status'[q] \in AtWork => /\ status'[q] = status[q]
                                                    /\ saving'[q] = saving[q]
    BY <1>3 DEF AtWork, Filling
  <2> QED
    BY <1>2, <2>1, WritersUndisturbed
<1>6. ReaderOK(p)'
  <2>1. path' \in Nat /\ failed' \subseteq Save
    BY <1>1, <1>2, Types DEF names, history, TypeOK
  <2> QED
    BY <1>3, <2>1, DownSafe
<1>7. ASSUME NEW q \in Process, q # p
      PROVE  ReaderOK(q)'
  <2>1. /\ handle'[q] = handle[q] /\ view'[q] = view[q] /\ path' = path
        /\ \A s \in failed' : s \in failed \/ s > path
        /\ \A f \in Save : f <= path => length'[f] = length[f]
        /\ status'[q] = status[q]
    BY <1>2, <1>3, <1>7 DEF names, contents, history
  <2> QED
    BY <2>1, ReadersUndisturbed, Zenon
<1> QED
  BY <1>4, <1>5, <1>6, <1>7 DEF FileInv

\* The directory is written back.
LEMMA SettleSafe ==
  ASSUME FileInv, Settle
  PROVE  FileInv'
<1>1. /\ TypeOK /\ Begun /\ Published
      /\ \A p \in Process : WriterOK(p) /\ ReaderOK(p)
  BY DEF FileInv
<1>2. /\ settled' = path
      /\ UNCHANGED <<path, temporary, contents, status, saving, reading, history>>
  BY DEF Settle
<1>3. TypeOK'
  BY <1>1, <1>2 DEF TypeOK, contents, reading, history
<1>4. path \in Int
  BY <1>1 DEF TypeOK, Name, Save, None
<1>5. Begun' /\ Published'
  BY <1>1, <1>2, <1>4 DEF Begun, Published, contents, history, WithinBound, Whole
<1>6. ASSUME NEW p \in Process
      PROVE  WriterOK(p)' /\ ReaderOK(p)'
  BY <1>1, <1>2 DEF WriterOK, ReaderOK, contents, reading, history, WithinBound, Whole
<1> QED
  BY <1>3, <1>5, <1>6 DEF FileInv

\* The machine loses power: no process is left, and the path names an older file at most.
LEMMA LosePowerSafe ==
  ASSUME FileInv, LosePower
  PROVE  FileInv'
<1>1. TypeOK /\ Begun /\ Published
  BY DEF FileInv
<1>2. /\ path' \in {path, settled} /\ settled' = path'
      /\ temporary' \in {None, temporary, path}
      /\ Gone(Process) /\ powerLost' = TRUE
      /\ UNCHANGED <<synced, saves, acked, failed>>
  BY DEF LosePower
<1>3. /\ path \in Name /\ settled \in Name /\ temporary \in Name /\ path' \in Name
      /\ path \in Nat /\ settled \in Nat /\ path' \in Nat /\ saves \in Nat
  <2>1. path \in Name /\ settled \in Name /\ temporary \in Name /\ Name \subseteq Nat
        /\ saves \in Nat
    BY <1>1, StateFileAssumption DEF TypeOK, Name, Save, None
  <2> QED
    BY <1>2, <2>1
<1>4. /\ status' \in [Process -> Status] /\ saving' \in [Process -> Name]
      /\ handle' \in [Process -> [since : Name, size : Nat, file : Name]]
      /\ view' \in [Process -> Name]
      /\ \A q \in Process : status'[q] = "down" /\ handle'[q] = NoHandle /\ view'[q] = None
  BY <1>1, <1>2, GoneTypes
<1>5. /\ length' \in [Save -> Nat]
      /\ \A f \in Save : synced[f] <= length'[f] /\ length'[f] <= Size[f]
  <2>1. CASE path' = None
    BY <1>1, <2>1 DEF LosePower, TypeOK
  <2>2. CASE path' # None
    <3>1. PICK n \in synced[path']..length[path'] : length' = [length EXCEPT ![path'] = n]
      BY <2>2 DEF LosePower
    <3>2. /\ path' \in Save /\ synced[path'] \in Nat /\ length[path'] \in Nat
          /\ Size[path'] \in Nat
      BY <1>1, <1>3, <2>2, StateFileAssumption DEF TypeOK, Name
    <3>3. n \in Nat /\ synced[path'] <= n /\ n <= length[path'] /\ length[path'] <= Size[path']
      BY <1>1, <3>1, <3>2 DEF TypeOK
    <3>4. n <= Size[path']
      BY <3>2, <3>3
    <3> QED
      BY <1>1, <3>1, <3>2, <3>3, <3>4 DEF TypeOK
  <2> QED
    BY <2>1, <2>2
<1>6. TypeOK'
  <2>1. temporary' \in Name
    BY <1>2, <1>3 DEF Name
  <2> QED
    BY <1>1, <1>2, <1>3, <1>4, <1>5, <2>1 DEF TypeOK
<1>7. Begun'
  BY <1>1, <1>2, <1>3 DEF Begun, Published, WithinBound
<1>8. Published'
  BY <1>1, <1>2, <1>3 DEF Begun, Published, WithinBound
<1>9. ASSUME NEW p \in Process
      PROVE  WriterOK(p)' /\ ReaderOK(p)'
  <2>1. failed' \subseteq Save
    BY <1>6 DEF TypeOK
  <2> QED
    BY <1>3, <1>4, <2>1, DownSafe
<1> QED
  BY <1>6, <1>7, <1>8, <1>9 DEF FileInv

-----------------------------------------------------------------------------
(* The state file                                                          *)

\* Every step keeps the invariant of the state file.
LEMMA FileStep ==
  ASSUME OneWriter, FileInv, [Next]_vars
  PROVE  FileInv'
<1>1. CASE \E p \in Process : SaveStep(p)
  BY <1>1, OpenSafe, WriteSafe, SyncSafe, CloseSafe, RenameSafe, ReturnSafe DEF SaveStep
<1>2. CASE \E p \in Process : ReadStep(p)
  BY <1>2, StartSafe, OpenToReadSafe, ReadSafe DEF ReadStep
<1>3. CASE \E p \in Process : Die(p)
  BY <1>3, DieSafe
<1>4. CASE UNCHANGED vars
  BY <1>4 DEF vars, names, contents, reading, history, FileInv, TypeOK, Begun, Published,
       WriterOK, ReaderOK, WithinBound, Whole
<1> QED
  BY <1>1, <1>2, <1>3, <1>4, SettleSafe, LosePowerSafe DEF Next

\* A step of the journal is one of the state file, or leaves it alone.
LEMMA JournalStep ==
  ASSUME [JournalNext]_allVars
  PROVE  [Next]_vars
<1>1. CASE UNCHANGED allVars
  BY <1>1 DEF allVars, file, vars
<1>2. ASSUME NEW p \in Process, NEW c \in Call, Begin(p, c)
      PROVE  Next
  BY <1>2 DEF Begin, Next, SaveStep
<1>3. ASSUME NEW p \in Process, Proceed(p) \/ Finish(p)
      PROVE  Next
  BY <1>3 DEF Proceed, Finish, Next, SaveStep
<1>4. ASSUME NEW p \in Process, Launch(p) \/ Load(p)
      PROVE  Next
  BY <1>4 DEF Launch, Load, Next, ReadStep
<1>5. ASSUME NEW p \in Process, Reset(p)
      PROVE  UNCHANGED vars
  BY <1>5 DEF Reset, file, vars
<1>6. ASSUME Perish
      PROVE  Next
  BY <1>6 DEF Perish, Next
<1> QED
  BY <1>1, <1>2, <1>3, <1>4, <1>5, <1>6 DEF JournalNext, Next

-----------------------------------------------------------------------------
(* The state file is a register                                            *)

\* ImageOf of a file after a step, and the files that a step has left alone.
ImageThen(f) == IF f # None /\ length'[f] # Size[f] THEN Torn ELSE f

\* No process has seen a file that is newer than the one in place, and a step
\* other than a loss of power changes no older one.
LEMMA SeenFiles ==
  ASSUME FileInv
  PROVE  /\ path \in Name /\ path <= path /\ settled \in Name /\ settled <= path
         /\ \A p \in Process : /\ handle[p].since \in Name /\ handle[p].since <= path
                              /\ handle[p].file \in Name /\ handle[p].file <= path
<1>1. path \in Name /\ Name \subseteq Nat
  BY StateFileAssumption DEF FileInv, TypeOK, Name, Save, None
<1>2. path <= path
  BY <1>1
<1> QED
  BY <1>1, <1>2 DEF FileInv, TypeOK, Begun, ReaderOK

\* What the register holds, may fall back to, and has given to its readers.
Held == <<ImageOf(path), ImageOf(settled)>>
Given == <<[p \in Process |-> ImageOf(handle[p].since)],
           [p \in Process |-> ImageOf(handle[p].file)], view>>

\* Images of files that a step leaves alone are what they were.
LEMMA SameImage ==
  ASSUME FileInv, \A f \in Save : f <= path => length'[f] = length[f],
         NEW f \in Name, f <= path
  PROVE  ImageThen(f) = ImageOf(f)
BY DEF ImageThen, ImageOf, Whole, Name

\* A step that leaves the files in place and the readers alone does not show.
LEMMA SameHeld ==
  ASSUME FileInv, \A f \in Save : f <= path => length'[f] = length[f],
         UNCHANGED <<path, settled>>
  PROVE  UNCHANGED Held
<1>1. ImageThen(path) = ImageOf(path) /\ ImageThen(settled) = ImageOf(settled)
  BY SeenFiles, SameImage
<1> QED
  BY <1>1 DEF Held, ImageThen, ImageOf, Whole

\* The same of the loads.
LEMMA SameGiven ==
  ASSUME FileInv, \A f \in Save : f <= path => length'[f] = length[f],
         UNCHANGED reading
  PROVE  UNCHANGED Given
<1>1. \A p \in Process : /\ ImageThen(handle[p].since) = ImageOf(handle[p].since)
                        /\ ImageThen(handle[p].file) = ImageOf(handle[p].file)
  BY SeenFiles, SameImage
<1>2. handle' = handle /\ view' = view
  BY DEF reading
<1> QED
  BY <1>1, <1>2 DEF Given, ImageThen, ImageOf, Whole

\* A turn of a process is one of the same process at the register.
LEMMA SameTurn ==
  ASSUME status \in [Process -> Status], NEW p \in Process, NEW s, NEW t, At(p, s, t)
  PROVE  Register!Turn(p, Doing(s), Doing(t))
<1>1. status' = [status EXCEPT ![p] = t] /\ status[p] = s
  BY DEF At
<1>2. \A q \in Process : status'[q] = IF q = p THEN t ELSE status[q]
  BY <1>1
<1> QED
  BY <1>1, <1>2 DEF Register!Turn

\* The stages of writing are one stage.
LEMMA Stages ==
  /\ \A s \in Filling : Doing(s) = "saving"
  /\ Doing("open") = "saving" /\ Doing("written") = "saving"
  /\ Doing("synced") = "saving" /\ Doing("closed") = "saving"
  /\ Doing("renamed") = "saved" /\ Doing("sized") = "loading"
  /\ Doing("reading") = "taken" /\ Doing("refused") = "refused"
  /\ Doing("up") = "up" /\ Doing("down") = "down"
BY DEF Doing, Filling

\* The steps of a save: opening the file begins it, or fails.
LEMMA OpenSubmits ==
  ASSUME FileInv, NEW p \in Process, Open(p)
  PROVE  Register!Submit(p)
<1>1. status \in [Process -> Status]
  BY DEF FileInv, TypeOK
<1>2. UNCHANGED Held /\ UNCHANGED Given
  BY SameHeld, SameGiven DEF Open
<1>3. CASE At(p, "up", "open") /\ saving' = [saving EXCEPT ![p] = saves'] /\ UNCHANGED failed
  <2>1. Register!Turn(p, "up", "saving")
    BY <1>1, <1>3, SameTurn, Stages
  <2> QED
    BY <1>2, <1>3, <2>1 DEF Open, Register!Submit, Register!register, Register!loads, Held, Given
<1>4. CASE At(p, "up", "up") /\ failed' = failed \cup {saves'} /\ UNCHANGED saving
  <2>1. Register!Turn(p, "up", "up")
    BY <1>1, <1>4, SameTurn, Stages
  <2> QED
    BY <1>2, <1>4, <2>1 DEF Open, Register!Submit, Register!register, Register!loads, Held, Given
<1> QED
  BY <1>3, <1>4 DEF Open

\* An error return while the file is filled.
LEMMA AbandonFails ==
  ASSUME FileInv, NEW p \in Process, NEW s \in Filling, At(p, s, "up"), Abandon(p),
         UNCHANGED <<length, saves, reading>>
  PROVE  Register!Fail(p)
<1>1. status \in [Process -> Status]
  BY DEF FileInv, TypeOK
<1>2. UNCHANGED Held /\ UNCHANGED Given
  BY SameHeld, SameGiven DEF Abandon
<1>3. Register!Turn(p, "saving", "up")
  BY <1>1, SameTurn, Stages
<1> QED
  BY <1>2, <1>3 DEF Abandon, SaveEnds, Register!Fail, Register!register, Register!loads, Held,
                    Given, Register!None, None

\* The variables of the register, as the state file has them.
LEMMA Unseen ==
  ASSUME UNCHANGED <<Held, Given, saves, saving, acked, failed>>,
         \A p \in Process : Doing(status'[p]) = Doing(status[p])
  PROVE  UNCHANGED Register!registerVars
BY DEF Held, Given, Register!registerVars, Register!register, Register!loads, Register!answers

\* A stage of writing that leaves the writer at another one does not show.
LEMMA StageUnseen ==
  ASSUME FileInv, NEW p \in Process, NEW s \in Filling, NEW t \in Filling, At(p, s, t),
         UNCHANGED <<names, saves, saving, reading, history>>,
         \A f \in Save \ {saves} : length'[f] = length[f]
  PROVE  UNCHANGED Register!registerVars
<1>1. status \in [Process -> Status] /\ status[p] = s /\ s \in AtWork
  BY DEF FileInv, TypeOK, At, AtWork
<1>2. path < saves /\ path \in Nat /\ saves \in Nat
  BY <1>1, AtStage DEF FileInv, WriterOK
<1>3. \A f \in Save : f <= path => length'[f] = length[f]
  BY <1>2 DEF Save
<1>4. UNCHANGED Held /\ UNCHANGED Given
  BY <1>3, SameHeld, SameGiven DEF names
<1>5. \A q \in Process : Doing(status'[q]) = Doing(status[q])
  BY <1>1, Stages DEF At
<1> QED
  BY <1>4, <1>5, Unseen DEF history

\* fwrite, fsync and fclose do not show unless they fail.
LEMMA FillingUnseen ==
  ASSUME FileInv, NEW p \in Process, Write(p) \/ Sync(p) \/ Close(p)
  PROVE  Register!Fail(p) \/ UNCHANGED Register!registerVars
<1>1. status[p] \in {"open", "written", "synced"} /\ status[p] \in AtWork
  BY DEF Write, Sync, Close, At, AtWork, Filling
<1>2. saving[p] = saves /\ length \in [Save -> Nat]
  BY <1>1, AtStage
<1>3. "open" \in Filling /\ "written" \in Filling /\ "synced" \in Filling /\ "closed" \in Filling
  BY DEF Filling
<1>4. CASE Write(p)
  <2>1. CASE At(p, "open", "up") /\ Abandon(p) /\ UNCHANGED length
    BY <1>3, <1>4, <2>1, AbandonFails DEF Write
  <2>2. CASE /\ At(p, "open", "written")
             /\ \E n \in 0..Size[saving[p]] : length' = [length EXCEPT ![saving[p]] = n]
             /\ UNCHANGED <<names, saving, history>>
    <3>1. \A f \in Save \ {saves} : length'[f] = length[f]
      BY <1>2, <2>2
    <3> QED
      BY <1>3, <1>4, <2>2, <3>1, StageUnseen DEF Write
  <2> QED
    BY <1>4, <2>1, <2>2 DEF Write
<1>5. CASE Sync(p)
  BY <1>3, <1>5, StageUnseen DEF Sync
<1>6. CASE Close(p)
  <2>1. CASE At(p, "synced", "up") /\ Abandon(p) /\ UNCHANGED length
    BY <1>3, <1>6, <2>1, AbandonFails DEF Close
  <2>2. CASE /\ At(p, "synced", "closed")
             /\ length' = [length EXCEPT ![saving[p]] = Size[saving[p]]]
             /\ UNCHANGED <<names, saving, history>>
    <3>1. \A f \in Save \ {saves} : length'[f] = length[f]
      BY <1>2, <2>2
    <3> QED
      BY <1>3, <1>6, <2>2, <3>1, StageUnseen DEF Close
  <2> QED
    BY <1>6, <2>1, <2>2 DEF Close
<1> QED
  BY <1>4, <1>5, <1>6

\* The rename is the instant of a save.
LEMMA RenameReplaces ==
  ASSUME FileInv, NEW p \in Process, Rename(p)
  PROVE  Register!Fail(p) \/ Register!Replace(p)
<1>1. status[p] = "closed" /\ status[p] \in AtWork /\ status[p] \in Filling
  BY DEF Rename, At, AtWork, Filling
<1>2. saving[p] = saves /\ WriterOK(p) /\ UNCHANGED <<length, saves, reading>>
        /\ status \in [Process -> Status]
  BY <1>1, AtStage DEF FileInv, TypeOK, Rename, contents
<1>3. CASE At(p, "closed", "up") /\ Abandon(p)
  BY <1>1, <1>2, <1>3, AbandonFails
<1>4. CASE /\ At(p, "closed", "renamed")
           /\ path' = temporary
           /\ UNCHANGED <<settled, saving, history>>
  <2>1. path' = saves /\ Whole(saves)
    BY <1>1, <1>2, <1>4 DEF WriterOK
  <2>2. ImageOf(path)' = saves
    BY <1>2, <2>1 DEF ImageOf, Whole
  <2>3. Register!Turn(p, "saving", "saved")
    BY <1>2, <1>4, SameTurn, Stages
  <2>4. UNCHANGED Given
    BY <1>2, SameGiven
  <2>5. ImageOf(settled)' = ImageOf(settled)
    BY <1>2, <1>4 DEF ImageOf, Whole
  <2> QED
    BY <1>2, <1>4, <2>2, <2>3, <2>4, <2>5
    DEF Register!Replace, Register!loads, Register!answers, Given, history
<1> QED
  BY <1>3, <1>4 DEF Rename

\* A caller is told that its save is done while the register holds its image.
LEMMA ReturnSucceeds ==
  ASSUME FileInv, NEW p \in Process, Return(p)
  PROVE  Register!Succeed(p)
<1>1. status[p] = "renamed" /\ status[p] \in AtWork
  BY DEF Return, At, AtWork
<1>2. saving[p] = saves /\ WriterOK(p) /\ status \in [Process -> Status]
  BY <1>1, AtStage DEF FileInv, TypeOK
<1>3. ImageOf(path) = saves
  BY <1>1, <1>2 DEF WriterOK, ImageOf
<1>4. Register!Turn(p, "saved", "up")
  BY <1>2, SameTurn, Stages DEF Return
<1>5. UNCHANGED Held /\ UNCHANGED Given
  BY SameHeld, SameGiven DEF Return, names, contents
<1> QED
  BY <1>2, <1>3, <1>4, <1>5
  DEF Return, SaveEnds, contents, Register!Succeed, Register!register, Register!loads, Held, Given,
      Register!None, None

\* A file that is in place is never longer than its bound, and an image unless
\* it is torn.
LEMMA ImageFacts ==
  /\ ImageOf(None) = None
  /\ \A f \in Name : ImageOf(f) = None <=> f = None
  /\ \A f \in Name : f # None => (ImageOf(f) = f <=> Whole(f)) /\ (ImageOf(f) = Torn <=> ~Whole(f))
<1>1. Name \subseteq Nat /\ Torn \notin Nat
  BY StateFileAssumption DEF Name, Save, None, Torn
<1> QED
  BY <1>1 DEF ImageOf, None

\* Sizing the file begins a load.
LEMMA StartBegins ==
  ASSUME FileInv, NEW p \in Process, Start(p)
  PROVE  Register!BeginLoad(p)
<1>1. /\ status \in [Process -> Status] /\ path \in Name /\ path \in Nat /\ status[p] = "down"
      /\ handle \in [Process -> [since : Name, size : Nat, file : Name]]
      /\ ReaderOK(p) /\ Begun /\ TypeOK
  BY Types DEF FileInv, TypeOK, Start, At
<1>2. UNCHANGED Held /\ (path = None <=> ImageOf(path) = None)
  BY <1>1, SameHeld, ImageFacts DEF Start, names, contents
<1>3. UNCHANGED <<saves, saving, acked, failed, view, length>>
  BY DEF Start, contents, history
<1>4. CASE path = None
  <2>1. At(p, "down", "up") /\ UNCHANGED handle
    BY <1>4 DEF Start
  <2>2. Register!Turn(p, "down", "up")
    BY <1>1, <2>1, SameTurn, Stages
  <2>3. UNCHANGED Given
    BY <1>3, <2>1, SameGiven DEF reading
  <2> QED
    BY <1>2, <1>3, <1>4, <2>2, <2>3
    DEF Register!BeginLoad, Register!register, Register!answers, Register!None, None, Held, Given
<1>5. CASE path # None
  <2>1. path \in Save /\ length[path] <= Size[path] /\ Size[path] <= MaxBytes
        /\ length[path] \in Nat /\ Size[path] \in Nat /\ MaxBytes \in Nat
    BY <1>1, <1>5, StateFileAssumption DEF Name, TypeOK, Begun, WithinBound
  <2>2. length[path] <= MaxBytes
    BY <2>1
  <2>3. /\ At(p, "down", "sized")
        /\ handle' = [handle EXCEPT ![p] = [since |-> path, size |-> length[path],
                                            file |-> None]]
    BY <1>5, <2>2 DEF Start
  <2>4. Register!Turn(p, "down", "loading")
    BY <1>1, <2>3, SameTurn, Stages
  <2>5. handle[p].file = None
    BY <1>1 DEF ReaderOK, NoHandle
  <2>6. \A q \in Process :
          /\ handle'[q].since = IF q = p THEN path ELSE handle[q].since
          /\ handle'[q].file = handle[q].file
    BY <1>1, <2>3, <2>5
  <2>7. /\ [q \in Process |-> ImageOf(handle[q].since)]' =
             [[q \in Process |-> ImageOf(handle[q].since)] EXCEPT ![p] = ImageOf(path)]
        /\ [q \in Process |-> ImageOf(handle[q].file)]' =
             [q \in Process |-> ImageOf(handle[q].file)]
    BY <1>3, <2>6 DEF ImageOf, Whole
  <2> QED
    BY <1>2, <1>3, <1>5, <2>4, <2>7
    DEF Register!BeginLoad, Register!register, Register!answers, Register!None, None, Held
<1> QED
  BY <1>4, <1>5

\* Opening the file is the instant of a load.
LEMMA OpenTakes ==
  ASSUME FileInv, NEW p \in Process, OpenToRead(p)
  PROVE  Register!Take(p)
<1>1. /\ status \in [Process -> Status]
      /\ handle \in [Process -> [since : Name, size : Nat, file : Name]]
  BY DEF FileInv, TypeOK
<1>2. UNCHANGED Held
  BY SameHeld DEF OpenToRead, names, contents
<1>3. UNCHANGED <<saves, saving, acked, failed, view, length>>
  BY DEF OpenToRead, contents, history
<1>4. Register!Turn(p, "loading", "taken")
  BY <1>1, SameTurn, Stages DEF OpenToRead
<1>5. \A q \in Process :
        /\ handle'[q].since = handle[q].since
        /\ handle'[q].file = IF q = p THEN path ELSE handle[q].file
  BY <1>1 DEF OpenToRead
<1>6. /\ [q \in Process |-> ImageOf(handle[q].file)]' =
           [[q \in Process |-> ImageOf(handle[q].file)] EXCEPT ![p] = ImageOf(path)]
      /\ [q \in Process |-> ImageOf(handle[q].since)]' =
           [q \in Process |-> ImageOf(handle[q].since)]
  BY <1>3, <1>5 DEF ImageOf, Whole
<1> QED
  BY <1>2, <1>3, <1>4, <1>6 DEF Register!Take, Register!register, Register!answers, Held

\* Reading ends a load, and what is refused is torn or was replaced.
LEMMA ReadEnds ==
  ASSUME FileInv, NEW p \in Process, Read(p)
  PROVE  Register!EndLoad(p)
<1> DEFINE h == handle[p]
           accepted == h.size <= length[h.file] /\ Decodes(h.file, h.size)
<1>1. /\ status \in [Process -> Status] /\ status[p] = "reading" /\ ReaderOK(p)
      /\ h.since \in Name /\ h.file \in Name /\ view \in [Process -> Name] /\ TypeOK
  BY DEF FileInv, TypeOK, Read, At
<1>2. /\ h.file # None /\ h.since # None /\ h.size = length[h.since]
      /\ h.file \in Save /\ h.since \in Save
  BY <1>1 DEF ReaderOK, Name
<1>3. UNCHANGED Held
  BY SameHeld DEF Read, names, contents
<1>4. UNCHANGED <<saves, saving, acked, failed, handle, length>>
  BY DEF Read, contents, history
<1>5. /\ [q \in Process |-> ImageOf(handle[q].file)]' =
           [q \in Process |-> ImageOf(handle[q].file)]
      /\ [q \in Process |-> ImageOf(handle[q].since)]' =
           [q \in Process |-> ImageOf(handle[q].since)]
  BY <1>4 DEF ImageOf, Whole
<1>6. length[h.file] <= Size[h.file] /\ length[h.file] \in Nat /\ Size[h.file] \in Nat
  BY <1>1, <1>2, StateFileAssumption DEF TypeOK
<1>7. CASE At(p, "reading", "up") /\ accepted /\ view' = [view EXCEPT ![p] = h.file]
  <2>1. Register!Turn(p, "taken", "up")
    BY <1>1, <1>7, SameTurn, Stages
  <2>2. Whole(h.file)
    BY <1>6, <1>7 DEF Decodes, Whole
  <2>3. ImageOf(h.file) = h.file /\ ImageOf(h.file) # Torn
    BY <1>1, <1>2, <2>2, ImageFacts
  <2> QED
    BY <1>3, <1>4, <1>5, <1>7, <2>1, <2>3
    DEF Register!EndLoad, Register!register, Register!answers, Held
<1>8. CASE At(p, "reading", "refused") /\ ~accepted /\ UNCHANGED view
  <2>1. Register!Turn(p, "taken", "refused")
    BY <1>1, <1>8, SameTurn, Stages
  <2>2. ImageOf(h.file) = Torn \/ ImageOf(h.file) # ImageOf(h.since)
    <3> SUFFICES ASSUME Whole(h.file), ImageOf(h.file) = ImageOf(h.since) PROVE FALSE
      BY <1>1, <1>2, ImageFacts
    <3>1. ImageOf(h.file) = h.file /\ h.file # Torn
      BY <1>1, <1>2, ImageFacts
    <3>2. h.since = h.file
      BY <3>1 DEF ImageOf
    <3> QED
      BY <1>2, <1>6, <1>8, <3>2 DEF Decodes, Whole
  <2> QED
    BY <1>3, <1>4, <1>5, <1>8, <2>1, <2>2
    DEF Register!EndLoad, Register!register, Register!answers, Held
<1> QED
  BY <1>7, <1>8 DEF Read

\* What dies takes with it what it had.
LEMMA GoneForgets ==
  ASSUME FileInv, NEW ps \in SUBSET Process, Gone(ps),
         \A f \in Save : f <= path => length'[f] = length[f] \/ ps = Process
  PROVE  Register!Forget(ps)
<1>1. /\ \A q \in Process : status'[q] = IF q \in ps THEN "down" ELSE status[q]
      /\ saving' = [q \in Process |-> IF q \in ps THEN None ELSE saving[q]]
      /\ \A q \in Process : handle'[q] = IF q \in ps THEN NoHandle ELSE handle[q]
      /\ view' = [q \in Process |-> IF q \in ps THEN None ELSE view[q]]
  BY DEF Gone
<1>2. \A q \in Process : /\ ImageThen(handle'[q].since) =
                             IF q \in ps THEN None ELSE ImageOf(handle[q].since)
                        /\ ImageThen(handle'[q].file) =
                             IF q \in ps THEN None ELSE ImageOf(handle[q].file)
  <2> SUFFICES ASSUME NEW q \in Process
               PROVE  /\ ImageThen(handle'[q].since) =
                            IF q \in ps THEN None ELSE ImageOf(handle[q].since)
                      /\ ImageThen(handle'[q].file) =
                            IF q \in ps THEN None ELSE ImageOf(handle[q].file)
    OBVIOUS
  <2>1. CASE q \in ps
    BY <1>1, <2>1 DEF NoHandle, ImageThen
  <2>2. CASE q \notin ps
    <3>1. \A f \in Save : f <= path => length'[f] = length[f]
      BY <2>2
    <3> QED
      BY <1>1, <2>2, <3>1, SeenFiles, SameImage
  <2> QED
    BY <2>1, <2>2
<1>3. \A q \in Process : Doing(status'[q]) = IF q \in ps THEN "down" ELSE Doing(status[q])
  BY <1>1, Stages
<1> QED
  BY <1>1, <1>2, <1>3 DEF Register!Forget, Register!None, None, ImageThen, ImageOf, Whole

\* A loss of power leaves the image in place, goes back to an earlier one, or
\* tears it.
LEMMA PowerLossSeen ==
  ASSUME FileInv, LosePower
  PROVE  Register!LosePower
<1>1. path' \in {path, settled} /\ settled' = path' /\ TypeOK
  BY DEF LosePower, FileInv
<1>2. path' \in Name /\ length \in [Save -> Nat] /\ Name \subseteq Nat
  BY <1>1, StateFileAssumption DEF TypeOK, Name, Save, None
<1>3. ImageOf(settled)' = ImageOf(path)'
  BY <1>1 DEF ImageOf, Whole
<1>4. ImageOf(path)' \in {ImageOf(path), ImageOf(settled), Torn}
  <2>1. CASE path' = None
    BY <1>1, <2>1 DEF ImageOf
  <2>2. CASE path' # None
    <3>1. PICK n \in synced[path']..length[path'] : length' = [length EXCEPT ![path'] = n]
      BY <2>2 DEF LosePower
    <3>2. /\ path' \in Save /\ length'[path'] = n /\ length[path'] <= Size[path']
          /\ length[path'] \in Nat /\ Size[path'] \in Nat /\ synced[path'] \in Nat
      BY <1>1, <1>2, <2>2, <3>1, StateFileAssumption DEF Name, TypeOK
    <3>3. n = Size[path'] => length[path'] = Size[path']
      BY <3>1, <3>2
    <3>4. CASE n = Size[path']
      BY <1>1, <3>2, <3>3, <3>4 DEF ImageOf, Whole
    <3>5. CASE n # Size[path']
      BY <2>2, <3>2, <3>5 DEF ImageOf, Whole
    <3> QED
      BY <3>4, <3>5
  <2> QED
    BY <2>1, <2>2
<1>5. Register!Forget(Process)
  BY GoneForgets DEF LosePower
<1> QED
  BY <1>3, <1>4, <1>5 DEF LosePower, Register!LosePower, Register!answers

\* Every step of the state file is one of the register, or does not show.
LEMMA RegisterStep ==
  ASSUME FileInv, [Next]_vars
  PROVE  [Register!Next]_(Register!registerVars)
<1>1. ASSUME NEW p \in Process, SaveStep(p)
      PROVE  [Register!Next]_(Register!registerVars)
  BY <1>1, OpenSubmits, FillingUnseen, RenameReplaces, ReturnSucceeds
  DEF SaveStep, Register!Next
<1>2. ASSUME NEW p \in Process, ReadStep(p)
      PROVE  Register!Next
  BY <1>2, StartBegins, OpenTakes, ReadEnds DEF ReadStep, Register!Next
<1>3. ASSUME NEW p \in Process, Die(p)
      PROVE  Register!Die(p)
  <2>1. Register!Forget({p})
    BY <1>3, GoneForgets DEF Die, contents
  <2>2. UNCHANGED Held
    BY <1>3, SameHeld DEF Die, names, contents
  <2>3. Doing(status[p]) # "down"
    BY <1>3 DEF Die, Doing
  <2> QED
    BY <1>3, <2>1, <2>2, <2>3
    DEF Die, contents, history, Register!Die, Register!register, Register!answers, Held
<1>4. ASSUME Settle
      PROVE  Register!Settle
  <2>1. UNCHANGED <<path, length>> /\ settled' = path /\ UNCHANGED reading
    BY <1>4 DEF Settle, contents
  <2>2. ImageOf(path)' = ImageOf(path) /\ ImageOf(settled)' = ImageOf(path)
    BY <2>1 DEF ImageOf, Whole
  <2>3. UNCHANGED Given
    BY <2>1, SameGiven
  <2> QED
    BY <1>4, <2>2, <2>3
    DEF Settle, contents, history, Register!Settle, Register!loads, Register!answers, Given
<1>5. ASSUME UNCHANGED vars
      PROVE  UNCHANGED Register!registerVars
  <2>1. UNCHANGED <<path, settled, length, reading, status>>
    BY <1>5 DEF vars, names, contents
  <2>2. UNCHANGED Held /\ UNCHANGED Given
    BY <2>1, SameHeld, SameGiven
  <2> QED
    BY <1>5, <2>1, <2>2, Unseen DEF vars, contents, history
<1> QED
  BY <1>1, <1>2, <1>3, <1>4, <1>5, PowerLossSeen DEF Next, Register!Next

-----------------------------------------------------------------------------
(* The trail                                                               *)

Record == [sequence : Nat, kind : AuditKind, change : Name]

Effect == [change : Save, sequence : Nat]

Memory == [trail : Seq(Record), sequence : Nat, effects : SUBSET Effect]

\* Sequence numbers run without a gap to the last one given, which is what
\* makes the number of a lost record tell that it was driven out.
Contiguous(m) ==
  /\ Len(m.trail) <= MaxAudit
  /\ \A i \in 1..Len(m.trail) : m.trail[i].sequence = m.sequence - Len(m.trail) + i

\* The two halves of TrailExplains, of one memory.
Explains(m) ==
  /\ \A e \in m.effects : Explained(m, e) \/ m.sequence >= e.sequence + MaxAudit
  /\ \A i \in 1..Len(m.trail) :
       m.trail[i].kind = "Changed" /\ m.trail[i].change \notin Changes(m) =>
         \E j \in 1..Len(m.trail) : j > i /\ m.trail[j].kind = "PersistenceFailed"

Sound == {m \in Memory : Contiguous(m) /\ Explains(m)}

MemoryOK(m) == m \in Sound

\* What is left of a trail when there has to be room for one more record.
LEMMA ShortenedTrail ==
  ASSUME NEW trail \in Seq(Record), Len(trail) <= MaxAudit
  PROVE  \E d \in {0, 1} :
           /\ Len(Shortened(trail)) = Len(trail) - d
           /\ d = 0 => Len(trail) < MaxAudit
           /\ d = 1 => Len(trail) = MaxAudit
           /\ Shortened(trail) \in Seq(Record)
           /\ \A i \in 1..(Len(trail) - d) : Shortened(trail)[i] = trail[i + d]
<1>1. MaxAudit \in Nat /\ MaxAudit >= 1 /\ Len(trail) \in Nat
  BY JournalAssumption
<1>2. CASE Len(trail) < MaxAudit
  <2>1. Shortened(trail) = SubSeq(trail, 1, Len(trail))
    BY <1>2 DEF Shortened
  <2>2. Len(SubSeq(trail, 1, Len(trail))) = Len(trail)
    BY <1>1
  <2>3. \A i \in 1..Len(trail) : SubSeq(trail, 1, Len(trail))[i] = trail[i]
    BY <1>1
  <2>4. SubSeq(trail, 1, Len(trail)) \in Seq(Record)
    BY <1>1
  <2> QED
    BY <1>1, <1>2, <2>1, <2>2, <2>3, <2>4
<1>3. CASE Len(trail) = MaxAudit
  <2>1. Shortened(trail) = SubSeq(trail, 2, Len(trail))
    BY <1>1, <1>3 DEF Shortened
  <2>2. Len(SubSeq(trail, 2, Len(trail))) = Len(trail) - 1
    BY <1>1, <1>3
  <2>3. \A i \in 1..(Len(trail) - 1) : SubSeq(trail, 2, Len(trail))[i] = trail[i + 1]
    BY <1>1, <1>3
  <2>4. SubSeq(trail, 2, Len(trail)) \in Seq(Record)
    BY <1>1, <1>3
  <2> QED
    BY <1>1, <1>3, <2>1, <2>2, <2>3, <2>4
<1> QED
  BY <1>1, <1>2, <1>3

\* r is m with one record more, at the cost of the oldest one when the trail is full.
OneMore(m, r, kind, change) ==
  /\ r \in Memory /\ Contiguous(r)
  /\ r.effects = m.effects /\ r.sequence = m.sequence + 1
  /\ \E d \in {0, 1} :
       /\ Len(r.trail) = Len(m.trail) - d + 1
       /\ d = 1 => Len(m.trail) = MaxAudit
       /\ \A i \in 1..(Len(m.trail) - d) : r.trail[i] = m.trail[i + d]
       /\ r.trail[Len(r.trail)] =
            [sequence |-> m.sequence + 1, kind |-> kind, change |-> change]

\* A record is added, and at most the oldest one is lost.
LEMMA RecordedTrail ==
  ASSUME NEW m \in Memory, Contiguous(m), NEW kind \in AuditKind, NEW change \in Name
  PROVE  OneMore(m, Recorded(m, kind, change), kind, change)
<1> DEFINE r == Recorded(m, kind, change)
           new == [sequence |-> m.sequence + 1, kind |-> kind, change |-> change]
<1>1. /\ m.trail \in Seq(Record) /\ m.sequence \in Nat /\ m.effects \in SUBSET Effect
      /\ Len(m.trail) \in Nat /\ MaxAudit \in Nat
  BY JournalAssumption DEF Memory
<1>2. PICK d \in {0, 1} :
        /\ Len(Shortened(m.trail)) = Len(m.trail) - d
        /\ d = 0 => Len(m.trail) < MaxAudit
        /\ d = 1 => Len(m.trail) = MaxAudit
        /\ Shortened(m.trail) \in Seq(Record)
        /\ \A i \in 1..(Len(m.trail) - d) : Shortened(m.trail)[i] = m.trail[i + d]
  BY <1>1, ShortenedTrail DEF Contiguous
<1>3. new \in Record
  BY <1>1 DEF Record
<1>4. /\ r.trail = Append(Shortened(m.trail), new)
      /\ r.sequence = m.sequence + 1 /\ r.effects = m.effects
  BY DEF Recorded, Memory
<1>5. /\ r.trail \in Seq(Record) /\ Len(r.trail) = Len(m.trail) - d + 1
      /\ r.trail[Len(r.trail)] = new
      /\ \A i \in 1..(Len(m.trail) - d) : r.trail[i] = m.trail[i + d]
  BY <1>1, <1>2, <1>3, <1>4
<1>6. r \in Memory
  <2>1. Append(Shortened(m.trail), new) \in Seq(Record) /\ m.sequence + 1 \in Nat
    BY <1>1, <1>2, <1>3
  <2> QED
    BY <2>1 DEF Memory, Recorded
<1> HIDE DEF r
<1>7. Contiguous(r)
  <2>1. Len(r.trail) <= MaxAudit
    BY <1>1, <1>2, <1>5 DEF Contiguous
  <2>2. ASSUME NEW i \in 1..Len(r.trail)
        PROVE  r.trail[i].sequence = r.sequence - Len(r.trail) + i
    <3>1. CASE i = Len(r.trail)
      <4>1. r.trail[i].sequence = m.sequence + 1
        BY <1>5, <3>1
      <4>2. r.sequence - Len(r.trail) + i = m.sequence + 1
        <5>1. Len(r.trail) \in Nat
          BY <1>1, <1>5
        <5> QED
          BY <1>1, <1>4, <3>1, <5>1
      <4> QED
        BY <4>1, <4>2
    <3>2. CASE i < Len(r.trail)
      <4>1. i \in 1..(Len(m.trail) - d) /\ i + d \in 1..Len(m.trail)
        BY <1>1, <1>2, <1>5, <3>2
      <4>2. r.trail[i] = m.trail[i + d]
        BY <1>5, <4>1
      <4>3. m.trail[i + d].sequence = m.sequence - Len(m.trail) + (i + d)
        BY <4>1 DEF Contiguous
      <4>4. r.sequence - Len(r.trail) + i = m.sequence - Len(m.trail) + (i + d)
        BY <1>1, <1>2, <1>4, <1>5, <4>1
      <4> QED
        BY <4>2, <4>3, <4>4
    <3> QED
      BY <1>5, <1>1, <1>2, <3>1, <3>2
  <2> QED
    BY <2>1, <2>2 DEF Contiguous
<1> QED
  <2>1. OneMore(m, r, kind, change)
    BY <1>2, <1>4, <1>5, <1>6, <1>7 DEF OneMore
  <2> QED
    BY <2>1 DEF r

\* An effect that was explained stays so when a record is added.
LEMMA StaysExplained ==
  ASSUME NEW m \in Memory, Contiguous(m), NEW kind \in AuditKind, NEW change \in Name,
         NEW e \in Effect, Explained(m, e) \/ m.sequence >= e.sequence + MaxAudit
  PROVE  LET r == Recorded(m, kind, change) IN
         Explained(r, e) \/ r.sequence >= e.sequence + MaxAudit
<1> DEFINE r == Recorded(m, kind, change)
<1>1. /\ m.trail \in Seq(Record) /\ m.sequence \in Nat /\ Len(m.trail) \in Nat
      /\ MaxAudit \in Nat /\ e.sequence \in Nat
  BY JournalAssumption DEF Memory, Effect
<1>a. OneMore(m, r, kind, change)
  BY RecordedTrail
<1> SUFFICES Explained(r, e) \/ r.sequence >= e.sequence + MaxAudit
  OBVIOUS
<1> HIDE DEF r
<1>2. r \in Memory /\ r.sequence = m.sequence + 1
  BY <1>a DEF OneMore
<1>3. PICK d \in {0, 1} :
        /\ Len(r.trail) = Len(m.trail) - d + 1
        /\ d = 1 => Len(m.trail) = MaxAudit
        /\ \A i \in 1..(Len(m.trail) - d) : r.trail[i] = m.trail[i + d]
  BY <1>a DEF OneMore
<1>4. CASE m.sequence >= e.sequence + MaxAudit
  BY <1>1, <1>2, <1>4
<1>5. CASE Explained(m, e)
  <2>1. PICK i \in 1..Len(m.trail) :
          m.trail[i] = [sequence |-> e.sequence, kind |-> "Changed", change |-> e.change]
    BY <1>1, <1>5 DEF Explained
  <2>2. CASE i > d
    <3>1. i - d \in 1..(Len(m.trail) - d) /\ i - d \in 1..Len(r.trail) /\ (i - d) + d = i
      BY <1>1, <1>3, <2>2
    <3>2. r.trail[i - d] = m.trail[i]
      BY <1>3, <3>1
    <3>3. i - d \in DOMAIN r.trail
      BY <1>2, <3>1 DEF Memory
    <3> QED
      BY <2>1, <3>2, <3>3 DEF Explained
  <2>3. CASE ~(i > d)
    <3>1. d = 1 /\ i = 1 /\ Len(m.trail) = MaxAudit
      BY <1>1, <1>3, <2>3
    <3>2. m.trail[1].sequence = m.sequence - Len(m.trail) + 1
      BY <2>1, <3>1 DEF Contiguous
    <3>3. e.sequence = m.sequence - MaxAudit + 1
      BY <2>1, <3>1, <3>2
    <3> QED
      BY <1>1, <1>2, <3>3
  <2> QED
    BY <2>2, <2>3
<1> QED
  BY <1>4, <1>5

\* A record that is not of a change is added, and with that of a failure some
\* effects may be undone.
LEMMA NotedOK ==
  ASSUME NEW m, MemoryOK(m), NEW kind \in AuditKind \ {"Changed"}, NEW change \in Name,
         NEW E, E \subseteq m.effects, kind = "PersistenceFailed" \/ E = m.effects
  PROVE  /\ MemoryOK([Recorded(m, kind, change) EXCEPT !.effects = E])
         /\ [Recorded(m, kind, change) EXCEPT !.effects = E].effects = E
<1> DEFINE r == Recorded(m, kind, change)
           n == [r EXCEPT !.effects = E]
<1>1. /\ m.trail \in Seq(Record) /\ m.sequence \in Nat /\ Len(m.trail) \in Nat
      /\ MaxAudit \in Nat /\ m.effects \in SUBSET Effect /\ m \in Memory
      /\ Contiguous(m) /\ Explains(m)
  BY JournalAssumption DEF MemoryOK, Sound, Memory
<1>a. OneMore(m, r, kind, change)
  BY <1>1, RecordedTrail
<1>4. \A e \in E : Explained(r, e) \/ r.sequence >= e.sequence + MaxAudit
  BY <1>1, StaysExplained DEF Explains
<1> HIDE DEF r
<1>2. r \in Memory /\ r.sequence = m.sequence + 1 /\ Contiguous(r)
  BY <1>a DEF OneMore
<1>3. PICK d \in {0, 1} :
        /\ Len(r.trail) = Len(m.trail) - d + 1
        /\ \A i \in 1..(Len(m.trail) - d) : r.trail[i] = m.trail[i + d]
        /\ r.trail[Len(r.trail)] =
             [sequence |-> m.sequence + 1, kind |-> kind, change |-> change]
  BY <1>a DEF OneMore
<1>5. n \in Memory /\ n.trail = r.trail /\ n.sequence = r.sequence /\ n.effects = E
  BY <1>1, <1>2 DEF Memory
<1> HIDE DEF n
<1>6. Contiguous(n)
  BY <1>2, <1>5 DEF Contiguous
<1>7. \A e \in n.effects : Explained(n, e) \/ n.sequence >= e.sequence + MaxAudit
  BY <1>4, <1>5 DEF Explained
<1>8. ASSUME NEW i \in 1..Len(n.trail),
             n.trail[i].kind = "Changed", n.trail[i].change \notin Changes(n)
      PROVE  \E j \in 1..Len(n.trail) : j > i /\ n.trail[j].kind = "PersistenceFailed"
  <2>1. i # Len(r.trail)
    BY <1>3, <1>5, <1>8
  <2>2. i \in 1..(Len(m.trail) - d) /\ i + d \in 1..Len(m.trail) /\ Len(r.trail) \in 1..Len(r.trail)
        /\ Len(r.trail) > i
    BY <1>1, <1>3, <1>5, <2>1
  <2>3. r.trail[i] = m.trail[i + d]
    BY <1>3, <2>2
  <2>4. CASE kind = "PersistenceFailed"
    BY <1>3, <1>5, <2>2, <2>4
  <2>5. CASE E = m.effects
    <3>1. m.trail[i + d].kind = "Changed" /\ m.trail[i + d].change \notin Changes(m)
      BY <1>5, <1>8, <2>3, <2>5 DEF Changes
    <3>2. PICK j \in 1..Len(m.trail) : j > i + d /\ m.trail[j].kind = "PersistenceFailed"
      BY <1>1, <2>2, <3>1 DEF Explains
    <3>3. /\ j - d \in 1..(Len(m.trail) - d) /\ j - d \in 1..Len(r.trail) /\ j - d > i
          /\ (j - d) + d = j
      BY <1>1, <1>3, <2>2, <3>2
    <3>4. r.trail[j - d] = m.trail[j]
      BY <1>3, <3>3
    <3> QED
      BY <1>5, <3>2, <3>3, <3>4
  <2> QED
    BY <2>4, <2>5
<1>9. Explains(n)
  BY <1>7, <1>8 DEF Explains
<1>10. MemoryOK(n)
  BY <1>5, <1>6, <1>9 DEF MemoryOK, Sound
<1> QED
  BY <1>5, <1>10 DEF n, r

\* The same without undoing anything.
LEMMA PlainOK ==
  ASSUME NEW m, MemoryOK(m), NEW kind \in AuditKind \ {"Changed"}, NEW change \in Name
  PROVE  /\ MemoryOK(Recorded(m, kind, change))
         /\ Recorded(m, kind, change).effects = m.effects
<1>1. m \in Memory /\ Contiguous(m)
  BY DEF MemoryOK, Sound
<1> DEFINE r == Recorded(m, kind, change)
<1>2. r \in Memory /\ r.effects = m.effects
  <2>1. kind \in AuditKind
    OBVIOUS
  <2>2. OneMore(m, r, kind, change)
    BY <1>1, <2>1, RecordedTrail
  <2> HIDE DEF r
  <2> QED
    BY <2>2 DEF OneMore
<1>3. [r EXCEPT !.effects = m.effects] = r
  <2> HIDE DEF r
  <2>1. r \in Memory /\ r.effects = m.effects
    BY <1>2 DEF r
  <2> QED
    BY <2>1 DEF Memory
<1>4. MemoryOK([r EXCEPT !.effects = m.effects])
  BY NotedOK, m.effects \subseteq m.effects
<1> HIDE DEF r
<1>5. MemoryOK(r)
  BY <1>3, <1>4
<1> QED
  BY <1>2, <1>5 DEF r

\* A change and its record are made in one call.
LEMMA AppliedOK ==
  ASSUME NEW m, MemoryOK(m), NEW c \in Call, NEW s \in Save
  PROVE  /\ MemoryOK(Applied(m, c, s))
         /\ Changes(m) \subseteq Changes(Applied(m, c, s))
         /\ c # "save" => s \in Changes(Applied(m, c, s))
<1>1. CASE c = "save"
  <2>1. Applied(m, c, s) = m
    BY <1>1 DEF Applied
  <2> QED
    BY <1>1, <2>1
<1>2. CASE c # "save"
  <2> DEFINE r == Recorded(m, "Changed", s)
             new == [change |-> s, sequence |-> r.sequence]
             n == [r EXCEPT !.effects = @ \cup {new}]
  <2>1. m \in Memory /\ Contiguous(m) /\ Explains(m) /\ s \in Name /\ "Changed" \in AuditKind
    BY DEF MemoryOK, Sound, Name, AuditKind
  <2>2. /\ m.trail \in Seq(Record) /\ m.sequence \in Nat /\ Len(m.trail) \in Nat
        /\ m.effects \in SUBSET Effect
    BY <2>1 DEF Memory
  <2>a. OneMore(m, r, "Changed", s)
    BY <2>1, RecordedTrail
  <2>5. \A e \in m.effects : Explained(r, e) \/ r.sequence >= e.sequence + MaxAudit
    BY <2>1, <2>2, StaysExplained DEF Explains
  <2>6. Applied(m, c, s) = n
    BY <1>2 DEF Applied
  <2> HIDE DEF r
  <2>3. /\ r \in Memory /\ Contiguous(r)
        /\ r.effects = m.effects /\ r.sequence = m.sequence + 1
    BY <2>a DEF OneMore
  <2>4. PICK d \in {0, 1} :
          /\ Len(r.trail) = Len(m.trail) - d + 1
          /\ \A i \in 1..(Len(m.trail) - d) : r.trail[i] = m.trail[i + d]
          /\ r.trail[Len(r.trail)] =
               [sequence |-> m.sequence + 1, kind |-> "Changed", change |-> s]
          /\ d = 1 => Len(m.trail) = MaxAudit
    BY <2>a DEF OneMore
  <2>7. new \in Effect
    BY <2>2, <2>3 DEF Effect
  <2>8. /\ n \in Memory /\ n.trail = r.trail /\ n.sequence = r.sequence
        /\ n.effects = m.effects \cup {new}
    BY <2>2, <2>3, <2>7 DEF Memory
  <2> HIDE DEF n
  <2>9. Contiguous(n)
    BY <2>3, <2>8 DEF Contiguous
  <2>10. Explained(n, new)
    <3>1. Len(r.trail) \in DOMAIN n.trail
      <4>1. Len(m.trail) - d >= 0
        BY <2>2, <2>4, JournalAssumption
      <4>2. r.trail \in Seq(Record)
        BY <2>3 DEF Memory
      <4> QED
        BY <2>2, <2>4, <2>8, <4>1, <4>2
    <3> QED
      BY <2>3, <2>4, <2>8, <3>1 DEF Explained
  <2>11. \A e \in n.effects : Explained(n, e) \/ n.sequence >= e.sequence + MaxAudit
    BY <2>5, <2>8, <2>10 DEF Explained
  <2>12. Changes(n) = Changes(m) \cup {s}
    <3>1. new.change = s
      OBVIOUS
    <3> HIDE DEF new
    <3>2. Changes(m) \cup {s} \subseteq Changes(n)
      BY <2>8, <3>1 DEF Changes
    <3>3. ASSUME NEW x \in Changes(n)
          PROVE  x \in Changes(m) \cup {s}
      BY <2>8, <3>1, <3>3 DEF Changes
    <3> QED
      BY <3>2, <3>3
  <2>13. ASSUME NEW i \in 1..Len(n.trail),
                n.trail[i].kind = "Changed", n.trail[i].change \notin Changes(n)
         PROVE  \E j \in 1..Len(n.trail) : j > i /\ n.trail[j].kind = "PersistenceFailed"
    <3>1. i # Len(r.trail)
      BY <2>4, <2>8, <2>12, <2>13
    <3>2. i \in 1..(Len(m.trail) - d) /\ i + d \in 1..Len(m.trail)
      <4>1. Len(r.trail) = Len(m.trail) - d + 1 /\ i \in 1..Len(r.trail)
        BY <2>4, <2>8, <2>13
      <4> DEFINE short == Len(m.trail)
                 long == Len(r.trail)
      <4>2. short \in Nat /\ long = short - d + 1 /\ i \in 1..long /\ i # long
        BY <2>2, <3>1, <4>1
      <4> HIDE DEF short, long
      <4>3. i \in 1..(short - d) /\ i + d \in 1..short
        BY <4>2
      <4> QED
        BY <4>3 DEF short
    <3>3. r.trail[i] = m.trail[i + d]
      BY <2>4, <3>2
    <3>4. m.trail[i + d].kind = "Changed" /\ m.trail[i + d].change \notin Changes(m)
      BY <2>8, <2>12, <2>13, <3>3
    <3>5. PICK j \in 1..Len(m.trail) : j > i + d /\ m.trail[j].kind = "PersistenceFailed"
      BY <2>1, <3>2, <3>4 DEF Explains
    <3>6. /\ j - d \in 1..(Len(m.trail) - d) /\ j - d \in 1..Len(r.trail) /\ j - d > i
          /\ (j - d) + d = j
      BY <2>2, <2>4, <3>2, <3>5
    <3>7. r.trail[j - d] = m.trail[j]
      BY <2>4, <3>6
    <3> QED
      BY <2>8, <3>5, <3>6, <3>7
  <2> QED
    BY <1>2, <2>6, <2>8, <2>9, <2>11, <2>12, <2>13 DEF MemoryOK, Sound, Explains
<1> QED
  BY <1>1, <1>2

\* A failure is recorded, and at most the effect of its save is undone.
LEMMA FailedOK ==
  ASSUME NEW m, MemoryOK(m), NEW c, NEW s
  PROVE  /\ MemoryOK(Failed(m, c, s))
         /\ Changes(m) \ {s} \subseteq Changes(Failed(m, c, s))
<1> DEFINE noted == Recorded(m, "PersistenceFailed", None)
           again == Recorded(noted, "PersistenceFailed", None)
           left == Without(m.effects, s)
<1>1. "PersistenceFailed" \in AuditKind \ {"Changed"} /\ None \in Name
  BY DEF AuditKind, Name
<1>2. MemoryOK(noted) /\ noted.effects = m.effects
  BY <1>1, PlainOK
<1>3. MemoryOK(again) /\ again.effects = m.effects
  BY <1>1, <1>2, PlainOK
<1>4. left \subseteq m.effects
  BY DEF Without
<1>5. /\ MemoryOK([noted EXCEPT !.effects = left])
      /\ [noted EXCEPT !.effects = left].effects = left
  BY <1>1, <1>4, NotedOK
<1>6. /\ MemoryOK([again EXCEPT !.effects = left])
      /\ [again EXCEPT !.effects = left].effects = left
  BY <1>1, <1>2, <1>4, NotedOK
<1>7. Changes(m) \ {s} \subseteq {e.change : e \in left}
  BY DEF Changes, Without
<1>8. [noted EXCEPT !.effects = Without(@, s)] = [noted EXCEPT !.effects = left]
  BY <1>2
<1>9. [again EXCEPT !.effects = Without(@, s)] = [again EXCEPT !.effects = left]
  BY <1>3
<1> HIDE DEF left
<1>10. CASE c = "allocate"
  <2>1. Failed(m, c, s) = [again EXCEPT !.effects = left]
    BY <1>9, <1>10 DEF Failed
  <2> QED
    BY <1>6, <1>7, <2>1 DEF Changes
<1>11. CASE c = "change"
  <2>1. Failed(m, c, s) = [noted EXCEPT !.effects = left]
    BY <1>8, <1>11 DEF Failed
  <2> QED
    BY <1>5, <1>7, <2>1 DEF Changes
<1>12. CASE c \notin {"allocate", "change"}
  <2>1. Failed(m, c, s) = noted
    BY <1>12 DEF Failed
  <2> QED
    BY <1>2, <2>1 DEF Changes
<1> QED
  BY <1>10, <1>11, <1>12

-----------------------------------------------------------------------------
(* The journal                                                             *)

\* Every memory, of processes and in images.
MemoriesOK ==
  /\ memory \in [Process -> Memory] /\ image \in [Save -> Memory]
  /\ call \in [Process -> Call \cup {"none"}] /\ granted \subseteq Save
  /\ \A p \in Process : MemoryOK(memory[p])
  /\ \A s \in Save : MemoryOK(image[s])

\* Who is up has, and who is about to publish carries, what was granted; while
\* the machine has power the published image has it.
GrantInv ==
  ~powerLost =>
    /\ granted \subseteq 1..path
    /\ path # None => granted \subseteq Changes(image[path])
    /\ \A p \in Writers :
         /\ status[p] \notin Loading => granted \subseteq Changes(memory[p])
         /\ status[p] = "reading" => handle[p].file = path
         /\ status[p] \in AtWork =>
              /\ granted \subseteq Changes(image[saves])
              /\ call[p] = "allocate" => /\ saves \in Changes(memory[p])
                                         /\ saves \in Changes(image[saves])

\* The inductive invariant of the journal.
JournalInv == FileInv /\ MemoriesOK /\ GrantInv

\* A process without a runtime explains nothing and has nothing to explain.
LEMMA BlankOK == MemoryOK(Blank) /\ Changes(Blank) = {}
<1>1. Blank \in Memory
  BY DEF Blank, Memory
<1>2. Blank.trail = <<>> /\ Blank.effects = {} /\ Len(Blank.trail) = 0
  BY DEF Blank
<1>3. Contiguous(Blank)
  BY <1>2, JournalAssumption DEF Contiguous
<1>4. Explains(Blank)
  BY <1>2 DEF Explains
<1> QED
  BY <1>1, <1>2, <1>3, <1>4 DEF MemoryOK, Sound, Changes

\* Nor has one that has just constructed its runtime.
LEMMA OpenedOK == MemoryOK(Opened) /\ Changes(Opened) = {}
<1>1. "RuntimeOpened" \in AuditKind \ {"Changed"} /\ None \in Name
  BY DEF AuditKind, Name
<1> QED
  BY <1>1, BlankOK, PlainOK DEF Opened, Changes

\* A refused image is recorded.
LEMMA CorruptOK ==
  ASSUME NEW m, MemoryOK(m)
  PROVE  MemoryOK(Corrupt(m)) /\ Changes(Corrupt(m)) = Changes(m)
<1>1. "CorruptionDetected" \in AuditKind \ {"Changed"} /\ None \in Name
  BY DEF AuditKind, Name
<1> QED
  BY <1>1, PlainOK DEF Corrupt, Changes

\* A process remembers something that is in order.
LEMMA RememberOK ==
  ASSUME MemoriesOK, NEW p \in Process, NEW m, MemoryOK(m), Remember(p, m)
  PROVE  /\ memory' \in [Process -> Memory]
         /\ \A q \in Process : MemoryOK(memory[q])'
         /\ memory'[p] = m
         /\ \A q \in Process \ {p} : memory'[q] = memory[q]
<1>1. m \in Memory
  BY DEF MemoryOK, Sound
<1>2. /\ memory' \in [Process -> Memory] /\ memory'[p] = m
      /\ \A q \in Process \ {p} : memory'[q] = memory[q]
  BY <1>1 DEF Remember, MemoriesOK
<1>3. ASSUME NEW q \in Process
      PROVE  MemoryOK(memory'[q])
  BY <1>2 DEF MemoriesOK
<1>4. \A q \in Process : MemoryOK(memory[q])'
  BY <1>3 DEF MemoryOK
<1> QED
  BY <1>2, <1>4

\* The initial states of the journal.
LEMMA JournalInitially == JournalInit => JournalInv
<1> SUFFICES ASSUME JournalInit PROVE JournalInv
  OBVIOUS
<1>1. FileInv
  BY FileInitially DEF JournalInit
<1>2. Blank \in Memory
  BY BlankOK DEF MemoryOK, Sound
<1>3. MemoriesOK
  BY <1>2, BlankOK DEF JournalInit, MemoriesOK
<1>4. GrantInv
  BY StateFileAssumption DEF JournalInit, Init, GrantInv, Loading, AtWork, Filling
<1> QED
  BY <1>1, <1>3, <1>4 DEF JournalInv

\* Every save the image of which is replaced keeps the table of images in order.
LEMMA ImageOK ==
  ASSUME MemoriesOK, NEW s \in Save, NEW m, MemoryOK(m), image' = [image EXCEPT ![s] = m]
  PROVE  /\ image' \in [Save -> Memory]
         /\ \A t \in Save : MemoryOK(image'[t])
         /\ image'[s] = m
         /\ \A t \in Save \ {s} : image'[t] = image[t]
<1>1. m \in Memory
  BY DEF MemoryOK, Sound
<1> QED
  BY <1>1 DEF MemoriesOK

\* A call makes its change and encodes it, or fails at once.
LEMMA BeginSafe ==
  ASSUME OneWriter, JournalInv, NEW p \in Process, NEW c \in Call, Begin(p, c)
  PROVE  MemoriesOK' /\ GrantInv'
<1> DEFINE m == Applied(memory[p], c, saves + 1)
<1>1. FileInv /\ MemoriesOK /\ GrantInv /\ TypeOK /\ Begun
  BY DEF JournalInv, FileInv
<1>2. /\ p \in Writers /\ saves' = saves + 1 /\ saves' \in Save /\ saves \in Nat
      /\ path' = path /\ path \in Nat /\ path <= saves /\ status[p] = "up"
      /\ powerLost' = powerLost /\ granted' = granted /\ handle' = handle
      /\ path # None => path \in Save
  <2>1. Open(p) /\ granted' = granted
    BY DEF Begin
  <2>2. saves \in Nat /\ path \in Nat /\ MaxSaves \in Nat
    BY <1>1, Types, StateFileAssumption
  <2> QED
    BY <1>1, <2>1, <2>2 DEF Open, At, Save, reading, Begun, TypeOK, Name
<1>3. status' \in [Process -> Status] /\ \A q \in Process \ {p} : status'[q] = status[q]
  BY <1>1 DEF Begin, Open, At, TypeOK, Status
<1>4. MemoryOK(memory[p]) /\ MemoryOK(m) /\ Changes(memory[p]) \subseteq Changes(m)
      /\ (c # "save" => saves' \in Changes(m))
  BY <1>1, <1>2, AppliedOK DEF MemoriesOK
<1>5. \A q \in Writers : q = p
  BY <1>2 DEF OneWriter
<1> HIDE DEF m
<1>6. CASE /\ status'[p] = "open"
           /\ Remember(p, m)
           /\ image' = [image EXCEPT ![saves'] = m]
           /\ call' = [call EXCEPT ![p] = c]
  <2>1. /\ memory' \in [Process -> Memory] /\ \A q \in Process : MemoryOK(memory[q])'
        /\ memory'[p] = m
    BY <1>1, <1>4, <1>6, RememberOK
  <2>2. /\ image' \in [Save -> Memory] /\ \A t \in Save : MemoryOK(image'[t])
        /\ image'[saves'] = m /\ \A t \in Save \ {saves'} : image'[t] = image[t]
    BY <1>1, <1>2, <1>4, <1>6, ImageOK
  <2>3. call' \in [Process -> Call \cup {"none"}] /\ call'[p] = c
    BY <1>1, <1>6 DEF MemoriesOK
  <2>4. MemoriesOK'
    <3>1. \A t \in Save : MemoryOK(image[t])'
      BY <2>2 DEF MemoryOK
    <3> QED
      BY <1>1, <1>2, <2>1, <2>2, <2>3, <3>1 DEF MemoriesOK
  <2>5. path # None => image'[path] = image[path]
    BY <1>2, <2>2
  <2>6. ~powerLost => granted \subseteq Changes(memory[p])
    BY <1>1, <1>2 DEF GrantInv, Loading
  <2>7. GrantInv'
    <3> SUFFICES ASSUME ~powerLost
                 PROVE  /\ granted \subseteq 1..path
                        /\ path # None => granted \subseteq Changes(image'[path])
                        /\ granted \subseteq Changes(m)
                        /\ c = "allocate" => saves' \in Changes(m)
      BY <1>2, <1>5, <1>6, <2>1, <2>2, <2>3 DEF GrantInv, Changes
    <3> QED
      BY <1>1, <1>4, <2>5, <2>6 DEF GrantInv, Changes
  <2> QED
    BY <2>4, <2>7
<1>7. CASE /\ status'[p] = "up"
           /\ Remember(p, Failed(m, c, saves'))
           /\ UNCHANGED <<image, call>>
  <2>1. /\ MemoryOK(Failed(m, c, saves'))
        /\ Changes(m) \ {saves'} \subseteq Changes(Failed(m, c, saves'))
    BY <1>4, FailedOK
  <2>2. /\ memory' \in [Process -> Memory] /\ \A q \in Process : MemoryOK(memory[q])'
        /\ memory'[p] = Failed(m, c, saves')
    BY <1>1, <1>7, <2>1, RememberOK
  <2>3. MemoriesOK'
    <3>1. \A t \in Save : MemoryOK(image[t])'
      BY <1>1, <1>7 DEF MemoriesOK, MemoryOK
    <3> QED
      BY <1>1, <1>2, <1>7, <2>2, <3>1 DEF MemoriesOK
  <2>4. GrantInv'
    <3> SUFFICES ASSUME ~powerLost
                 PROVE  /\ granted \subseteq 1..path
                        /\ path # None => granted \subseteq Changes(image[path])
                        /\ granted \subseteq Changes(Failed(m, c, saves'))
      BY <1>2, <1>5, <1>7, <2>2 DEF GrantInv, Changes, AtWork, Filling
    <3>1. granted \subseteq 1..path /\ granted \subseteq Changes(memory[p])
      BY <1>1, <1>2 DEF GrantInv, Loading
    <3>2. saves' \notin granted
      BY <1>2, <3>1
    <3> QED
      BY <1>1, <1>4, <2>1, <3>1, <3>2 DEF GrantInv
  <2> QED
    BY <2>3, <2>4
<1> QED
  BY <1>6, <1>7 DEF Begin, m

\* A save goes on, or is undone.
LEMMA ProceedSafe ==
  ASSUME OneWriter, JournalInv, NEW p \in Process, Proceed(p)
  PROVE  MemoriesOK' /\ GrantInv'
<1>1. FileInv /\ MemoriesOK /\ GrantInv /\ TypeOK /\ WriterOK(p)
  BY DEF JournalInv, FileInv
<1>2. status[p] \in Filling /\ status[p] \in AtWork
  BY DEF Proceed, Write, Sync, Close, Rename, At, Filling, AtWork
<1>3. /\ p \in Writers /\ saving[p] = saves /\ saves \in Save /\ saves \in Nat /\ path \in Nat
      /\ path < saves /\ temporary = saves
      /\ path # None => path \in Save
  BY <1>1, <1>2, AtStage DEF WriterOK, TypeOK, Name
<1>4. /\ saves' = saves /\ powerLost' = powerLost /\ granted' = granted /\ handle' = handle
      /\ \A q \in Process \ {p} : status'[q] = status[q]
  BY <1>1 DEF Proceed, Write, Sync, Close, Rename, At, Abandon, contents, reading, history, TypeOK
<1>5. /\ status'[p] \in {"up", "written", "synced", "closed", "renamed"}
      /\ status'[p] # "renamed" => path' = path
      /\ status'[p] = "renamed" => path' = saves
  BY <1>1, <1>3 DEF Proceed, Write, Sync, Close, Rename, At, Abandon, names, TypeOK
<1>6. \A q \in Writers : q = p
  BY <1>3 DEF OneWriter
<1>7. MemoryOK(memory[p])
  BY <1>1 DEF MemoriesOK
<1>8. CASE /\ status'[p] = "up"
           /\ Remember(p, Failed(memory[p], call[p], saving[p]))
           /\ image' = [image EXCEPT ![saving[p]] = Blank]
           /\ call' = [call EXCEPT ![p] = "none"]
  <2> DEFINE m == Failed(memory[p], call[p], saves)
  <2>1. MemoryOK(m) /\ Changes(memory[p]) \ {saves} \subseteq Changes(m)
    BY <1>7, FailedOK
  <2>2. Remember(p, m)
    BY <1>3, <1>8
  <2> HIDE DEF m
  <2>3. /\ memory' \in [Process -> Memory] /\ \A q \in Process : MemoryOK(memory[q])'
        /\ memory'[p] = m
    BY <1>1, <2>1, <2>2, RememberOK
  <2>4. /\ image' \in [Save -> Memory] /\ \A t \in Save : MemoryOK(image'[t])
        /\ \A t \in Save \ {saves} : image'[t] = image[t]
    BY <1>1, <1>3, <1>8, BlankOK, ImageOK
  <2>5. MemoriesOK'
    <3>1. \A t \in Save : MemoryOK(image[t])'
      BY <2>4 DEF MemoryOK
    <3>2. call' \in [Process -> Call \cup {"none"}]
      BY <1>1, <1>8 DEF MemoriesOK
    <3> QED
      BY <1>1, <1>4, <2>3, <2>4, <3>1, <3>2 DEF MemoriesOK
  <2>6. GrantInv'
    <3> SUFFICES ASSUME ~powerLost
                 PROVE  /\ granted \subseteq 1..path
                        /\ path # None => granted \subseteq Changes(image'[path])
                        /\ granted \subseteq Changes(m)
      BY <1>4, <1>5, <1>6, <1>8, <2>3 DEF GrantInv, Changes, AtWork, Filling
    <3>1. granted \subseteq 1..path /\ granted \subseteq Changes(memory[p])
      BY <1>1, <1>2, <1>3 DEF GrantInv, Loading, Filling
    <3>2. saves \notin granted
      BY <1>3, <3>1
    <3>3. path # None => image'[path] = image[path]
      BY <1>3, <2>4
    <3> QED
      BY <1>1, <2>1, <3>1, <3>2, <3>3 DEF GrantInv
  <2> QED
    BY <2>5, <2>6
<1>9. CASE status'[p] # "up" /\ UNCHANGED <<memory, image, call>>
  <2>1. MemoriesOK'
    BY <1>1, <1>4, <1>9 DEF MemoriesOK, MemoryOK
  <2>2. GrantInv'
    <3> SUFFICES ASSUME ~powerLost
                 PROVE  /\ granted \subseteq 1..path'
                        /\ path' # None => granted \subseteq Changes(image[path'])
                        /\ granted \subseteq Changes(memory[p])
                        /\ granted \subseteq Changes(image[saves])
                        /\ call[p] = "allocate" => /\ saves \in Changes(memory[p])
                                                   /\ saves \in Changes(image[saves])
      BY <1>4, <1>5, <1>6, <1>9 DEF GrantInv, Changes
    <3>1. /\ granted \subseteq 1..path /\ granted \subseteq Changes(memory[p])
          /\ granted \subseteq Changes(image[saves])
          /\ path # None => granted \subseteq Changes(image[path])
          /\ call[p] = "allocate" => /\ saves \in Changes(memory[p])
                                     /\ saves \in Changes(image[saves])
      BY <1>1, <1>2, <1>3 DEF GrantInv, Loading, Filling
    <3>2. granted \subseteq 1..path'
      BY <1>3, <1>5, <3>1
    <3> QED
      BY <1>5, <3>1, <3>2
  <2> QED
    BY <2>1, <2>2
<1> QED
  BY <1>8, <1>9 DEF Proceed

\* A save that was published is reported, and an allocation with it.
LEMMA FinishSafe ==
  ASSUME OneWriter, JournalInv, NEW p \in Process, Finish(p)
  PROVE  MemoriesOK' /\ GrantInv'
<1> DEFINE m == Recorded(memory[p], "PersistenceFlushed", None)
<1>1. FileInv /\ MemoriesOK /\ GrantInv /\ TypeOK /\ WriterOK(p)
  BY DEF JournalInv, FileInv
<1>2. status[p] = "renamed" /\ status[p] \in AtWork
  BY DEF Finish, Return, At, AtWork
<1>3. /\ p \in Writers /\ saving[p] = saves /\ saves \in Save /\ saves \in Nat /\ path = saves
  BY <1>1, <1>2, AtStage DEF WriterOK
<1>4. /\ path' = path /\ powerLost' = powerLost /\ handle' = handle /\ image' = image
      /\ status'[p] = "up" /\ \A q \in Process \ {p} : status'[q] = status[q]
  BY <1>1 DEF Finish, Return, At, names, reading, TypeOK
<1>5. \A q \in Writers : q = p
  BY <1>3 DEF OneWriter
<1>6. MemoryOK(m) /\ Changes(m) = Changes(memory[p])
  <2>1. "PersistenceFlushed" \in AuditKind \ {"Changed"} /\ None \in Name
    BY DEF AuditKind, Name
  <2> QED
    BY <1>1, <2>1, PlainOK DEF MemoriesOK, Changes
<1> HIDE DEF m
<1>7. /\ memory' \in [Process -> Memory] /\ \A q \in Process : MemoryOK(memory[q])'
      /\ memory'[p] = m
  BY <1>1, <1>6, RememberOK DEF Finish, m
<1>8. granted' \subseteq granted \cup {saves} /\ (call[p] # "allocate" => granted' = granted)
  BY <1>3 DEF Finish
<1>9. MemoriesOK'
  <2>1. call' \in [Process -> Call \cup {"none"}] /\ granted' \subseteq Save
    BY <1>1, <1>3, <1>8 DEF MemoriesOK, Finish
  <2>2. \A t \in Save : MemoryOK(image[t])'
    BY <1>1, <1>4 DEF MemoriesOK, MemoryOK
  <2> QED
    BY <1>1, <1>4, <1>7, <2>1, <2>2 DEF MemoriesOK
<1>10. GrantInv'
  <2> SUFFICES ASSUME ~powerLost
               PROVE  /\ granted' \subseteq 1..path
                      /\ granted' \subseteq Changes(image[path])
                      /\ granted' \subseteq Changes(m)
    BY <1>4, <1>5, <1>7 DEF GrantInv, Changes, AtWork, Filling
  <2>1. /\ granted \subseteq 1..path /\ granted \subseteq Changes(memory[p])
        /\ granted \subseteq Changes(image[saves])
        /\ call[p] = "allocate" => /\ saves \in Changes(memory[p])
                                   /\ saves \in Changes(image[saves])
    BY <1>1, <1>2, <1>3 DEF GrantInv, Loading, Filling
  <2>2. saves \in 1..path
    BY <1>3 DEF Save
  <2> QED
    BY <1>3, <1>6, <1>8, <2>1, <2>2
<1> QED
  BY <1>9, <1>10

\* A reset forgets what was granted with everything else.
LEMMA ResetSafe ==
  ASSUME OneWriter, JournalInv, NEW p \in Process, Reset(p)
  PROVE  MemoriesOK' /\ GrantInv'
<1> DEFINE m == Recorded(Blank, "StateReset", None)
<1>1. FileInv /\ MemoriesOK /\ GrantInv /\ TypeOK
  BY DEF JournalInv, FileInv
<1>2. /\ status[p] = "up" /\ p \in Writers /\ granted' = {} /\ UNCHANGED <<image, call>>
      /\ UNCHANGED <<path, saves, status, handle, powerLost>>
  BY DEF Reset, file, names, contents, reading, history
<1>3. \A q \in Writers : q = p
  BY <1>2 DEF OneWriter
<1>4. MemoryOK(m)
  <2>1. "StateReset" \in AuditKind \ {"Changed"} /\ None \in Name
    BY DEF AuditKind, Name
  <2> QED
    BY <2>1, BlankOK, PlainOK
<1>5. /\ memory' \in [Process -> Memory] /\ \A q \in Process : MemoryOK(memory[q])'
  BY <1>1, <1>4, RememberOK DEF Reset
<1>6. MemoriesOK'
  <2>1. \A t \in Save : MemoryOK(image[t])'
    BY <1>1, <1>2 DEF MemoriesOK, MemoryOK
  <2> QED
    BY <1>1, <1>2, <1>5, <2>1 DEF MemoriesOK
<1>7. GrantInv'
  BY <1>1, <1>2, <1>3 DEF GrantInv, AtWork, Filling
<1> QED
  BY <1>6, <1>7

\* A start and a read change what one process remembers, and nothing a writer
\* at work relies on.
LEMMA ArrivalSafe ==
  ASSUME OneWriter, JournalInv, NEW p \in Process, NEW m, MemoryOK(m), Remember(p, m),
         UNCHANGED <<names, contents, history, image, call, granted>>,
         \A q \in Process \ {p} : status'[q] = status[q] /\ handle'[q] = handle[q],
         status'[p] \in Loading \cup {"up"},
         p \in Writers /\ status'[p] = "up" /\ ~powerLost => granted \subseteq Changes(m),
         p \in Writers /\ status'[p] = "reading" => handle'[p].file = path
  PROVE  MemoriesOK' /\ GrantInv'
<1>1. FileInv /\ MemoriesOK /\ GrantInv /\ TypeOK
  BY DEF JournalInv, FileInv
<1>2. /\ memory' \in [Process -> Memory] /\ \A q \in Process : MemoryOK(memory[q])'
      /\ memory'[p] = m /\ \A q \in Process \ {p} : memory'[q] = memory[q]
  BY <1>1, RememberOK
<1>3. MemoriesOK'
  <2>1. \A t \in Save : MemoryOK(image[t])'
    BY <1>1 DEF MemoriesOK, MemoryOK
  <2> QED
    BY <1>1, <1>2, <2>1 DEF MemoriesOK
<1>4. GrantInv'
  <2>1. UNCHANGED <<path, saves, powerLost, image, granted, call>>
    BY DEF names, contents, history
  <2>2. ASSUME ~powerLost, NEW q \in Writers
        PROVE  /\ status'[q] \notin Loading => granted \subseteq Changes(memory'[q])
               /\ status'[q] = "reading" => handle'[q].file = path
               /\ status'[q] \in AtWork =>
                    /\ granted \subseteq Changes(image[saves])
                    /\ call[q] = "allocate" => /\ saves \in Changes(memory'[q])
                                               /\ saves \in Changes(image[saves])
    <3>1. CASE q = p
      BY <1>2, <2>2, <3>1 DEF Loading, AtWork, Filling
    <3>2. CASE q # p
      <4>1. q \in Process
        BY StateFileAssumption
      <4> QED
        BY <1>1, <1>2, <2>2, <3>2, <4>1 DEF GrantInv
    <3> QED
      BY <3>1, <3>2
  <2> QED
    BY <1>1, <2>1, <2>2 DEF GrantInv, Changes
<1> QED
  BY <1>3, <1>4

\* A process that finds no file has nothing to own.
LEMMA LaunchSafe ==
  ASSUME OneWriter, JournalInv, NEW p \in Process, Launch(p)
  PROVE  MemoriesOK' /\ GrantInv'
<1>1. TypeOK /\ MemoriesOK /\ GrantInv
  BY DEF JournalInv, FileInv
<1>2. /\ UNCHANGED <<names, contents, history, image, call, granted>>
      /\ \A q \in Process \ {p} : status'[q] = status[q] /\ handle'[q] = handle[q]
      /\ status'[p] \in {"up", "sized", "refused"}
      /\ status'[p] = "up" => path = None
  BY <1>1 DEF Launch, Start, At, TypeOK
<1>3. ASSUME ~powerLost, status'[p] = "up"
      PROVE  granted = {}
  BY <1>1, <1>2, <1>3 DEF GrantInv, None
<1>4. PICK m : MemoryOK(m) /\ Remember(p, m)
  BY OpenedOK, CorruptOK DEF Launch
<1>5. status'[p] \in Loading \cup {"up"} /\ status'[p] # "reading"
  BY <1>2 DEF Loading
<1> QED
  BY <1>2, <1>3, <1>4, <1>5, ArrivalSafe

\* A process that reads the file has what was granted, since the only writer is itself.
LEMMA LoadSafe ==
  ASSUME OneWriter, JournalInv, NEW p \in Process, Load(p)
  PROVE  MemoriesOK' /\ GrantInv'
<1>1. TypeOK /\ MemoriesOK /\ GrantInv /\ ReaderOK(p) /\ MemoryOK(memory[p]) /\ memory[p] \in Memory
  BY DEF JournalInv, FileInv, MemoriesOK
<1>2. CASE OpenToRead(p) /\ Keep
  <2>1. /\ UNCHANGED <<names, contents, history, image, call, granted>>
        /\ \A q \in Process \ {p} : status'[q] = status[q] /\ handle'[q] = handle[q]
        /\ status'[p] = "reading" /\ handle'[p].file = path
    BY <1>1, <1>2 DEF OpenToRead, Keep, journal, At, TypeOK
  <2>2. Remember(p, memory[p])
    BY <1>1, <1>2 DEF Remember, Keep, journal, MemoriesOK
  <2>3. status'[p] \in Loading \cup {"up"} /\ status'[p] # "up"
    BY <2>1 DEF Loading
  <2> QED
    BY <1>1, <2>1, <2>2, <2>3, ArrivalSafe
<1>3. CASE /\ Read(p)
           /\ Remember(p, IF status'[p] = "up"
                            THEN Recorded(Restored(view'[p]), "RecoveryPerformed", None)
                            ELSE Corrupt(memory[p]))
           /\ UNCHANGED <<image, call, granted>>
  <2>1. /\ UNCHANGED <<names, contents, history, image, call, granted>>
        /\ \A q \in Process \ {p} : status'[q] = status[q] /\ handle'[q] = handle[q]
        /\ status'[p] \in {"up", "refused"} /\ status[p] = "reading"
        /\ status'[p] = "up" => view'[p] = handle[p].file
    BY <1>1, <1>3 DEF Read, At, TypeOK
  <2>2. status'[p] \in Loading \cup {"up"} /\ status'[p] # "reading"
    BY <2>1 DEF Loading
  <2>3. CASE status'[p] = "up"
    <3> DEFINE m == Recorded(image[handle[p].file], "RecoveryPerformed", None)
    <3>1. handle[p].file \in Save
      BY <1>1, <2>1 DEF ReaderOK, TypeOK, Name
    <3>2. MemoryOK(image[handle[p].file])
      BY <1>1, <3>1 DEF MemoriesOK
    <3>3. "RecoveryPerformed" \in AuditKind \ {"Changed"} /\ None \in Name
      BY DEF AuditKind, Name
    <3>4. MemoryOK(m) /\ Changes(m) = Changes(image[handle[p].file])
      BY <3>2, <3>3, PlainOK DEF Changes
    <3>5. Remember(p, m)
      BY <1>3, <2>1, <2>3 DEF Restored
    <3> HIDE DEF m
    <3>6. p \in Writers /\ ~powerLost => granted \subseteq Changes(m)
      BY <1>1, <2>1, <3>1, <3>4 DEF GrantInv, Save, None
    <3> QED
      BY <2>1, <2>2, <3>4, <3>5, <3>6, ArrivalSafe
  <2>4. CASE status'[p] = "refused"
    <3>1. Remember(p, Corrupt(memory[p])) /\ MemoryOK(Corrupt(memory[p]))
      BY <1>1, <1>3, <2>4, CorruptOK
    <3> QED
      BY <2>1, <2>2, <2>4, <3>1, ArrivalSafe
  <2> QED
    BY <2>1, <2>3, <2>4
<1> QED
  BY <1>2, <1>3 DEF Load

\* Processes end, one or all.
LEMMA PerishSafe ==
  ASSUME OneWriter, JournalInv, Perish
  PROVE  MemoriesOK' /\ GrantInv'
<1>1. TypeOK /\ MemoriesOK /\ GrantInv
  BY DEF JournalInv, FileInv
<1>2. /\ memory' = [p \in Process |-> IF status'[p] = "down" THEN Blank ELSE memory[p]]
      /\ call' = [p \in Process |-> IF status'[p] = "down" THEN "none" ELSE call[p]]
      /\ UNCHANGED <<image, granted>>
  BY DEF Perish
<1>3. MemoriesOK'
  <2>1. ASSUME NEW p \in Process
        PROVE  MemoryOK(memory'[p]) /\ memory'[p] \in Memory
    BY <1>1, <1>2, BlankOK DEF MemoriesOK, MemoryOK, Sound
  <2>2. \A p \in Process : MemoryOK(memory[p])'
    BY <2>1 DEF MemoryOK
  <2>3. \A t \in Save : MemoryOK(image[t])'
    BY <1>1, <1>2 DEF MemoriesOK, MemoryOK
  <2>4. call' \in [Process -> Call \cup {"none"}]
    BY <1>1, <1>2 DEF MemoriesOK
  <2>5. memory' \in [Process -> Memory]
    BY <1>2, <2>1
  <2> QED
    BY <1>1, <1>2, <2>2, <2>3, <2>4, <2>5 DEF MemoriesOK
<1>4. CASE LosePower
  BY <1>3, <1>4 DEF LosePower, GrantInv
<1>5. ASSUME NEW p \in Process, Die(p)
      PROVE  GrantInv'
  <2>1. /\ UNCHANGED <<path, saves, powerLost, image, granted>>
        /\ status'[p] = "down"
        /\ \A q \in Process \ {p} : status'[q] = status[q] /\ handle'[q] = handle[q]
    BY <1>1, <1>2, <1>5, GoneTypes DEF Die, names, contents, history
  <2>2. ASSUME ~powerLost, NEW q \in Writers
        PROVE  /\ status'[q] \notin Loading => granted \subseteq Changes(memory'[q])
               /\ status'[q] = "reading" => handle'[q].file = path
               /\ status'[q] \in AtWork =>
                    /\ granted \subseteq Changes(image[saves])
                    /\ call'[q] = "allocate" => /\ saves \in Changes(memory'[q])
                                                /\ saves \in Changes(image[saves])
    <3>0. q \in Process
      BY StateFileAssumption
    <3>1. CASE status'[q] = "down"
      BY <3>1 DEF Loading, AtWork, Filling
    <3>2. CASE status'[q] # "down"
      <4>1. q # p /\ memory'[q] = memory[q] /\ call'[q] = call[q]
        BY <1>2, <2>1, <3>0, <3>2
      <4> QED
        BY <1>1, <2>1, <2>2, <3>0, <4>1 DEF GrantInv
    <3> QED
      BY <3>1, <3>2
  <2>3. ~powerLost => /\ granted \subseteq 1..path
                      /\ path # None => granted \subseteq Changes(image[path])
    BY <1>1 DEF GrantInv
  <2>4. ~powerLost' => /\ granted' \subseteq 1..path'
                       /\ path' # None => granted' \subseteq Changes(image'[path'])
    BY <2>1, <2>3
  <2>5. /\ powerLost' = powerLost /\ granted' = granted
        /\ saves' = saves /\ image' = image /\ path' = path
    BY <2>1
  <2> QED
    BY <2>2, <2>4, <2>5 DEF GrantInv, Changes
<1> QED
  BY <1>3, <1>4, <1>5 DEF Perish

\* Every step keeps the invariant of the journal.
LEMMA JournalInvStep ==
  ASSUME OneWriter, JournalInv, [JournalNext]_allVars
  PROVE  JournalInv'
<1>1. FileInv'
  BY JournalStep, FileStep DEF JournalInv
<1>0. ASSUME UNCHANGED <<journal, status, saves, path, powerLost, reading>>
      PROVE  JournalInv'
  <2>1. /\ memory' = memory /\ image' = image /\ call' = call /\ granted' = granted
        /\ status' = status /\ saves' = saves /\ path' = path /\ powerLost' = powerLost
        /\ handle' = handle
    BY <1>0 DEF journal, reading
  <2>2. MemoriesOK'
    BY <2>1 DEF JournalInv, MemoriesOK, MemoryOK
  <2>3. GrantInv'
    BY <2>1 DEF JournalInv, GrantInv, Changes
  <2> QED
    BY <1>1, <2>2, <2>3 DEF JournalInv
<1>2. CASE UNCHANGED allVars
  BY <1>0, <1>2 DEF allVars, file, names, contents, history
<1>3. CASE Settle /\ Keep
  BY <1>0, <1>3 DEF Settle, Keep, contents, history
<1>4. CASE \E p \in Process, c \in Call : Begin(p, c)
  BY <1>1, <1>4, BeginSafe DEF JournalInv
<1>5. CASE \E p \in Process : Proceed(p) \/ Finish(p) \/ Reset(p)
  BY <1>1, <1>5, ProceedSafe, FinishSafe, ResetSafe DEF JournalInv
<1>6. CASE \E p \in Process : Launch(p) \/ Load(p)
  BY <1>1, <1>6, LaunchSafe, LoadSafe DEF JournalInv
<1>7. CASE Perish
  BY <1>1, <1>7, PerishSafe DEF JournalInv
<1> QED
  BY <1>2, <1>3, <1>4, <1>5, <1>6, <1>7 DEF JournalNext

\* The invariant of the journal.
LEMMA JournalInvariant ==
  ASSUME OneWriter
  PROVE  JournalSpec => []JournalInv
<1>1. JournalInv /\ [JournalNext]_allVars => JournalInv'
  BY JournalInvStep
<1> QED
  BY <1>1, JournalInitially, PTL DEF JournalSpec

-----------------------------------------------------------------------------
(* What follows                                                            *)

\* A journal is a use of the state file: whatever the processes do with their
\* memory, what they do to the file are steps of StateFile.
THEOREM JournalUsesStateFile == JournalSpec => Spec
<1>1. JournalInit => Init
  BY DEF JournalInit
<1>2. [JournalNext]_allVars => [Next]_vars
  BY JournalStep
<1> QED
  BY <1>1, <1>2, PTL DEF JournalSpec, Spec

\* With one writer, removing, opening, writing, flushing, closing and renaming
\* files, and sizing, opening and reading them, in any interleaving and with
\* deaths in between, come to a register whose image is replaced in one step
\* and read in one step, and whose callers are told the truth (writeStateFile,
\* readStateFile).
THEOREM FileIsRegister == OneWriter => (Spec => ActsAsRegister)
<1> SUFFICES ASSUME OneWriter PROVE Spec => Register!Spec
  BY DEF ActsAsRegister
<1>1. Init => Register!Init
  <2>1. ImageOf(None) = None /\ Doing("down") = "down"
    BY ImageFacts, Stages
  <2> QED
    BY <2>1 DEF Init, Register!Init, Register!None, None, NoHandle
<1>2. FileInv /\ [Next]_vars => FileInv'
  BY FileStep
<1>3. FileInv /\ [Next]_vars => [Register!Next]_(Register!registerVars)
  BY RegisterStep
<1> QED
  BY <1>1, <1>2, <1>3, FileInitially, PTL DEF Spec, Register!Spec

\* With one writer, the state has its shape: no file is longer than its image,
\* and every trail is one that decodeState accepts (appendAudit, recover).
THEOREM JournalTypeCorrect == OneWriter => (JournalSpec => []JournalTypeOK)
<1> SUFFICES ASSUME OneWriter PROVE JournalSpec => []JournalTypeOK
  OBVIOUS
<1>1. ASSUME NEW m, MemoryOK(m)
      PROVE  WellFormed(m)
  <2>1. /\ m.trail \in Seq(Record) /\ m.sequence \in Nat /\ m.effects \subseteq Effect
        /\ Len(m.trail) \in Nat /\ DOMAIN m.trail = 1..Len(m.trail) /\ Contiguous(m)
    BY <1>1 DEF MemoryOK, Sound, Memory
  <2>2. \A i \in DOMAIN m.trail : m.trail[i].kind \in AuditKind
    <3>1. \A i \in DOMAIN m.trail : m.trail[i] \in Record
      BY <2>1
    <3> QED
      BY <3>1 DEF Record
  <2>3. /\ \A i, j \in DOMAIN m.trail : i < j => m.trail[i].sequence < m.trail[j].sequence
        /\ \A i \in DOMAIN m.trail : m.trail[i].sequence <= m.sequence
    <3> DEFINE first == m.sequence - Len(m.trail)
    <3>1. first \in Int /\ first + Len(m.trail) = m.sequence
      BY <2>1, <1>1 DEF MemoryOK, Sound, Memory
    <3>2. \A i \in 1..Len(m.trail) : m.trail[i].sequence = first + i
      BY <2>1 DEF Contiguous
    <3> HIDE DEF first
    <3> QED
      BY <2>1, <3>1, <3>2
  <2> QED
    BY <2>1, <2>2, <2>3 DEF WellFormed, Contiguous, Effect
<1>2. JournalInv => JournalTypeOK
  BY <1>1 DEF JournalInv, FileInv, MemoriesOK, JournalTypeOK
<1> QED
  BY <1>2, JournalInvariant, PTL

\* With one writer, the state path always names one complete image, no older
\* than the last save reported as done (writeStateFile).
THEOREM SavesAreKept == OneWriter => (JournalSpec => []NothingLost)
<1> SUFFICES ASSUME OneWriter PROVE JournalSpec => []NothingLost
  OBVIOUS
<1>1. JournalInv => NothingLost
  <2>1. JournalInv => path \in Int /\ acked \in Int
    BY DEF JournalInv, FileInv, TypeOK, Name, Save, None
  <2> QED
    BY <2>1 DEF JournalInv, FileInv, Published, NothingLost
<1> QED
  BY <1>1, JournalInvariant, PTL

\* With one writer, no process ever recovers what a failed save had written
\* (writeStateFile's error returns).
THEOREM FailuresStayUnseen == OneWriter => (JournalSpec => []FailedSaveUnseen)
<1> SUFFICES ASSUME OneWriter PROVE JournalSpec => []FailedSaveUnseen
  OBVIOUS
<1>1. JournalInv => FailedSaveUnseen
  <2> SUFFICES ASSUME JournalInv PROVE FailedSaveUnseen
    OBVIOUS
  <2>1. path \notin failed /\ failed \subseteq Save
    BY DEF JournalInv, FileInv, Published, TypeOK
  <2>2. ASSUME NEW p \in Process
        PROVE  view[p] \notin failed
    <3>1. ReaderOK(p)
      BY DEF JournalInv, FileInv
    <3> QED
      BY <2>1, <3>1 DEF ReaderOK, Save, None
  <2> QED
    BY <2>1, <2>2 DEF FailedSaveUnseen
<1> QED
  BY <1>1, JournalInvariant, PTL

\* With one writer, what a process recovers is complete and no older than what
\* was published when it began to read (readStateFile, decodeState).
THEOREM RecoveryIsWhole == OneWriter => (JournalSpec => []RecoveredIsWholeAndRecent)
<1> SUFFICES ASSUME OneWriter PROVE JournalSpec => []RecoveredIsWholeAndRecent
  OBVIOUS
<1>1. JournalInv => RecoveredIsWholeAndRecent
  <2> SUFFICES ASSUME JournalInv, NEW p \in Process, view[p] # None
               PROVE  handle[p].size = Size[view[p]] /\ view[p] >= handle[p].since
    BY DEF RecoveredIsWholeAndRecent
  <2>1. ReaderOK(p) /\ TypeOK
    BY DEF JournalInv, FileInv
  <2>2. handle[p].since \in Nat /\ view[p] \in Nat
    BY <2>1, Types
  <2> QED
    BY <2>1, <2>2 DEF ReaderOK
<1> QED
  BY <1>1, JournalInvariant, PTL

\* With one writer, a whole file is only refused when it was replaced while it
\* was read (readStateFile's size and bound, saveLocked's bound).
THEOREM WholeFilesLoad == OneWriter => (JournalSpec => []RefusedOnlyWhenReplaced)
<1> SUFFICES ASSUME OneWriter PROVE JournalSpec => []RefusedOnlyWhenReplaced
  OBVIOUS
<1>1. JournalInv => RefusedOnlyWhenReplaced
  BY DEF JournalInv, FileInv, ReaderOK, RefusedOnlyWhenReplaced
<1> QED
  BY <1>1, JournalInvariant, PTL

\* With one writer, every change in effect is in the audit trail, unless as
\* many later records as the bound allows have driven it out, and one that is
\* not in effect is followed by a failure (appendAudit, saveLocked, recover).
THEOREM TrailCorrect == OneWriter => (JournalSpec => []TrailExplains)
<1> SUFFICES ASSUME OneWriter PROVE JournalSpec => []TrailExplains
  OBVIOUS
<1>1. JournalInv => TrailExplains
  <2> SUFFICES ASSUME JournalInv, NEW m \in Kept
               PROVE  /\ \A e \in m.effects : Explained(m, e) \/ m.sequence >= e.sequence + MaxAudit
                      /\ \A i \in DOMAIN m.trail :
                           m.trail[i].kind = "Changed" /\ m.trail[i].change \notin Changes(m) =>
                             \E j \in DOMAIN m.trail : j > i /\ m.trail[j].kind = "PersistenceFailed"
    BY DEF TrailExplains
  <2>1. MemoryOK(m)
    <3>1. path = None \/ path \in Save
      BY DEF JournalInv, FileInv, TypeOK, Name
    <3> QED
      BY <3>1 DEF JournalInv, MemoriesOK, Kept
  <2>2. DOMAIN m.trail = 1..Len(m.trail)
    BY <2>1 DEF MemoryOK, Sound, Memory
  <2> QED
    BY <2>1, <2>2 DEF MemoryOK, Sound, Explains
<1> QED
  BY <1>1, JournalInvariant, PTL

\* With one writer and power, an allocation a caller was told of is owned by
\* every later incarnation that writes (allocate's durable boundary, recover).
THEOREM GrantsAreKept == OneWriter => (JournalSpec => []GrantKept)
<1> SUFFICES ASSUME OneWriter PROVE JournalSpec => []GrantKept
  OBVIOUS
<1>1. JournalInv => GrantKept
  BY DEF JournalInv, GrantInv, GrantKept, Loading
<1> QED
  BY <1>1, JournalInvariant, PTL
=============================================================================
