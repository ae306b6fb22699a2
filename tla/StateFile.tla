----------------------------- MODULE StateFile -----------------------------
(***************************************************************************)
(* The durable state file of SpectrumRuntime: writeStateFile puts an image *)
(* into a temporary file beside it and renames that over it, readStateFile *)
(* and decodeState take it in again.  Processes die between any two system *)
(* calls, the machine may lose power, and other processes read the file    *)
(* while it is replaced (wfcli --state beside the daemon).                 *)
(*                                                                         *)
(* An image is the number of the save that wrote it, and has a size; of a  *)
(* file only its length matters, since nothing ever writes at a place      *)
(* twice.  Calls that only read do not fail by themselves.                 *)
(***************************************************************************)
EXTENDS Integers, FiniteSets

CONSTANTS
  Process,
  Writers,      \* processes that save; the code takes no lock on the path
  MaxSaves,     \* bound: saves that reach the file system
  Size,         \* the encoded size of each image
  MaxBytes,     \* RuntimeConfig::maxStateBytes
  FsyncState    \* RuntimeConfig::fsyncState

Save == 1..MaxSaves

ASSUME StateFileAssumption ==
  /\ Writers \subseteq Process
  /\ MaxSaves \in Nat \ {0}
  /\ Size \in [Save -> Nat \ {0}]
  /\ MaxBytes \in Nat
  /\ FsyncState \in BOOLEAN

None == 0

VARIABLES
  path,      \* the file the state path names, by the save that wrote it
  temporary, \* the file path.tmp names
  settled,   \* what the state path names on the medium
  length,    \* of each file, what the operating system has been given
  synced,    \* of each file, what is known to be on the medium
  saves,     \* saves begun so far
  status,    \* where each process is
  saving,    \* the save each process is at
  handle,    \* of a read: [since, size, file]
  view,      \* the image each process recovered
  acked,     \* history: the last save that returned ok
  failed,    \* history: the saves that returned an error
  powerLost  \* history: whether the machine ever lost power

names == <<path, temporary, settled>>
contents == <<length, synced, saves>>
reading == <<handle, view>>
history == <<acked, failed, powerLost>>
vars == <<names, contents, status, saving, reading, history>>

Whole(f) == length[f] = Size[f]

At(p, s, t) == status[p] = s /\ status' = [status EXCEPT ![p] = t]

NoHandle == [since |-> None, size |-> 0, file |-> None]

\* The call is over.
SaveEnds(p) == saving' = [saving EXCEPT ![p] = None]

-----------------------------------------------------------------------------
(* writeStateFile                                                          *)

\* Mutant: the bound is not tested before writing.
AnySize(s) == TRUE

\* saveLocked refuses an image that readStateFile would refuse.
WithinBound(s) == Size[s] <= MaxBytes

\* The next image; one above the bound never reaches the file system. What an
\* earlier write left behind is removed, then the file is created, or cannot be.
Open(p) ==
  /\ p \in Writers /\ saves < MaxSaves
  /\ saves' = saves + 1
  /\ \/ /\ WithinBound(saves')
        /\ At(p, "up", "open")
        /\ temporary' = saves'
        /\ saving' = [saving EXCEPT ![p] = saves']
        /\ UNCHANGED failed
     \/ /\ At(p, "up", "up")
        /\ temporary' = IF WithinBound(saves') THEN None ELSE temporary
        /\ failed' = failed \cup {saves'}
        /\ UNCHANGED saving
  /\ UNCHANGED <<path, settled, length, synced, reading, acked, powerLost>>

\* An error return: what is called path.tmp is removed.
Abandon(p) ==
  /\ temporary' = None
  /\ failed' = failed \cup {saving[p]}
  /\ SaveEnds(p)
  /\ UNCHANGED <<path, settled, acked, powerLost>>

\* fwrite keeps in its own buffer what it likes of the image. After a short
\* write, an error, the file is gone.
Write(p) ==
  /\ \/ /\ At(p, "open", "written")
        /\ \E n \in 0..Size[saving[p]] : length' = [length EXCEPT ![saving[p]] = n]
        /\ UNCHANGED <<names, saving, history>>
     \/ At(p, "open", "up") /\ Abandon(p) /\ UNCHANGED length
  /\ UNCHANGED <<synced, saves, reading>>

\* Mutant: fsync is taken to reach what fwrite still keeps.
WholeImage(s) == Size[s]

\* fsync reaches what fwrite has handed over.
Flushed(s) == length[s]

\* syncFile; its result is not looked at.
Sync(p) ==
  /\ At(p, "written", "synced")
  /\ synced' = IF FsyncState THEN [synced EXCEPT ![saving[p]] = Flushed(saving[p])]
                             ELSE synced
  /\ UNCHANGED <<names, length, saves, saving, reading, history>>

\* Mutant: the result of fclose is not looked at.
CloseUnchecked(p) ==
  /\ At(p, "synced", "closed")
  /\ length' \in {length, [length EXCEPT ![saving[p]] = Size[saving[p]]]}
  /\ UNCHANGED <<names, synced, saves, saving, reading, history>>

\* fclose writes the rest of the buffer, or fails.
Close(p) ==
  /\ \/ /\ At(p, "synced", "closed")
        /\ length' = [length EXCEPT ![saving[p]] = Size[saving[p]]]
        /\ UNCHANGED <<names, saving, history>>
     \/ At(p, "synced", "up") /\ Abandon(p) /\ UNCHANGED length
  /\ UNCHANGED <<synced, saves, reading>>

\* rename replaces the file in one step, or fails and changes nothing.
Rename(p) ==
  /\ \/ /\ temporary # None
        /\ At(p, "closed", "renamed")
        /\ path' = temporary /\ temporary' = None
        /\ UNCHANGED <<settled, saving, history>>
     \/ At(p, "closed", "up") /\ Abandon(p)
  /\ UNCHANGED <<contents, reading>>

\* Mutant: something that follows the rename may still make it an error.
ReturnOrFail(p) ==
  /\ At(p, "renamed", "up")
  /\ \/ acked' = saving[p] /\ UNCHANGED failed
     \/ failed' = failed \cup {saving[p]} /\ UNCHANGED acked
  /\ SaveEnds(p)
  /\ UNCHANGED <<names, contents, reading, powerLost>>

\* The call returns ok.
Return(p) ==
  /\ At(p, "renamed", "up")
  /\ acked' = saving[p]
  /\ SaveEnds(p)
  /\ UNCHANGED <<names, contents, reading, failed, powerLost>>

-----------------------------------------------------------------------------
(* readStateFile and decodeState                                           *)

\* A process starts. Without a file it starts empty; otherwise it asks for the
\* size of the file, and refuses one above the bound.
Start(p) ==
  /\ IF path = None
       THEN At(p, "down", "up") /\ UNCHANGED handle
       ELSE /\ IF length[path] <= MaxBytes THEN At(p, "down", "sized")
                                           ELSE At(p, "down", "refused")
            /\ handle' = [handle EXCEPT ![p] = [since |-> path, size |-> length[path],
                                                file |-> None]]
  /\ UNCHANGED <<names, contents, saving, view, history>>

\* By now the path may name another file than the one that was sized.
OpenToRead(p) ==
  /\ At(p, "sized", "reading")
  /\ handle' = [handle EXCEPT ![p].file = path]
  /\ UNCHANGED <<names, contents, saving, view, history>>

\* Mutant: the framing is not checked against the number of bytes.
DecodesAnyway(f, bytes) == TRUE

\* Length fields, checksums and closing magic only fit the complete image.
Decodes(f, bytes) == bytes = Size[f]

\* Fewer bytes than the size are a short read; more are not asked for.
Read(p) ==
  LET h == handle[p]
      accepted == h.size <= length[h.file] /\ Decodes(h.file, h.size) IN
  /\ \/ At(p, "reading", "up") /\ accepted /\ view' = [view EXCEPT ![p] = h.file]
     \/ At(p, "reading", "refused") /\ ~accepted /\ UNCHANGED view
  /\ UNCHANGED <<names, contents, saving, handle, history>>

-----------------------------------------------------------------------------
(* Failures                                                                *)

\* What processes have in memory is gone, what fwrite had kept included.
Gone(ps) ==
  /\ status' = [p \in Process |-> IF p \in ps THEN "down" ELSE status[p]]
  /\ saving' = [p \in Process |-> IF p \in ps THEN None ELSE saving[p]]
  /\ handle' = [p \in Process |-> IF p \in ps THEN NoHandle ELSE handle[p]]
  /\ view' = [p \in Process |-> IF p \in ps THEN None ELSE view[p]]

\* A process is killed, or ends.
Die(p) ==
  /\ status[p] # "down"
  /\ Gone({p})
  /\ UNCHANGED <<names, contents, history>>

\* The operating system writes the directory back.
Settle ==
  /\ settled # path
  /\ settled' = path
  /\ UNCHANGED <<path, temporary, contents, status, saving, reading, history>>

\* The medium has the directory as it was or as it is, the temporary name with
\* it or not, and of each file at least what was synced.
LosePower ==
  /\ path' \in {path, settled} /\ settled' = path'
  /\ temporary' \in ({temporary, path} \ {path'}) \cup {None}
  /\ IF path' = None
       THEN UNCHANGED length
       ELSE \E n \in synced[path']..length[path'] : length' = [length EXCEPT ![path'] = n]
  /\ Gone(Process)
  /\ powerLost' = TRUE
  /\ UNCHANGED <<synced, saves, acked, failed>>

-----------------------------------------------------------------------------
Init ==
  /\ path = None /\ temporary = None /\ settled = None
  /\ length = [f \in Save |-> 0] /\ synced = [f \in Save |-> 0]
  /\ saves = 0
  /\ status = [p \in Process |-> "down"]
  /\ saving = [p \in Process |-> None]
  /\ handle = [p \in Process |-> NoHandle]
  /\ view = [p \in Process |-> None]
  /\ acked = None /\ failed = {} /\ powerLost = FALSE

SaveStep(p) == Open(p) \/ Write(p) \/ Sync(p) \/ Close(p) \/ Rename(p) \/ Return(p)

ReadStep(p) == Start(p) \/ OpenToRead(p) \/ Read(p)

Next ==
  \/ \E p \in Process : SaveStep(p) \/ ReadStep(p) \/ Die(p)
  \/ Settle
  \/ LosePower

Spec == Init /\ [][Next]_vars

-----------------------------------------------------------------------------
(* Properties                                                              *)

Status == {"down", "up", "open", "written", "synced", "closed", "renamed",
           "sized", "reading", "refused"}

Name == Save \cup {None}

\* Shape of the state; no file is longer than its image.
TypeOK ==
  /\ {path, temporary, settled, acked} \subseteq Name
  /\ length \in [Save -> Nat] /\ synced \in [Save -> Nat]
  /\ \A f \in Save : synced[f] <= length[f] /\ length[f] <= Size[f]
  /\ saves \in 0..MaxSaves
  /\ status \in [Process -> Status]
  /\ saving \in [Process -> Name]
  /\ handle \in [Process -> [since : Name, size : Nat, file : Name]]
  /\ view \in [Process -> Name]
  /\ failed \subseteq Save
  /\ powerLost \in BOOLEAN

\* Whatever dies, and whenever: the state path names one complete image, the
\* last one whose save returned ok or a later one that had no time to return
\* (writeStateFile; a commit that was acknowledged is on file).
NothingLost ==
  powerLost \/ /\ path # None => Whole(path)
               /\ path >= acked

\* A save that returned an error is not what any process recovers, not even
\* after a loss of power: the caller has rolled the commit back
\* (writeStateFile's error returns, persistAfterMutation).
FailedSaveUnseen ==
  /\ path \notin failed
  /\ \A p \in Process : view[p] \notin failed

\* What a process recovers is the complete image of a save that was published
\* when the read began or later, also when the file is replaced between its
\* size, its open and its read, and after a loss of power tore it.
RecoveredIsWholeAndRecent ==
  \A p \in Process : status[p] = "up" /\ view[p] # None =>
    /\ handle[p].size = Size[view[p]]
    /\ view[p] >= handle[p].since

\* A complete file is only refused when it was replaced during the read: a
\* daemon that restarts never refuses what it saved itself, whatever the image
\* grew to (wavelengthd exits with RECOVER-FAILED if it does).
RefusedOnlyWhenReplaced ==
  \A p \in Process : status[p] = "refused" =>
    path # handle[p].since \/ ~Whole(path)

\* What a file is as an image: the number of its save, or no image at all.
Torn == -1
ImageOf(f) == IF f # None /\ ~Whole(f) THEN Torn ELSE f

\* The stages of writing do not show.
Doing(s) ==
  CASE s \in {"open", "written", "synced", "closed"} -> "saving"
    [] s = "renamed" -> "saved"
    [] s = "sized"   -> "loading"
    [] s = "reading" -> "taken"
    [] OTHER         -> s

\* Removing, opening, writing, flushing, closing and renaming files, and sizing,
\* opening and reading them, with processes that die in between, come to a
\* register whose image is replaced in one step and is read in one step: what
\* Fabric assumes when it writes its image in the step that commits
\* (writeStateFile, readStateFile).
Register == INSTANCE ImageRegister WITH
  value <- ImageOf(path), safe <- ImageOf(settled), latest <- saves,
  doing <- [p \in Process |-> Doing(status[p])],
  before <- [p \in Process |-> ImageOf(handle[p].since)],
  taken <- [p \in Process |-> ImageOf(handle[p].file)],
  loaded <- view
ActsAsRegister == Register!Spec
=============================================================================
