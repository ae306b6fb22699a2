# A verification of Wavelength Fabric

Wavelength Fabric is a spectrum allocation runtime: clients ask for a channel of
some slots on some optical domains, and the runtime grants, renews, activates,
releases and expires *reservations* such that nobody's spectrum is given to
anyone else, across crashes and restarts. This directory holds TLA+ models of
it, the TLC runs that check them, and theorems that TLAPS proves about them.
`PROJECT.json` lists every run, mutant, theorem and finding and maps every
definition to the lines it translates; this file is the guide.

All paths below are relative to the repository's root unless they are TLA+
modules.

## 1. Inventory

### Components, their state and what makes them correct

| Component | State | Operations | Correct when |
|---|---|---|---|
| **Ownership core** `runtime_alloc.cpp`, `runtime_lifecycle.cpp`, `runtime_persist.cpp`, part of `runtime_core.cpp` | reservation table, `liveByDomain`, `requestIndex`, `nextReservationId`, `lastActivityAt`, fence epoch, the published state file | `allocate`, `renew`, `activate`, `deactivate`, `release`, `expireLeases`, `reclaimExpired`, `save`, `recover`, `reset` | no two live reservations clash on a shared domain; the indices agree with the table after every path including rollbacks; what was reported survives a crash; a request is granted once; a lapsed lease takes no spectrum back, but for a late renewal |
| **Candidate enumeration** `runtime_candidates.cpp`, `grid.cpp` | none of its own; reads the registry and the table | `prepare`, `enumerateWithOutcome`, `evaluateCandidate`, `evaluate` | the placement selected is one the request may have, the lowest one, and a refusal overlooks none |
| **State machine** `lifecycle.hpp`, `model.cpp` | the state of a reservation | `transitionAllowed`, `isLiveState`, `isTerminalState` | only listed transitions happen; transient states do not outlive a call |
| **Registry** `runtime_core.cpp`, `runtime_capability.cpp` | grids, spans, ports, domains, exclusion domains, capabilities, each with a generation; the index `domainExclusions` | `register...`, `publishCapability`, `reset` | generations only advance, and a generation a reservation names still means what it meant; what is saved can be loaded; an exclusion domain is enforced for all of its members or for none |
| **Authority** `authority.hpp`, part of `model.cpp` | the controller fence (epoch and incarnation), a generation per kind of authority | the checks at the head of every mutation; `advanceAuthority`; what construction and recovery mint | a token once superseded is never in force again |
| **State file** `runtime_persist.cpp`, `process.cpp`, `codec.cpp` | the state file and its temporary twin | write, flush, rename; read, check, decode | at every instant the published file is one complete image, no older than the last save that was reported as done |
| **Transport** `protocol.cpp`, `net.cpp` | accept loop, queue, workers, condition variable, connections | `start`, `serve`, `stop`, a connection's loop, the client's `call` | a connection is served once, a call executed at most once, everybody is eventually served, shutdown ends |
| **Audit and statistics** `runtime_core.cpp`, `runtime_query.cpp` | the bounded trail and its sequence, carried over in images; counters | appended by every mutation; `audit` pages through it | the trail accounts for what is in effect, across failures, restarts and the bound |
| **Queries** `runtime_query.cpp` | none | `queryUsage` and plain views | usage agrees with what enumeration finds free |
| **Child processes** `process.cpp` | pid, exit code, two pipes, two reader threads and their capture buffers | `start`, `running`, `kill`, `wait`, destructor, moves | nothing outlives its object; the capture is all that was written, or marked as cut; no child is blocked by its own output |
| **Text forms, codec, paths, tools, drivers** | none that matters here | | |

### How they interact

A client process (`wfcli`, or anything with a `SpectrumClient`) sends one framed
request at a time. A worker of the server's pool executes it by calling one
public method of `SpectrumRuntime`. One `std::mutex` serialises these methods,
so to each other they are atomic, and what remains hard between them is order:
which call comes first, what a client knew when it sent it, how late it arrives.
`allocate` asks the candidate enumeration for a placement, which consults the
registry and `liveByDomain`. Every mutation ends in the state file when commits
are durable, and undoes itself when that write fails. A restart loads the file,
proves ownership in it again, and demotes Active reservations. The transport has
its own mutex and condition variable; it and the reader threads of a
`ChildProcess`, through which the multiprocess driver runs servers and clients,
are the only places with threads.

### What is hard

* two copies of ownership (`reservations` and `liveByDomain`) and a third index
  (`requestIndex`), edited by hand in every mutation and every rollback;
* a write that fails after supersede, insert and prune have been done;
* leases that lapse without a sweep: what is *live* depends on the time a caller
  brings along, and the runtime reads no clock to decide; a call that waited in
  the transport is judged by the instant in its frame;
* crash and recovery at any point, repeatedly, of the same image, of an image
  older than the process that died, between any two system calls of a save;
* a registry that moves on while domains, capabilities, reservations and images
  name its older generations;
* lost replies and retries of a request, before or after release, supersede,
  prune, crash;
* the table at its bound;
* rounding between frequencies and slots on grids that are not aligned, guards
  that add up, a candidate list cut short;
* an audit trail that is bounded, is carried from process to process in images,
  and records a change before it is known whether its save succeeds;
* in the transport: notification without the mutex, a bounded queue, a fixed
  pool, stop racing accept, clients that die mid-call;
* for child processes: two streams that both have to be drained while the program
  does something else, write ends that are inherited, a child that is killed,
  waited for, moved or abandoned at any point of its life.

`PROJECT.json` lists each of these at its line under `hazards`.

## 2. Modules

                                                                        ImageRegister
                                                                         (abstract)
    Lifecycle    Spectrum                            Registry                |
         \     /   |    \                            /      \            StateFile
         Fabric    |     Candidates      RegistryProofs  MCRegistry          |
        /  |  \    |      |     \                                         Journal
       /   |   \   |  MCCandidates \                                    /       \
      /    |    SpectrumOwnership   CandidatesProofs           JournalProofs  MCJournal
     /     |       (abstract)          |   CallService
    /  MCFabric                        |   (abstract)
    FabricProofs                       |       |
     |        \                        |   Transport                ChildProcess
     |    FabricRefinementProofs ------+   /       \                /          \
    FabricIdentityProofs                  /     MCTransport        /      MCChildProcess
                                   TransportProofs         ChildProcessProofs

**Lifecycle** and **Spectrum** hold what several modules share: the states and
transitions of a reservation; ranges, guards and the clash test.

**Fabric** is the core: one action per public method of the runtime that changes
reservations, plus the passage of time, crash-with-recovery and restart from
nothing.

| Code | Fabric |
|---|---|
| `reservations`, `liveByDomain`, `requestIndex`, `nextReservationId`, `lastActivityAt` | variables of the same names; state "None" is *no record*, request 0 is *no entry* |
| `fence.epoch` | `epoch` |
| `domainExclusions`, as far as it decides what is enforced | `enforced` |
| the state file | `disk` |
| wall clock of callers and of `systemNow()` | `clock`; a caller may be `Lag` behind |
| what clients have been told | `granted`, a history variable |
| `allocate` | `AllocateReplay`, `AllocateRefused`, `AllocateAbandoned` (full after pruning, or the lease overflows), `AllocateCommit` (with both its prunes, its supersede, its durable boundary and its rollback) |
| `renew`, `activate`, `deactivate`, `release` | `Renew`, `Activate`, `Deactivate`, `Release`, ending in `Settle` |
| `markLapsed`, `expireLeases`, `reclaimExpired` | `MarkLapsed`, `ExpireLeases`, `ReclaimExpired`, ending in `Sweep` |
| `pruneTerminalReservations` | `Pruned`, `AfterPrune`, `IndexAfterPrune` |
| `save`, `recover`, `reset` | `Save`, `Recover` (in a new process or in the running one), `Reset` |
| `wavelengthd` starting without a state file | `StartAfresh` |

The registry is a constant there: one grid, fixed domains, all supported. A
call refused by an authority check changes only audit and statistics, which are
not modelled, except that a refused `allocate` moves `lastActivityAt`; that is
the `authorised` parameter of `AllocateRefused`.

`OneGrantPerRequest` has an exception for identities of which a record has been
pruned, because the code has one. Pruning takes terminal records, the oldest first, and
Expired is not terminal; so a newer generation of a request may be forgotten while
an older record of it is still there, and the older generation is then granted
again.

**SpectrumOwnership** is what the core promises: a set of claims, each until an
instant, granted only clear of the others, prolonged, returned, or passing with
time. No table, index, image, process or failed write. A word of a holder bears
an instant up to `Lag` before the present, so a claim that has passed may still be
prolonged by a word from before its end, and stands again whatever was granted
since (`Revive`): that is the one step after which two claims may clash, and it is
in the abstract owner because it is in the code. `Fabric!OwnsSpectrum` says that
Fabric implements it, under the mapping *claims = what the table owns now, passed =
records that no sweep has seen and whose lease has ended*: a crash, a recovery and
a failed commit must be stutters, and a sweep may only forget what has passed.

**Candidates** is the enumeration by itself, with what Fabric leaves constant
made variable: several grids with different anchors and widths, published
windows and tunable ranges, stale capabilities, exclusion domains, permitted
windows, excluded slots and frequencies, fragmentation, guard bands, the
candidate limit, the diagnostic candidates, malformed grids and requests. The
code works on sorted, merged and cut lists of ranges; such a list is determined
by the slots it covers, so it is a set here. Beside it stands a reference
definition (`Possible`) that says which placements a request may have without
lists, rounding or order of checks, and the properties compare the two. Fabric's
`FirstFit` is what Candidates' `Selected` comes to on one grid, which is proved
(`FirstFitIsSelected`). `Usage` is the
query that works out windows, owners and free runs of a domain by a path of its
own; `UsageAgrees` compares it with the enumeration.

**Registry** is what the runtime is told about the network and by whom, with the
references reservations hold to it.

| Code | Registry |
|---|---|
| `grids`, `spans`, `ports`, `domains`, `exclusionDomains`, `capabilities` | `grids`, `anchors` (spans and ports, which have a generation and nothing else that matters), `domains`, `exclusions`, `capabilities`; generation 0 is *not registered* |
| `domainExclusions` | `domainExclusions` |
| `authority`, `fence` | `authority` (generation per kind), `fence` |
| grid and domain generations inside a reservation | `reservations`, a set of references, each with the definitions it was granted under, which is history |
| the state file | `disk`, a set of at most one image |
| `registerGrid` ... `registerExclusionDomain` | `RegisterGrid`, `RegisterAnchor`, `RegisterDomain`, `RegisterExclusionDomain` (the only one that changes something when it is refused) |
| `publishCapability`, `advanceAuthority` | `PublishCapability`, `AdvanceAuthority` |
| `allocate`, as far as it consults authority and generations | `Allocate` |
| `save`, `recover`, `reset`, construction | `Save`, `Recover`, `Reset`, `StartAfresh`; `Loadable` is what `decodeState` demands of the references in an image |

**StateFile** has one action per system call of `writeStateFile` and
`readStateFile`: open, write, fsync, close, rename, return; size, open, read,
decode. Any of the writing calls may fail, a process may die after any of them,
and the machine may lose power, which keeps of every file any prefix that is at
least what was synced and of the rename either side. A second process reads while
the daemon writes. An image is its number and its size.

**ImageRegister** is what the state file is to those who use it: one image,
replaced at one instant of a save and read at one instant of a load; a save whose
caller is told that it failed has had no instant, and a load is refused only if
what it took is torn or no longer what was there at first. That is what Fabric
assumes when it writes its image in the step that commits, and Journal when it
says what a recovery loads. `StateFile!ActsAsRegister` says that the system
calls come to that, under the mapping *value = the image the state path names*:
everything but the rename, the opening and the ends of calls must be stutters.

**Journal** extends StateFile by what is in the images and in the memory of each
process: the changes in effect and the bounded audit trail. Its actions are
StateFile's, with what the caller of each does around it.

| Code | Journal |
|---|---|
| `audit`, `nextAuditSequence`, and the changes made | `memory[p]`: `trail`, `sequence`, `effects` |
| the same inside a file | `image[s]`, of each save |
| the public method in progress | `call[p]`: an allocation, another change of one record, a sweep, or a plain save |
| what clients have been told | `granted`, a history variable |
| `appendAudit` | `Recorded`, with `Shortened` |
| a mutation up to its first system call, or a failure before that | `Begin` (StateFile's `Open`) |
| `writeStateFile`, and the rollback if it fails | `Proceed` (`Write`, `Sync`, `Close`, `Rename`), `Failed` |
| the return of `saveLocked`, and the reply | `Finish` (`Return`) |
| constructor and `recover` | `Launch`, `Load` (`Start`, `OpenToRead`, `Read`) |
| `reset` | `Reset` |
| a process that ends, a machine that loses power | `Perish` (`Die`, `LosePower`) |

What the code does here that is not obvious: a change is recorded before its save
and taken back after a failed one, but the record stays, followed by one or two
of the failure; a failed sweep is recorded as failed and stays in effect; a save
encodes the trail before its own success is recorded in memory; a recovering
process replaces its trail, its own `RuntimeOpened` record included, by the
image's. Sequence numbers after the last save are used again after a crash, so
that a client that polls `audit` with the last number it has seen can miss
records of the next incarnation; no doc says that it does not.

**Transport** has one action per step of a thread that another thread can see:
the accept loop (look at the flag, poll, push, notify), a worker (take, decide to
wait, sleep, check the flag, serve, drop, stop), `stop()` as two steps, the
destructor, and clients that connect, call, return, fail, leave or die. The
state "deciding" is a worker that has found the wait predicate false and does
not sleep yet. It still holds the mutex, which `push` needs and `stop()` does
not take. `Dispatched` says what becomes of a frame: executed, answered as
unreadable (its arguments do not decode; the connection survives), or the
connection dropped (the frame is garbage). `CallUnsent` is a call whose request
never leaves the client. Part of the type invariant is `OnePlace`: every
connection the server has taken is once in the queue, with one worker, or closed.

**CallService** is what the transport is to its clients: a service that executes a
call at most once, after it was made and before it is answered, and possibly after
its client has given it up, so that a call made later by the same client can be
executed earlier. No connection, frame, queue, worker or stop.
`Transport!ActsAsService` says that Transport implements it.

**ChildProcess** is the POSIX half of `process.cpp`.

| Code | ChildProcess |
|---|---|
| `pid_`, `waited_` of each object; an object without `Impl` | `object`; pid 0 |
| the calling thread inside `start`, `wait`, the destructor or a move | `thread` |
| `CaptureBuffer` of each stream | `capture` |
| the descriptors of the two pipes | `holders` (write ends, inherited by a fork), `readEnd` (who closes it) |
| `start`, and each way it fails | `CreatePipes`, `Fork`, `ForkFails`, `DropWriteEnds`, `StartOutReader`, `StartErrReader`, `ReaderFails` |
| `kill`, `wait`, destructor, move construction and assignment | `Kill`, `Wait`, `Destroy`, `Move`, then `Reap` (waitpid) and `Join` (the readers) |
| `readerLoop`, `appendCapture`, `finishCapture` | `Read`, `ReadEnd`, `Appended` |
| the child and the operating system (external) | `BeginWrite`, `Write`, `Exit`, `Die` |

## 3. Runs

All bounds are in the `.cfg` and the MC module. Deadlock is checked, except in
the transport and for child processes, which really stop: server destroyed and
clients done, children gone and objects destroyed.

| Run | Question | Bounds and why they suffice |
|---|---|---|
| `durable` | With durable commits, is ownership in the image always ownership in memory, is every answer to a request the same reservation, does the runtime look like an owner that never crashes, and do two reservations come to overlap by a late renewal only? | two domains, two slots, three requests of two identities (one a newer generation on other domains with a guard), a table of two, three identities, two clock instants and callers up to one behind (leases up to the fifth instant), two epochs. Every path of `allocate` (supersede, prune, full table, failed write, overflow) and a recovery of every image happens; so does a lease that lapses, is granted over, and is renewed late. 200 000 states |
| `volatile` | Without durable commits, is ownership exclusive, does no step but the loading of an image bring members of an enforced exclusion domain against each other, and can every saved image be loaded, through saves, crashes, resets and recoveries in any order? | three slots, two domains in one exclusion domain with a guard of one, three requests that compete inside a domain and across the two, one lease that starts in the future, two identities of a table of two, two clock instants, three epochs; a reset between two epochs, and old images loaded over newer tables. 998 000 states |
| `candidates` | Is the choice possible, lowest, displacing nobody; is nothing overlooked but what enough lower placements cut off; does usage agree? | two grids of widths 2 and 3 whose edges meet at every sixth frequency, three domains, an exclusion domain, eight requests that use every constraint, one of them malformed; limit 2, one diagnosis, two owners: truncation, conversion, rounding both ways and diagnosis all happen. 51 000 states |
| `registry` | Does a generation keep its meaning across lost registrations; can an image whose parts are current be loaded; is an exclusion domain enforced whole; does a revoked token stay revoked? | a grid re-registered with fewer slots, a domain that follows or not, two exclusion domains competing for one place, a publication that either generation may outdate, two boots, two authority generations of two of the four kinds (all kinds are treated alike), one reference at a time (nothing relates two), no port (spans take the same path). 1.2 million states. `RecoverInPlace` is FALSE: see below |
| `journal` | Does the state path always name a whole image no older than the last save reported as done; is the image of a failed save never seen; what can a reader get; does every incarnation own what was granted, and explain what it owns? | three saves, images of one, three and two bytes under a limit of two, so that one save is refused; a trail of three records, which one failed allocation fills; one writer and one reader, every failure, death and loss of power. 2.2 million states |
| `transport` | Is a connection served once, is the whole a service that executes a call at most once and before its answer (`ActsAsService`), is everybody served while others hold the workers, and does shutdown end? | two workers, a queue and a backlog of one; a client with two connections whose one call is work, a shutdown, garbage or unreadable, and a client that connects and may say nothing for ever. The connection the first has abandoned and the silent one hold both workers while the second connection is queued. Shutdown from a client and from outside. 394 000 states |
| `child_process` | Is the capture exact, does nothing outlive its object, and do children and callers get on whatever the program looks at? | two objects, so that every move happens; one child that writes three units in any split over two streams, under pipes and a buffer of two, and one that only lives and dies; every failure of `start`. 66 000 states |

`RecoverInPlace`: a running process told to recover keeps `domainExclusions`
from before, under a registry that has changed, and an exclusion domain can then
be enforced in part. The daemon recovers only at its start, and `wfcli`'s
`recover` command repeats the recovery its process began with, so the run covers
what the programs do; a user of the library can do more.

`journal` has one writer, the daemon, and the command line tool reads beside
it. A `wfcli --state` that changes something is a second writer to the path: both
use `path.tmp`, without a lock, and `NothingLost` is then violated. Nothing in the
repository promises otherwise, so that is a hazard without a property, not a run.

Violation runs each show a sentence of the repository's documentation that the
code does not keep (section 6): `exclusion_lost`, `late_renewal`,
`windows_united`, `overtaken`, `shutdown_missed`.

Every property of a passing run has a mutant: a change of one definition, as a
plausible bug would make it, under which TLC finds the property violated.

### Fairness

Fabric, Candidates, Registry and Journal are safety models: nothing in the runtime happens by
itself, every step is a call somebody makes, so the code justifies no fairness.
Leases lapse because callers bring later instants along.

ChildProcess assumes that the threads of the program are scheduled, that a write
which has room is done, and that SIGKILL arrives. No child need write or exit, and
the program need not call anything: `WritesGoThrough` holds although it never
calls `wait`, and `CallsReturn` promises the return of a `wait` only for a child
that has ended or was killed.

Transport assumes weak fairness of each thread of the server (they are
operating system threads; a worker reading from a silent connection has no step
to take), of a client that has been answered or cut off, and of the leaving, once it has
nothing outstanding, of a client that is not in the constant `Silent`. That is
how `wfcli` and the drivers of this repository behave. A client in `Silent` may
keep its connection for ever without a word, and the worker that serves it with
it, since the server reads without a timeout (`protocol.cpp:509`). `CallsEnd`
promises the end of a call as long as fewer clients are silent than there are
workers; with as many silent clients as workers nobody else is served.
`QueuedLeaves` and `ShutdownCompletesUnlessMissed` are promised only if no
silent client stays for ever: a stop waits for every worker, so one such client
blocks it. No client has to connect, call, or stop the server, and the accept
queue has no fairness of its own.

## 4. Proofs

All theorems hold for every value of the constants that satisfies the module's
named assumption (`ConstantsAssumption`, `RegistryAssumption`,
`CandidatesAssumption`, `StateFileAssumption`, `JournalAssumption`, `TransportAssumption`,
`ChildProcessAssumption`), which TLC evaluates on every run
of that module.

| Theorem | States | Inductive invariant, and why it is needed |
|---|---|---|
| `FabricProofs!TypeCorrect` | `Spec => []TypeOK` | `TypeOK` itself, one lemma per group of actions. The part that needs an argument is that only settled states are in the table: each `CanPass` leads from a settled state through a transient one to a settled one |
| `FabricProofs!LiveIndexCorrect` | `Spec => []LiveIndexExact` | `IndexInv`: `TypeOK`, the index is exact, identities at or above the counter are unused (in the table and in the image). The last is what makes `Listed` of a new identity exact |
| `FabricProofs!OwnershipCorrect` | `Lag = 0 => (Spec => []NoOverlap)` | `OwnershipInv`: `IndexInv`, and no overlap at `clock`, in the table *and in the image* |
| `FabricProofs!EnforcedExclusionCorrect` | `Lag = 0 => (Spec => EnforcedExclusionKept)` | `IndexInv`: an allocation looks at the members of an exclusion domain through `liveByDomain`, which has to be exact |
| `FabricProofs!ImageLoadableCorrect` | `Lag = 0 => (Spec => []ImageLoadable)` | `SuccessionInv`: of two clashing records in a live state one's lease had ended when the other was last changed, in the table and in the image. A lapsed record is *live* to a loader until a sweep has seen it, so freedom of overlap at the clock says too little: the loader must be able to tell who came later |
| `FabricRefinementProofs!DurableOwnershipCorrect` | `~AllowReset => (Spec => []DurableOwnership)` | `DurabilityInv`: `IndexInv`, an image that was never saved is empty, and memory and image agree on what is owned at the clock (an Active reservation and its demotion are the same claim) |
| `FabricRefinementProofs!RefinesOwnership` | `Durable /\ ~AllowReset => (Spec => OwnsSpectrum)`, for every `Lag` | `DurabilityInv`: one lemma per action says which step of SpectrumOwnership it is, or that it is a stutter. No freedom of overlap is needed, so it holds of late callers too |
| `FabricRefinementProofs!OverlapCorrect` | `Durable /\ ~AllowReset => (Spec => OnlyLateRenewalsOverlap)`, for every `Lag` | `DurabilityInv`: a step at which overlap begins is a `Revive` of the abstract owner (by `OwnersExclude`'s lemma), and of Fabric's actions only a renewal can be that |
| `FabricRefinementProofs!OwnersExclude` | `Ownership!Spec => [][Exclusive /\ ~Revive => Exclusive']` (names of Ownership) | the shape of claims: what Fabric refines is worth refining |
| `FabricRefinementProofs!RuntimeExcludes` | `Durable /\ ~AllowReset /\ Lag = 0 => (Spec => []Ownership!Exclusive)` | none: nothing revives when `Lag = 0` (`PromptOwnersExclude`), and the rest is `RefinesOwnership`; a second way to `NoOverlap` that does not look into the tables |
| `FabricRefinementProofs!FirstFitIsSelected` | `Spec => []PlacedByEnumeration`, for every anchor and slot width of the one grid | `TypeOK` and the exact index. What Fabric abstracts from is Candidates, instantiated with Fabric's table in frequencies; the lemmas take clashes, owners and verdicts from slots to frequencies and back |
| `FabricIdentityProofs!RequestIndexCorrect`, `IdNeverReusedCorrect` | `Spec => []P` for `RequestIndexTracksLive`, `IdNeverReused` | `IdentityInv`: a live record is the newest of its request; the index names it, or something older that is gone; with durable commits what has become of the image's records is nothing, or the same request's; grants name records of their request. The image is in every part, because a recovery rebuilds the index from it and mints on from its counter |
| `FabricIdentityProofs!OneGrantCorrect` | `~AllowReset => (Spec => []OneGrantPerRequest)` | `OnceInv`: as long as no record of a request is forgotten, every grant of it has its record, in memory and image, their generations ascend, and the index leads to the latest |
| `RegistryProofs!GenerationsMean` | `Spec => []GenerationsIdentify` | `RegistryInv`: no reservation names a generation the registry has not reached, and one it is at means what it meant; for memory *and for the image*, each with the registry of its own |
| `RegistryProofs!ExclusionsWhole` | `Spec => []EnforcedThroughoutOrNowhere` | `ExclusionInv`, the property written over the set of domains that list an exclusion domain, beside `RegistryInv` for the range of the tables. A registration refused half way has emptied the old listing |
| `RegistryProofs!AuthorityNeverReturns` | `Spec => StaleAuthorityStaysStale` | `AuthorityInv`: every token ever in force is of an incarnation minted by now, and one of this incarnation has this fence and no later generation. A recovery brings back older generations under a new incarnation |
| `RegistryProofs!CurrentLoads` | `Spec => []CurrentImageLoads` | `LinkedInv`: whatever is registered refers to what is registered, in memory and image. A registration checks that, and nothing is ever taken out of a table |
| `RegistryProofs!RegistryTypes` | `Spec => []TypeOK` | `ShapeInv`: the tables within their bounds, in memory and in the image that a recovery puts in their place |
| `CandidatesProofs!CandidatesTypes` | `Spec => []TypeOK` | `TypeOK`; that a range which is owned is not empty needs that a candidate lies on its grid |
| `CandidatesProofs!PlacementsClear` | `Spec => []NobodyDisplaced` | none: it holds of every state, whatever is in the tables |
| `CandidatesProofs!RefusalsJustified`, `LowestSelected`, `UsageIsFaithful` | `Spec => []P` for `NothingOverlooked`, `LowestFirst`, `UsageAgrees` | `TypeOK`; the work is in lemmas about rounding (`InnerSlots`, `OuterSlots`, `ConversionExact`, `BlockedClashes`), for every anchor and width |
| `CandidatesProofs!GrantedAsRequested` | `NoRangeWraps => (Spec => []AsRequested)` | `TypeOK`. An excluded range that ends beyond the slot word is ignored by the code (section 6), so the assumption cannot be dropped |
| `JournalProofs!JournalUsesStateFile` | `JournalSpec => Spec` | every action of Journal contains one of StateFile, or leaves its variables alone: what holds of the state file holds under the journal |
| `JournalProofs!FileIsRegister` | `OneWriter => (Spec => ActsAsRegister)`, `Spec` and the property being StateFile's | `FileInv`: a closed file is whole, so what a rename publishes is one; it is the newest save, so it is the one whose caller waits; a loader that sized the file has what was published then, or later. One lemma per action says which step of ImageRegister it is |
| `JournalProofs!JournalTypeCorrect` | `OneWriter => (JournalSpec => []JournalTypeOK)` | with `Contiguous` for every memory and image: the trail is a window of consecutive sequence numbers that ends at the sequence |
| `JournalProofs!SavesAreKept`, `FailuresStayUnseen`, `RecoveryIsWhole`, `WholeFilesLoad` | `OneWriter => (JournalSpec => []P)` for `NothingLost`, `FailedSaveUnseen`, `RecoveredIsWholeAndRecent`, `RefusedOnlyWhenReplaced` | `FileInv`: the state path names a save that did not fail, is whole unless power was lost, and is no older than the last one acknowledged; the file a writer fills is the newest save, and nobody has it open (`WriterOK`); a reader's handle is a file it saw, and the path has only moved on since (`ReaderOK`) |
| `JournalProofs!TrailCorrect` | `OneWriter => (JournalSpec => []TrailExplains)` | `MemoryOK`, of every memory *and every image*, those of dead processes and unread files included: an image is loaded by whoever comes next |
| `JournalProofs!GrantsAreKept` | `OneWriter => (JournalSpec => []GrantKept)` | `GrantInv`: a granted change is in the image the path names, in every image that may replace it, and in the memory of the writer; it rests on `FileInv`, since it must be known which image that is |
| `TransportProofs!TransportTypes` | `Spec => []TypeOK` | `Typed` (a worker has a connection exactly while it deals with it; frames bear the number of a call that was made) and `Places`: what a socket is says where it is, once in the queue or with one worker. `OnePlace`, the part of `TypeOK` with the cardinalities, follows |
| `TransportProofs!CallsAreServed` | `Spec => ActsAsService` | `Errands` (next row) and `Asking`: only calls that were made are answered, and nobody waits for an answer it has. Execution after an answer is excluded because an answered call was executed, and the frame of an executed one is gone |
| `TransportProofs!CallsExecutedOnce` | `Spec => []ExecutedOnce` | `Errands`: a frame under way belongs to a call not executed yet, and to no other frame; a call with a reply was executed or was damaged; one that was not made has left no trace |
| `TransportProofs!SleepersHaveNoWork` | `Spec => []NobodySleepsOnWork` | `Attended`: if a worker sleeps, there are at least as many idle workers and notifications due as connections queued; a worker about to sleep has seen an empty queue, and holds the mutex that a push needs |
| `ChildProcessProofs!ChildTypes`, `CapturesAreExact`, `NothingIsLeft`, `SignalsReachItsOwn` | `Spec => []P` for `TypeOK`, `CaptureExact`, `NothingOutlives`, `OnlyItsOwn` | `Inv`: whose each child is, object or thread, one at most (`Hands`); how far it can have got by that (`Life`); who holds its pipe ends, exactly (`Ends`); a reader that ended left an empty pipe, unless nobody will look (`Drained`); the buffer has what left the pipe, up to the bound (`Accounted`) |

`OneWriter` says that one process slot saves to a path. The process in it may die
and start again as often as it likes, and others may read. Without it `NothingLost`
is false: two writers share the name of the temporary file.

`NoOverlap` is not inductive by itself. A recovery brings back an old image, so
the image has to be free of overlap at the time it is read, which is later than
when it was written. That follows from freedom of overlap when it was written,
because the passing of time only ends leases (`TickSafe`), and a recovered lease
claims no more than the one in the image (`WithinSafe`). A grant is checked
against `liveByDomain` at the caller's instant; that this covers every live
reservation needs the exact index, and that it covers the real time needs callers
that agree on it: `Lag = 0`. With a caller that lags, `renew` accepts a lease that
has lapsed by the real clock and whose spectrum may have been granted since (run
`late_renewal`), and then `NoOverlap`, `EnforcedExclusionKept`, `ImageLoadable` and
`RuntimeExcludes` are false: the assumption cannot be dropped. What holds however
far callers lag is that nothing else goes wrong: `OwnsSpectrum`, and that overlap
begins with a late renewal only (`OverlapCorrect`). A late grant, activation or
release, a sweep at an old instant, a failed write, a crash, a recovery keep what
is exclusive so.

In the same way a lost registration is why `GenerationsMean` speaks of the image:
after a crash the registry is back at what it was when the image was written, the
reservations of that time with it, and a caller may register something else under
a generation that was used before. No reservation still names that one.

`AuthorityNeverReturns` rests on incarnations that never repeat. The code mixes
the process, the time and a sequence into 64 bits; the model counts.

`NobodySleepsOnWork` says nothing of a stop, and its proof shows why: a stop
changes what workers wait for without the mutex, so "about to sleep has seen no
reason to wake" is kept by a push and not by a stop (`shutdown_missed`).

`CaptureExact` rests on who holds a write end. That a reader sees the end of its
stream only after the child has ended follows from `Ends`, and that from the
parent's dropping its ends before it starts a reader, and from forks of which one
is under way at a time.

A `reset` empties memory beside a state file that still owns, so the theorems that
relate memory and image, and what clients were told to either, assume that there
is none. Those about ownership, exclusion, images that load and identities do
not (the identities a client was told before a reset no longer count: the code
starts them over).

Candidates' theorems rest on what rounding does: a slot is an inner one of a
frequency range exactly when it begins and ends in it, an outer one exactly
when it shares a frequency with it, and converting a channel to another grid
gives it back exactly. From that, `PossibleStarts` takes a placement of the
reference definition through the united windows, the permitted windows and the
blocked slots, `PossibleVerdict` takes it through the checks of a candidate, and
`RoomForAll` through the candidate limit, unless enough lower starts cut it off.

`FileIsRegister` and `FirstFitIsSelected` are about the seams between modules: what
Fabric takes for one step of the file, and for one operator of the enumeration,
is what the modules of the file and of the enumeration come to. TLC agrees with
the first on the instance of `journal` (`ActsAsRegister` added to its properties),
but needs three times as long for the run with it, so the run leaves it to the
proof. For the second TLC would need Fabric and Candidates in one state space.

Every safety property a passing run checks is proved. Model-checked only: liveness
of the transport and of child processes, which is out of the prover's reach.
Nothing here needs induction over data: the modules that are proved about define
no recursive operator.

## 5. Not modelled

* Fabric and Registry are not composed: Fabric's registry does not change,
  Registry's reservations have no lease and no spectrum. (Candidates has the
  re-registration of a domain and publications beside ownership.)
* What a request does when it arrives late or twice is in Fabric, that it may is in
  Transport; they are not composed. Fabric does not need to know who calls.
* Audit: kinds that do not concern a change or its durability, the fields of a
  record that describe, the paged query. Statistics. Queries other than usage:
  they copy state out under the mutex.
* Field encodings and their round trip, text forms, socket set-up, parsing and
  printing of the tools, the scripts of the multiprocess drivers beyond how they
  use their children. Shapes of registrations that validation refuses: a refused
  call changes nothing.
* ChildProcess: the Windows branch, quoting of its command line, the exit code,
  environment and working directory; two threads that use one object, which the
  class does not allow.
* Several grids in Fabric: its slots are the frequencies.
* Reading fails by itself in StateFile (an I/O error is a refusal, and changes
  nothing). Two writers of one state path: see section 3.

## 6. Where documentation and code differ

Shown by a run:

* `exclusion_lost`: recovery restores the exclusion domains but not
  `domainExclusions`, the index through which they are enforced
  (`src/src/runtime_persist.cpp:733`, README "restored exactly").
* `late_renewal`: `renew` takes the present from the frame
  (`src/src/protocol.cpp:641`), compares the lease with that
  (`src/src/runtime_lifecycle.cpp:131`), and consults nobody's spectrum. A renewal
  that waited in the transport until its lease had lapsed and the spectrum had been
  granted to someone else is accepted, and both own it (README:47 "an expired lease
  ... cannot mutate current ownership", README:90). An image saved in that state is
  refused as a whole at the next start: `ImageLoadable` fails in the instance of
  `volatile` if its callers may be one instant behind and leases may be extended.
* `windows_united`: allocatable windows of the spanned domains are united, and no
  candidate is checked against each (`src/src/runtime_candidates.cpp:672`).
* `overtaken`: a newer grid or domain is registered over what names the older
  one, and the image of that state is refused as a whole at the next start
  (`src/src/runtime_core.cpp:202`).
* `shutdown_missed`: `stop()` notifies without the mutex, and a worker about to
  sleep misses it (`src/src/protocol.cpp:447`).

Noticed while reading, not shown by a run:

* Sweeps. `markLapsed` takes the backup of a record after its state has changed
  (`runtime_lifecycle.cpp:79`), so a sweep that could not be saved leaves the
  record Expired in memory, while the comment above it (`:69`) says that the whole
  sweep can be rolled back. The lease has ended either way.
* Silent clients. The server reads without a timeout (`protocol.cpp:509`). As many
  silent connections as workers stop everybody else, and one blocks shutdown, whose
  `serve` joins a worker that sits in `recv`.
* Commits. One that pruned is not rolled back exactly (`runtime_alloc.cpp:241`,
  README:72). Pruning forgets a request identity, so that an old request may be
  granted again (README:98 promises idempotence without that limit).
  `isTerminalState` excludes Expired (README:88), so a table full of Expired
  records refuses.
* Recovery. It writes nothing, so two recoveries of one image mint the same
  reservation generation and the same epoch (`runtime_persist.cpp:722`,
  README:54). `reset` starts identities over and leaves the state file; without
  durable commits a crash does too (README:53). Recovery of a running process
  leaves `domainExclusions` as it was. `reset` empties it (`runtime_core.cpp:402`),
  so what was granted and saved without enforcement can come back, by a recovery,
  under an exclusion domain that is registered and enforced again: `decodeState`
  tests no exclusion domain. `EnforcedExclusionKept` has an exception for that
  step. The loader's guard test is one-sided while
  README:84 expands both.
* Registry. `registerExclusionDomain` may fail half way
  (`runtime_core.cpp:351-370`, `runtime.hpp:26`): it takes the listing of the
  definition before it out, and then refuses, so that an exclusion domain which was
  enforced is enforced nowhere. `EnforcedThroughoutOrNowhere` allows that; its text
  says what the code does promise. Registration is not
  fence-checked (`runtime.hpp:109`). Registrations and `advanceAuthority` are not
  persisted. `prepare` does not compare a capability's or a domain's grid
  generation with the grid's.
* State file. `fsync` is called before `fclose`, without `fflush`, so what the
  library still buffers is not on the medium, its result is ignored, and the
  directory is never synced; after a loss of power the published file may be torn
  (`runtime_persist.cpp:550`, README:104 "flushed") and is then refused: the image
  is lost, and with it what was reported as saved. The properties promise
  `NothingLost` up to that. A reader may refuse a good
  file that was replaced between its size and its open.
* Audit. The sequence numbers after the last save are used again after a crash
  (section 2). Registrations are recorded, but reach the file only with the next
  save of something else.
* Candidates. A diagnosed candidate is not kept apart from the reservations the
  request names (`runtime_candidates.cpp:818`, `request.hpp:44`). `freeSlots` of a
  usage subtracts owners outside the window and may be less than its free runs
  hold (`runtime_query.cpp:121`, `reservation.hpp:112`). A request with all
  domains on other grids is always refused with no capacity. An excluded range
  that wraps at 2^32 is ignored.
* Transport. The client's `allocate` closes its connection on a refusal that
  carries no decision; the other calls keep it, and it reports Corruption for any
  failure of the connection.
* Server. `dispatch` changes a reservation under one lock and reads it back for
  the reply under another (`protocol.cpp:635-685`), so a reply may carry a later
  state, or say that the reservation has disappeared after the change was made.
  `Describe` reads piece by piece. `OpCode::Reset` starts identities over under the
  same fence, though no client method sends it. Generations of a reservation are
  advanced by `renew` and by recovery only, so a delayed `deactivate` or `release`
  of a client that has been replaced is not refused for its generation; and after
  a crash without durable commits a reference from the dead process may carry the
  generation recovery mints (`runtime_persist.cpp:709-713`). The incarnation in
  the authority token still refuses both after a restart.
* Child processes. `running()` is true of a zombie on POSIX. Write ends of the
  pipes are not close-on-exec: with two threads that start children at once, one
  child would hold the other's pipe open and its readers would not end; the
  drivers have one thread. `startServer` waits, without killing it, for a server
  that never became ready (`mp_scenario.cpp:150`).

## 7. Plan

Done: **Fabric**, **Candidates**, **Registry** with authority, **StateFile** and
**Journal**, **Transport** and **ChildProcess**, each with the proofs of all its
safety properties (for StateFile and Journal: for one writer).
The seams are proved: the file is a register, the core's placement is the
enumeration's, the abstract owner the core refines never gives spectrum twice, and
the transport is a service that executes a call at most once.

Left:

1. Composition: the registry under Fabric, so that a superseded domain, a lapsed
   capability and a live reservation meet in one state; clients of Transport over
   Fabric, for the reply that is read back under a second lock.
2. `RecoverInPlace`: what a running process may promise that recovers over a
   registry that has changed.
