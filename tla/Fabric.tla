------------------------------- MODULE Fabric -------------------------------
(***************************************************************************)
(* The ownership core of SpectrumRuntime: the reservation table, its two   *)
(* indices, the leases, the durable image and recovery.                    *)
(*                                                                         *)
(* One std::mutex serialises every public method, so a method is one       *)
(* action. Every instant is an argument of the call that uses it: the      *)
(* runtime reads no clock when it decides, so what a caller believes the   *)
(* time to be is an input, here any instant at most Lag behind `clock`.    *)
(* A call whose authority token or (id, generation) reference is refused   *)
(* changes only audit and statistics, which this module does not carry,    *)
(* except allocate, which also moves lastActivityAt.                       *)
(*                                                                         *)
(* The registry (one grid of NumSlots slots, the domains, their            *)
(* capabilities, the exclusion domains) is fixed here. Frequencies and     *)
(* guard bands are counted in slots.                                       *)
(***************************************************************************)
EXTENDS Integers, FiniteSets, Lifecycle, Spectrum

CONSTANTS
  Domain,           \* spectrum domains, all SUPPORTED on the one grid
  NumSlots,         \* slotCount of the grid
  Exclusion,        \* registered exclusion domains: [members, guard]
  RequestId,        \* request identities: positive naturals, 0 is "no request"
  Request,          \* requests a client may send
  Extension,        \* renewal extensions a client may ask for
  RenewalCap,       \* maxRenewals arguments of renew; 0 keeps the cap
  MaxReservations,  \* RuntimeConfig::maxReservations
  Durable,          \* RuntimeConfig::durableCommits with a state path
  MaxInstant,       \* largest representable Instant
  MaxEpoch,         \* kMaxFenceValue
  Lag,              \* how far behind the clock a caller's instant may be
  AllowReset,       \* whether an operator calls reset in this model
  MaxClock,         \* bound: the last instant of the model
  MaxId             \* bound: reservation identities the model can mint

RequestType ==
  [id : RequestId, generation : Nat \ {0}, domains : (SUBSET Domain) \ {{}},
   width : Nat \ {0}, guard : Nat, notBefore : Nat, duration : Nat \ {0},
   maxRenewals : Nat]

ASSUME ConstantsAssumption ==
  /\ NumSlots \in Nat \ {0}
  /\ Exclusion \subseteq [members : SUBSET Domain, guard : Nat]
  /\ RequestId \subseteq Nat \ {0}
  /\ Request \subseteq RequestType
  /\ Extension \subseteq Nat \ {0}
  /\ RenewalCap \subseteq Nat
  /\ MaxReservations \in Nat \ {0}
  /\ Durable \in BOOLEAN /\ AllowReset \in BOOLEAN
  /\ MaxInstant \in Nat /\ MaxEpoch \in Nat \ {0}
  /\ Lag \in Nat /\ MaxClock \in Nat \ {0} /\ MaxId \in Nat \ {0}

VARIABLES
  clock,              \* the real time, which callers and systemNow() read
  reservations,       \* RuntimeState::reservations; state "None" is no record
  nextReservationId,  \* RuntimeState::nextReservationId
  liveByDomain,       \* RuntimeState::liveByDomain
  requestIndex,       \* RuntimeState::requestIndex; 0 is no entry
  lastActivityAt,     \* RuntimeState::lastActivityAt
  epoch,              \* RuntimeState::fence.epoch
  enforced,           \* exclusion domains reachable through domainExclusions
  disk,               \* the published state file
  granted             \* history: what was durably allocated and reported since
                      \* the runtime last started from nothing

memory == <<reservations, nextReservationId, liveByDomain, requestIndex,
            lastActivityAt, epoch, enforced>>
vars == <<clock, memory, disk, granted>>

Id == 1..MaxId

Reservation ==
  [state : SettledState, generation : Nat, request : RequestId \cup {0},
   requestGeneration : Nat, domains : SUBSET Domain, low : Nat, high : Nat,
   guard : Nat, expiresAt : Nat, renewalCount : Nat, maxRenewals : Nat,
   needsRevalidation : BOOLEAN, updatedAt : Nat]

NoReservation ==
  [state |-> "None", generation |-> 0, request |-> 0, requestGeneration |-> 0,
   domains |-> {}, low |-> 0, high |-> 0, guard |-> 0, expiresAt |-> 0,
   renewalCount |-> 0, maxRenewals |-> 0, needsRevalidation |-> FALSE,
   updatedAt |-> 0]

Table == [Id -> Reservation]
EmptyTable == [i \in Id |-> NoReservation]

\* What encodeState writes of this module's state.
Image == [present : BOOLEAN, reservations : Table,
          nextReservationId : Nat \ {0}, lastActivityAt : Nat, epoch : Nat]

NoImage == [present |-> FALSE, reservations |-> EmptyTable,
            nextReservationId |-> 1, lastActivityAt |-> 0, epoch |-> 0]

Grant == [request : RequestId, generation : Nat, id : Id]

-----------------------------------------------------------------------------
(* Reservations and indices                                                *)

\* isLiveAt: a live state under a lease that has not lapsed.
LiveAt(r, now) == IsLiveState(r.state) /\ r.expiresAt > now

\* Mutant: only the first domain of a reservation is indexed.
ListedOnce(index, i, r) ==
  [d \in Domain |-> IF IsLiveState(r.state) /\ d = (CHOOSE e \in r.domains : TRUE)
                      THEN index[d] \cup {i} ELSE index[d]]

Listed(index, i, r) ==
  [d \in Domain |-> IF IsLiveState(r.state) /\ d \in r.domains
                      THEN index[d] \cup {i} ELSE index[d]]

Unlisted(index, gone) == [d \in Domain |-> index[d] \ gone]

\* Mutant: only Active reservations are indexed again.
ActiveIndexOf(t) ==
  [d \in Domain |-> {i \in Id : t[i].state = "Active" /\ d \in t[i].domains}]

LiveIndexOf(t) ==
  [d \in Domain |-> {i \in Id : IsLiveState(t[i].state) /\ d \in t[i].domains}]

\* rebuildIndices walks the table in ascending id order, so the newest record
\* of a request identity wins the entry.
RequestIndexOf(t) ==
  [k \in RequestId |->
     IF \E i \in Id : t[i].request = k
       THEN CHOOSE i \in Id :
              t[i].request = k /\ \A j \in Id : t[j].request = k => j <= i
       ELSE 0]

Size(t) == Cardinality({i \in Id : t[i].state # "None"})

\* pruneTerminalReservations: one terminal record at a time, oldest first,
\* while the table is at its bound.
Pruned(t) ==
  {i \in Id :
     /\ IsTerminalState(t[i].state)
     /\ Size(t) - Cardinality({j \in 1..(i - 1) : IsTerminalState(t[j].state)})
          >= MaxReservations}

AfterPrune(t) == [i \in Id |-> IF i \in Pruned(t) THEN NoReservation ELSE t[i]]

IndexAfterPrune(index, t) ==
  [k \in RequestId |->
     IF \E i \in Pruned(t) : index[k] = i /\ t[i].request = k THEN 0 ELSE index[k]]

\* Whether one more record may be inserted.
HasRoom(t) == Size(t) < MaxReservations

-----------------------------------------------------------------------------
(* Evaluation of a request                                                 *)

Claim(q, start) ==
  [domains |-> q.domains, low |-> start, high |-> start + q.width,
   guard |-> q.guard]

\* Mutant: it is enough that one of the domains is free.
FreeSomewhere(c, now) ==
  \E d \in c.domains : \A i \in liveByDomain[d] :
    LiveAt(reservations[i], now) => ~Clash(c, reservations[i], 0)

\* Mutant: exclusion domains are not looked at.
FreeWithinDomains(c, now) ==
  \A d \in c.domains : \A i \in liveByDomain[d] :
    LiveAt(reservations[i], now) => ~Clash(c, reservations[i], 0)

\* crossDomainFree, for every domain the request spans.
Free(c, now) ==
  \A d \in c.domains :
    /\ \A i \in liveByDomain[d] :
         LiveAt(reservations[i], now) => ~Clash(c, reservations[i], 0)
    /\ \A e \in enforced : d \in e.members =>
         \A m \in e.members \ {d} : \A i \in liveByDomain[m] :
           LiveAt(reservations[i], now) => ~Clash(c, reservations[i], e.guard)

Placements(q, now) ==
  {start \in 0..(NumSlots - q.width) : Free(Claim(q, start), now)}

\* The first eligible candidate in canonical order.
FirstFit(q, now) ==
  CHOOSE start \in Placements(q, now) :
    \A other \in Placements(q, now) : start <= other

\* Mutant: a request identity is forgotten when its reservation ends.
KnownWhileLive(q) ==
  requestIndex[q.id] # 0 /\ IsLiveState(reservations[requestIndex[q.id]].state)

Known(q) ==
  /\ requestIndex[q.id] # 0
  /\ reservations[requestIndex[q.id]].state # "None"

Existing(q) == reservations[requestIndex[q.id]]

SameShape(r, q) ==
  /\ r.domains = q.domains
  /\ r.high - r.low = q.width
  /\ r.guard = q.guard
  /\ r.maxRenewals = q.maxRenewals

IsReplay(q) ==
  /\ Known(q)
  /\ q.generation = Existing(q).requestGeneration
  /\ SameShape(Existing(q), q)

Eligible(q, now) ==
  /\ Known(q) => q.generation > Existing(q).requestGeneration
  /\ Placements(q, now) # {}

-----------------------------------------------------------------------------
(* Durability                                                              *)

\* Whether a mutation stands. With durable commits the write may fail.
Outcome == IF Durable THEN BOOLEAN ELSE {TRUE}

\* Mutant: the identity counter is derived from the number of records.
ImageCountingRecords(t, next, activity) ==
  [present |-> TRUE, reservations |-> t, nextReservationId |-> Size(t) + 1,
   lastActivityAt |-> activity, epoch |-> epoch]

ImageOf(t, next, activity) ==
  [present |-> TRUE, reservations |-> t, nextReservationId |-> next,
   lastActivityAt |-> activity, epoch |-> epoch]

\* Mutant: the image is encoded before the mutation.
PersistBefore(stands) ==
  disk' = IF Durable /\ stands
            THEN ImageOf(reservations, nextReservationId', lastActivityAt')
            ELSE disk

\* persistAfterMutation, and the durable boundary of allocate.
Persist(stands) ==
  disk' = IF Durable /\ stands
            THEN ImageOf(reservations', nextReservationId', lastActivityAt')
            ELSE disk

-----------------------------------------------------------------------------
(* allocate                                                                *)

\* Instants a caller may present.
Instants == {now \in 1..clock : now + Lag >= clock}

\* What the client is told. Without durable commits a crash takes the record of
\* an answer with it, so only durable answers are kept in the history.
Report(q, i) ==
  granted' = IF Durable
               THEN granted \cup {[request |-> q.id, generation |-> q.generation, id |-> i]}
               ELSE granted

LeaseStart(q, now) == IF q.notBefore > now THEN q.notBefore ELSE now

\* Idempotent replay answers with the committed reservation, whatever has
\* become of it.
AllocateReplay(q) ==
  /\ IsReplay(q)
  /\ Report(q, requestIndex[q.id])
  /\ UNCHANGED <<clock, memory, disk>>

\* Refused: by the authority check, by the request identity, or because no
\* candidate is eligible.
AllocateRefused(q, now, authorised) ==
  /\ authorised => ~IsReplay(q) /\ ~Eligible(q, now)
  /\ lastActivityAt' = now
  /\ UNCHANGED <<clock, reservations, nextReservationId, liveByDomain,
                 requestIndex, epoch, enforced, disk, granted>>

\* Evaluated, but refused after the table was pruned: it is still full, or
\* the lease expiry overflows. A superseded record is put back in that case.
AllocateAbandoned(q, now) ==
  /\ ~IsReplay(q) /\ Eligible(q, now)
  /\ \/ ~HasRoom(AfterPrune(reservations))
     \/ LeaseStart(q, now) + q.duration > MaxInstant
  /\ reservations' = AfterPrune(reservations)
  /\ requestIndex' = IndexAfterPrune(requestIndex, reservations)
  /\ UNCHANGED <<clock, nextReservationId, liveByDomain, lastActivityAt, epoch,
                 enforced, disk, granted>>

NewReservation(q, now) ==
  [state |-> "Reserved", generation |-> 1, request |-> q.id,
   requestGeneration |-> q.generation, domains |-> q.domains,
   low |-> FirstFit(q, now), high |-> FirstFit(q, now) + q.width,
   guard |-> q.guard, expiresAt |-> LeaseStart(q, now) + q.duration,
   renewalCount |-> 0, maxRenewals |-> q.maxRenewals,
   needsRevalidation |-> FALSE, updatedAt |-> now]

\* Mutant: the older generation is left alone.
NothingSuperseded(q, t, index) == {}

\* The live reservation of an older generation of the same request identity,
\* looked up in the table and index that the first prune left.
Superseded(q, t, index) ==
  {i \in Id : index[q.id] = i /\ IsLiveState(t[i].state)}

\* The table with the superseded record retired and the new one inserted,
\* before the second prune.
Inserted(q, now, t, index) ==
  [i \in Id |->
    IF i = nextReservationId THEN NewReservation(q, now)
    ELSE IF i \in Superseded(q, t, index)
           THEN [t[i] EXCEPT !.state = "Superseded", !.updatedAt = now]
           ELSE t[i]]

\* The rollback of a commit that could not be made durable: the new record is
\* erased and the superseded one restored, but records the second prune
\* removed do not come back.
RolledBack(q, now, t, index) ==
  [i \in Id |->
    IF i = nextReservationId THEN NoReservation
    ELSE IF i \in Superseded(q, t, index) THEN t[i]
         ELSE AfterPrune(Inserted(q, now, t, index))[i]]

CommittedIndex(q, now, t, index) ==
  IndexAfterPrune([index EXCEPT ![q.id] = nextReservationId],
                  Inserted(q, now, t, index))

AllocateCommit(q, now, stands) ==
  LET t     == AfterPrune(reservations)
      index == IndexAfterPrune(requestIndex, reservations)
  IN  /\ nextReservationId \in Id
      /\ ~IsReplay(q) /\ Eligible(q, now)
      /\ HasRoom(t)
      /\ LeaseStart(q, now) + q.duration <= MaxInstant
      /\ \A i \in Superseded(q, t, index) :
           TransitionAllowed(t[i].state, "Superseded")
      /\ reservations' = IF stands THEN AfterPrune(Inserted(q, now, t, index))
                                   ELSE RolledBack(q, now, t, index)
      /\ requestIndex' = IF stands
                           THEN CommittedIndex(q, now, t, index)
                           ELSE [CommittedIndex(q, now, t, index)
                                   EXCEPT ![q.id] = index[q.id]]
      /\ liveByDomain' = IF stands
                           THEN Listed(Unlisted(liveByDomain, Superseded(q, t, index)),
                                       nextReservationId, NewReservation(q, now))
                           ELSE liveByDomain
      /\ nextReservationId' = nextReservationId + 1
      /\ lastActivityAt' = now
      /\ IF stands THEN Report(q, nextReservationId) ELSE UNCHANGED granted
      /\ Persist(stands)
      /\ UNCHANGED <<clock, epoch, enforced>>

-----------------------------------------------------------------------------
(* Lifecycle of one reservation                                            *)

\* The common ending of renew, activate, deactivate and release: the record
\* is replaced by r, or put back exactly when it cannot be made durable.
\* lastActivityAt is not part of what is put back.
Settle(i, r, now, stands) ==
  /\ reservations' = IF stands THEN [reservations EXCEPT ![i] = r] ELSE reservations
  /\ liveByDomain' = IF stands /\ ~IsLiveState(r.state)
                       THEN Unlisted(liveByDomain, {i}) ELSE liveByDomain
  /\ lastActivityAt' = now
  /\ UNCHANGED <<clock, nextReservationId, requestIndex, epoch, enforced, granted>>
  /\ Persist(stands)

\* Mutant: the lease is not looked at.
RenewableWhenLapsed(r, now, extension, cap) ==
  /\ r.state \in {"Reserved", "Active"}
  /\ r.maxRenewals # 0 => r.renewalCount < r.maxRenewals
  /\ r.expiresAt + extension <= MaxInstant

\* A new cap must exceed the renewals already made, and the old cap still
\* decides whether this one is allowed.
Renewable(r, now, extension, cap) ==
  /\ r.state \in {"Reserved", "Active"}
  /\ r.expiresAt > now
  /\ cap # 0 => cap > r.renewalCount
  /\ r.maxRenewals # 0 => r.renewalCount < r.maxRenewals
  /\ r.expiresAt + extension <= MaxInstant

Renew(i, now, extension, cap, stands) ==
  LET r == reservations[i] IN
  /\ Renewable(r, now, extension, cap)
  /\ CanPass(r.state, "Renewing", r.state)
  /\ Settle(i, [r EXCEPT !.expiresAt = @ + extension,
                         !.renewalCount = @ + 1,
                         !.maxRenewals = IF cap # 0 THEN cap ELSE @,
                         !.generation = @ + 1,
                         !.updatedAt = now], now, stands)

Activate(i, now, stands) ==
  LET r == reservations[i] IN
  /\ r.state = "Reserved"
  /\ r.expiresAt > now
  /\ CanPass(r.state, "Activating", "Active")
  /\ Settle(i, [r EXCEPT !.state = "Active", !.needsRevalidation = FALSE,
                         !.updatedAt = now], now, stands)

\* No lease check: a lapsed reservation may still be deactivated.
Deactivate(i, now, stands) ==
  LET r == reservations[i] IN
  /\ r.state = "Active"
  /\ CanPass(r.state, "Deactivating", "Reserved")
  /\ Settle(i, [r EXCEPT !.state = "Reserved", !.updatedAt = now], now, stands)

\* No lease check: a lapsed reservation may still be released.
Release(i, now, stands) ==
  LET r == reservations[i] IN
  /\ IsLiveState(r.state)
  /\ CanPass(r.state, "Releasing", "Released")
  /\ Settle(i, [r EXCEPT !.state = "Released", !.updatedAt = now], now, stands)

-----------------------------------------------------------------------------
(* Sweeps                                                                  *)

Lapsed(t, now) ==
  {i \in Id : IsLiveState(t[i].state) /\ t[i].expiresAt <= now
              /\ TransitionAllowed(t[i].state, "Expired")}

\* markLapsed. The backup of a record is taken after its state has become
\* Expired, so rolling the sweep back restores only updatedAt.
MarkLapsed(t, now) ==
  [i \in Id |-> IF i \in Lapsed(t, now)
                  THEN [t[i] EXCEPT !.state = "Expired", !.updatedAt = now] ELSE t[i]]

UnmarkLapsed(t, now) ==
  [i \in Id |-> IF i \in Lapsed(t, now) THEN [t[i] EXCEPT !.state = "Expired"]
                                       ELSE t[i]]

Sweep(swept, rolledBack, now, stands) ==
  /\ reservations' = IF stands THEN swept ELSE rolledBack
  /\ liveByDomain' = Unlisted(liveByDomain, Lapsed(reservations, now))
  /\ lastActivityAt' = now
  /\ UNCHANGED <<clock, nextReservationId, requestIndex, epoch, enforced, granted>>
  /\ Persist(stands)

ExpireLeases(now, stands) ==
  Sweep(MarkLapsed(reservations, now), UnmarkLapsed(reservations, now), now, stands)

Reclaimed(t, now) ==
  [i \in Id |-> IF t[i].state = "Expired" /\ CanPass("Expired", "Reclaiming", "Reclaimed")
                  THEN [t[i] EXCEPT !.state = "Reclaimed", !.updatedAt = now] ELSE t[i]]

\* A just-lapsed record is backed up a second time before it is reclaimed,
\* and the later backup wins.
ReclaimExpired(now, stands) ==
  Sweep(Reclaimed(MarkLapsed(reservations, now), now), MarkLapsed(reservations, now),
        now, stands)

-----------------------------------------------------------------------------
(* Saving, crashing and recovering                                         *)

Save ==
  /\ disk' = ImageOf(reservations, nextReservationId, lastActivityAt)
  /\ UNCHANGED <<clock, memory, granted>>

\* Mutant: ownership is re-proved without regard to the time of saving.
CheckAtDawn(image) == 0

\* The instant at which decodeState re-proves ownership.
CheckAt(image) ==
  CHOOSE m \in {image.lastActivityAt} \cup {image.reservations[i].updatedAt : i \in Id} :
    \A other \in {image.lastActivityAt} \cup {image.reservations[i].updatedAt : i \in Id} :
      other <= m

\* The semantic checks of decodeState that concern reservations.
Loadable(image) ==
  /\ \A i \in Id : image.reservations[i].state # "None" => i < image.nextReservationId
  /\ \A i, j \in Id :
       i # j /\ LiveAt(image.reservations[i], CheckAt(image))
             /\ LiveAt(image.reservations[j], CheckAt(image))
         => ~ReservationsConflict(image.reservations[i], image.reservations[j])

\* Mutant: a demoted record is left in a transient state.
DemotedHalfway(r) ==
  IF r.state = "Active" THEN [r EXCEPT !.state = "Recovering"] ELSE r

Demoted(r) ==
  IF r.state = "Active"
    THEN [r EXCEPT !.state = "Reserved", !.needsRevalidation = TRUE,
                   !.generation = @ + 1, !.updatedAt = clock]
    ELSE r

\* recover loads the image, in a new process after a crash or in the running
\* one. Nothing is written: the next recovery starts from the same image unless
\* a mutation is saved before. rebuildIndices does not rebuild domainExclusions,
\* which is therefore empty in a new process and untouched in the running one.
Recover ==
  /\ disk.present /\ Loadable(disk)
  /\ disk.epoch + 1 <= MaxEpoch
  /\ reservations' = [i \in Id |-> Demoted(disk.reservations[i])]
  /\ nextReservationId' = disk.nextReservationId
  /\ lastActivityAt' = disk.lastActivityAt
  /\ epoch' = disk.epoch + 1
  /\ liveByDomain' = LiveIndexOf(reservations')
  /\ requestIndex' = RequestIndexOf(reservations')
  /\ enforced' \in {{}, enforced}
  /\ UNCHANGED <<clock, disk, granted>>

Emptied ==
  /\ reservations' = EmptyTable
  /\ nextReservationId' = 1
  /\ lastActivityAt' = 0
  /\ liveByDomain' = [d \in Domain |-> {}]
  /\ requestIndex' = [k \in RequestId |-> 0]
  /\ enforced' = Exclusion
  /\ granted' = {}
  /\ UNCHANGED <<clock, disk>>

\* The process dies before anything was saved: a new one starts empty, and
\* the registry is registered again from nothing.
StartAfresh ==
  /\ ~disk.present
  /\ epoch' = 1
  /\ Emptied

\* reset forgets every record and starts the identities over; the state file
\* stays as it is until the next save. The registry, which reset clears too, is
\* registered again as it was.
Reset ==
  /\ AllowReset
  /\ epoch' = epoch
  /\ Emptied

Tick ==
  /\ clock < MaxClock
  /\ clock' = clock + 1
  /\ UNCHANGED <<memory, disk, granted>>

-----------------------------------------------------------------------------
Init ==
  /\ clock = 1
  /\ reservations = EmptyTable
  /\ nextReservationId = 1
  /\ liveByDomain = [d \in Domain |-> {}]
  /\ requestIndex = [k \in RequestId |-> 0]
  /\ lastActivityAt = 0
  /\ epoch = 1
  /\ enforced = Exclusion
  /\ disk = NoImage
  /\ granted = {}

Allocate ==
  \E q \in Request :
    \/ AllocateReplay(q)
    \/ \E now \in Instants :
         \/ \E authorised \in BOOLEAN : AllocateRefused(q, now, authorised)
         \/ AllocateAbandoned(q, now)
         \/ \E stands \in Outcome : AllocateCommit(q, now, stands)

OneReservation(i) ==
  \E now \in Instants, stands \in Outcome :
    \/ \E extension \in Extension, cap \in RenewalCap : Renew(i, now, extension, cap, stands)
    \/ Activate(i, now, stands)
    \/ Deactivate(i, now, stands)
    \/ Release(i, now, stands)

Sweeps ==
  \E now \in Instants, stands \in Outcome :
    ExpireLeases(now, stands) \/ ReclaimExpired(now, stands)

Next ==
  \/ Allocate
  \/ \E i \in Id : OneReservation(i)
  \/ Sweeps
  \/ Save
  \/ Recover
  \/ StartAfresh
  \/ Reset
  \/ Tick

Spec == Init /\ [][Next]_vars

-----------------------------------------------------------------------------
(* Properties                                                              *)

\* Shape of the state: the indices range over identities of the table, and
\* the table holds only states that survive the end of a public call.
TypeOK ==
  /\ clock \in Nat \ {0}
  /\ reservations \in Table
  /\ nextReservationId \in Nat \ {0}
  /\ liveByDomain \in [Domain -> SUBSET Id]
  /\ requestIndex \in [RequestId -> Id \cup {0}]
  /\ lastActivityAt \in Nat
  /\ epoch \in Nat
  /\ enforced \subseteq Exclusion
  /\ disk \in Image
  /\ granted \subseteq Grant

\* No table holds two reservations that own clashing spectrum of a shared
\* domain at the instant now, each kept clear by the larger guard band.
NoOverlapAt(t, now) ==
  \A i, j \in Id :
    i # j /\ LiveAt(t[i], now) /\ LiveAt(t[j], now) /\ ShareDomain(t[i], t[j])
      => ~Clash(t[i], t[j], 0)

\* Exclusive ownership: whatever the interleaving of grants, renewals,
\* expiries, failed writes and restarts, no two reservations own clashing
\* spectrum of one domain (allocate's evaluation against liveByDomain).
NoOverlap == NoOverlapAt(reservations, clock)

\* Members of the exclusion domains e do not carry clashing reservations.
Excluded(exclusions) ==
  \A i, j \in Id, e \in exclusions :
    i # j /\ LiveAt(reservations[i], clock) /\ LiveAt(reservations[j], clock) =>
      \A d \in reservations[i].domains \cap e.members,
         m \in reservations[j].domains \cap e.members :
        d # m => ~Clash(reservations[i], reservations[j], e.guard)

\* Nothing but the loading of an image puts two live reservations against an
\* exclusion domain that the runtime looks at, with the guard of the exclusion
\* domain added (crossDomainFree). decodeState looks at no exclusion domain, so
\* an image saved after a restart, when none is looked at, can be loaded by a
\* runtime that was reset and set up again.
EnforcedExclusionKept ==
  [][Excluded(enforced) /\ ~Recover => Excluded(enforced)']_vars

\* The same of every registered exclusion domain (the README's claim that
\* recovery restores exclusion domains exactly; after a restart nothing looks
\* at them).
ExclusionRespected == Excluded(Exclusion)

\* liveByDomain, which every conflict check trusts, lists exactly the records
\* in a live state, through every supersede, rollback, sweep and recovery.
LiveIndexExact == liveByDomain = LiveIndexOf(reservations)

\* A live reservation is the one its request identity resolves to, so at most
\* one reservation of a request identity is ever live and supersede, which
\* looks only at the index, can never miss one.
RequestIndexTracksLive ==
  \A i \in Id : IsLiveState(reservations[i].state) =>
    requestIndex[reservations[i].request] = i

\* Whatever was saved can be loaded again: the re-proof of ownership and the
\* identity check of decodeState never refuse an image the runtime wrote.
ImageLoadable == disk.present => Loadable(disk)

\* What a record claims.
ClaimOf(r, i) ==
  [id |-> i, domains |-> r.domains, low |-> r.low, high |-> r.high,
   guard |-> r.guard, until |-> r.expiresAt]

\* What a table owns at an instant, as claims, and what it owned until then.
OwnedAt(t, now) == {ClaimOf(t[i], i) : i \in {j \in Id : LiveAt(t[j], now)}}

EndedAt(t, now) ==
  {ClaimOf(t[i], i) : i \in {j \in Id : IsLiveState(t[j].state) /\ t[j].expiresAt <= now}}

\* With durable commits the image owns exactly what memory owns, so a crash at
\* any point between two calls neither loses nor resurrects ownership.
DurableOwnership ==
  Durable => OwnedAt(reservations, clock) = OwnedAt(disk.reservations, clock)

\* With durable commits the runtime behaves as the abstract owner of spectrum:
\* crashes, recoveries, failed writes and sweeps are all invisible, and a caller
\* that lags behind the clock does to ownership no more than that owner allows.
Ownership == INSTANCE SpectrumOwnership WITH
  claims <- OwnedAt(reservations, clock),
  passed <- EndedAt(reservations, clock) \cup EndedAt(disk.reservations, clock)
OwnsSpectrum == Ownership!Spec

\* A request is allocated at most once: every answer to the same identity and
\* generation names the same reservation, replays and restarts included, as
\* long as no record of that identity has been pruned (a prune forgets which
\* generation came last even if an older record of it is still there).
OneGrantPerRequest ==
  \A a, b \in granted :
    a.request = b.request /\ a.generation = b.generation =>
      \/ a.id = b.id
      \/ \E c \in granted : c.request = a.request /\ reservations[c.id].state = "None"

\* A reservation identity is never handed out for two different requests.
IdNeverReused == \A a, b \in granted : a.id = b.id => a = b

\* The lease of i had run out, and is renewed by a caller to whom it had not:
\* the instant of the call, which the record keeps, is before the lease's end.
LateRenewal(i) ==
  /\ IsLiveState(reservations[i].state) /\ reservations[i].expiresAt <= clock
  /\ reservations'[i].updatedAt < reservations[i].expiresAt
  /\ reservations[i].expiresAt < reservations'[i].expiresAt
  /\ reservations'[i].updatedAt + Lag >= clock

\* With durable commits two reservations come to own clashing spectrum in one
\* way only, however far callers lag behind the clock: a renewal from before the
\* end of a lease is handled after it (renew takes the instant of the frame for
\* the present). No late grant, activation, release or sweep, failed write,
\* crash or recovery does it, nor a renewal that bears an instant after the end.
OnlyLateRenewalsOverlap ==
  [][NoOverlap /\ ~NoOverlap' => \E i \in Id : LateRenewal(i)]_vars

\* A reservation whose lease has lapsed never takes spectrum back from one that
\* owns it (the README's claim that an expired lease cannot mutate current
\* ownership; a renewal that waited in the transport can).
LapsedTakesNothing ==
  [][\A i, j \in Id :
       /\ reservations[i].state # "None" /\ ~LiveAt(reservations[i], clock)
       /\ LiveAt(reservations'[i], clock')
       /\ LiveAt(reservations[j], clock) /\ LiveAt(reservations'[j], clock')
       /\ ShareDomain(reservations[i], reservations[j])
       => ~Clash(reservations[i], reservations[j], 0)]_vars
=============================================================================
