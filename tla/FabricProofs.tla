---------------------------- MODULE FabricProofs ----------------------------
(***************************************************************************)
(* Proofs about Fabric: type correctness, the exactness of the index of    *)
(* live reservations, exclusive ownership, the exclusion domains that are  *)
(* looked at, and that what was saved is not refused by the loader, for    *)
(* every number of slots, domains, requests and identities.                *)
(***************************************************************************)
EXTENDS Fabric, WellFoundedInduction, TLAPS

-----------------------------------------------------------------------------
(* Arithmetic and the record of a reservation                              *)

\* The strict order of the naturals, as a relation.
Below == {pair \in Nat \X Nat : pair[1] < pair[2]}

\* A non-empty set of natural numbers has a least element.
LEMMA LeastElement ==
  ASSUME NEW S, S \subseteq Nat, S # {}
  PROVE  \E m \in S : \A n \in S : m <= n
<1>1. IsWellFoundedOn(Below, Nat)
  BY NatLessThanWellFounded DEF Below, OpToRel
<1>2. PICK m \in S : \A n \in S : <<n, m>> \notin Below
  BY <1>1, WFMin
<1>3. ASSUME NEW n \in S, ~(m <= n)
      PROVE  <<n, m>> \in Below
  <2>1. m \in Nat /\ n \in Nat /\ n < m
    BY <1>3
  <2>2. <<n, m>> \in Nat \X Nat /\ <<n, m>>[1] < <<n, m>>[2]
    BY <2>1
  <2> QED
    BY <2>2, Zenon DEF Below
<1> QED
  BY <1>2, <1>3

\* A non-empty set of naturals bounded by a natural has a greatest element.
LEMMA GreatestElement ==
  ASSUME NEW S, S \subseteq Nat, S # {}, NEW b \in Nat, \A n \in S : n <= b
  PROVE  \E m \in S : \A n \in S : n <= m
<1> DEFINE Gap == {b - n : n \in S}
<1>1. Gap \subseteq Nat
  OBVIOUS
<1>2. Gap # {}
  <2>1. PICK n \in S : TRUE
    OBVIOUS
  <2>2. b - n \in Gap
    OBVIOUS
  <2> QED
    BY <2>2
<1>3. PICK g \in Gap : \A h \in Gap : g <= h
  BY <1>1, <1>2, LeastElement
<1>4. PICK m \in S : g = b - m
  OBVIOUS
<1>5. ASSUME NEW n \in S
      PROVE  n <= m
  <2>1. b - n \in Gap
    OBVIOUS
  <2>2. b - m <= b - n
    BY <2>1, <1>3, <1>4
  <2>3. m \in Nat /\ n \in Nat
    OBVIOUS
  <2> QED
    BY <2>2, <2>3
<1> QED
  BY <1>5

\* The record that stands for no reservation has the type of a reservation.
LEMMA NoReservationType == NoReservation \in Reservation
BY DEF NoReservation, Reservation, SettledState

\* An operation that only moves the state and the time of the last update
\* leaves a record well typed.
LEMMA MovedType ==
  ASSUME NEW r \in Reservation, NEW s \in SettledState, NEW now \in Nat
  PROVE  [r EXCEPT !.state = s, !.updatedAt = now] \in Reservation
BY DEF Reservation

\* The fields a renewal replaces.
LEMMA RenewedType ==
  ASSUME NEW r \in Reservation, NEW expiry \in Nat, NEW count \in Nat,
         NEW cap \in Nat, NEW generation \in Nat, NEW now \in Nat
  PROVE  [r EXCEPT !.expiresAt = expiry, !.renewalCount = count, !.maxRenewals = cap,
                   !.generation = generation, !.updatedAt = now] \in Reservation
BY DEF Reservation

\* The fields a demotion replaces.
LEMMA DemotedType ==
  ASSUME NEW r \in Reservation, NEW generation \in Nat, NEW now \in Nat
  PROVE  [r EXCEPT !.state = "Reserved", !.needsRevalidation = TRUE,
                   !.generation = generation, !.updatedAt = now] \in Reservation
BY DEF Reservation, SettledState

\* Pruning removes terminal records only.
LEMMA PruneTerminal ==
  ASSUME NEW t \in Table
  PROVE  /\ AfterPrune(t) \in Table
         /\ \A i \in Id : \/ AfterPrune(t)[i] = t[i]
                          \/ /\ IsTerminalState(t[i].state)
                             /\ AfterPrune(t)[i] = NoReservation
BY NoReservationType DEF AfterPrune, Pruned, Table

\* Pruning keeps the request index well typed.
LEMMA PruneIndexType ==
  ASSUME NEW t, NEW index \in [RequestId -> Id \cup {0}]
  PROVE  IndexAfterPrune(index, t) \in [RequestId -> Id \cup {0}]
BY DEF IndexAfterPrune

\* The index that recovery rebuilds maps every request identity to the newest
\* of its records.
LEMMA RequestIndexOfType ==
  ASSUME NEW t \in Table
  PROVE  RequestIndexOf(t) \in [RequestId -> Id \cup {0}]
<1> SUFFICES ASSUME NEW k \in RequestId, \E i \in Id : t[i].request = k
             PROVE  (CHOOSE i \in Id : t[i].request = k
                       /\ \A j \in Id : t[j].request = k => j <= i) \in Id
  BY DEF RequestIndexOf
<1> DEFINE S == {i \in Id : t[i].request = k}
<1>1. S \subseteq Nat /\ S # {} /\ MaxId \in Nat /\ \A n \in S : n <= MaxId
  BY ConstantsAssumption DEF Id
<1>2. \E m \in S : \A n \in S : n <= m
  BY <1>1, GreatestElement
<1> QED
  BY <1>2

\* The placement an allocation takes is one of the free ones.
LEMMA FirstFitPlaced ==
  ASSUME NEW q \in Request, NEW now, Placements(q, now) # {}
  PROVE  FirstFit(q, now) \in Placements(q, now) /\ FirstFit(q, now) \in Nat
<1>1. Placements(q, now) \subseteq Nat
  BY ConstantsAssumption DEF Placements
<1>2. \E m \in Placements(q, now) : \A n \in Placements(q, now) : m <= n
  BY <1>1, LeastElement
<1> QED
  BY <1>1, <1>2 DEF FirstFit

-----------------------------------------------------------------------------
(* Type correctness                                                        *)

\* A request is a record of RequestType, and an instant is a natural.
LEMMA RequestFacts ==
  ASSUME NEW q \in Request
  PROVE  /\ q.id \in RequestId /\ q.generation \in Nat
         /\ q.domains \in SUBSET Domain /\ q.width \in Nat \ {0}
         /\ q.guard \in Nat /\ q.notBefore \in Nat /\ q.duration \in Nat
         /\ q.maxRenewals \in Nat
BY ConstantsAssumption DEF RequestType

\* What allocate inserts is a reservation.
LEMMA NewReservationType ==
  ASSUME NEW q \in Request, NEW now \in Nat, Placements(q, now) # {}
  PROVE  NewReservation(q, now) \in Reservation
<1>1. FirstFit(q, now) \in Nat
  BY FirstFitPlaced
<1>2. LeaseStart(q, now) \in Nat
  BY RequestFacts DEF LeaseStart
<1> QED
  BY <1>1, <1>2, RequestFacts DEF NewReservation, Reservation, SettledState

\* The table allocate leaves is well typed, whether the commit stands or not.
LEMMA CommittedTableType ==
  ASSUME NEW q \in Request, NEW now \in Nat, Placements(q, now) # {},
         NEW t \in Table, NEW index
  PROVE  /\ Inserted(q, now, t, index) \in Table
         /\ RolledBack(q, now, t, index) \in Table
<1>1. \A i \in Id : [t[i] EXCEPT !.state = "Superseded", !.updatedAt = now] \in Reservation
  BY MovedType DEF Table, SettledState
<1>2. Inserted(q, now, t, index) \in Table
  BY <1>1, NewReservationType DEF Inserted, Table
<1>3. RolledBack(q, now, t, index) \in Table
  BY <1>2, PruneTerminal, NoReservationType DEF RolledBack, Table
<1> QED
  BY <1>2, <1>3

\* The image is well typed whenever the state it is taken from is.
LEMMA PersistType ==
  ASSUME TypeOK, NEW stands, Persist(stands), reservations' \in Table,
         nextReservationId' \in Nat \ {0}, lastActivityAt' \in Nat
  PROVE  disk' \in Image
BY DEF TypeOK, Persist, ImageOf, Image

\* The records of a table and the indices are well typed.
LEMMA TypeFacts ==
  ASSUME TypeOK
  PROVE  /\ \A i \in Id : reservations[i] \in Reservation
         /\ \A d \in Domain : liveByDomain[d] \in SUBSET Id
         /\ Instants \subseteq Nat
BY DEF TypeOK, Table, Instants

\* allocate keeps the state well typed.
LEMMA AllocateType ==
  ASSUME TypeOK, Allocate
  PROVE  TypeOK'
<1> PICK q \in Request :
      \/ AllocateReplay(q)
      \/ \E now \in Instants :
           \/ \E authorised \in BOOLEAN : AllocateRefused(q, now, authorised)
           \/ AllocateAbandoned(q, now)
           \/ \E stands \in Outcome : AllocateCommit(q, now, stands)
  BY DEF Allocate
<1>1. CASE AllocateReplay(q)
  <2>1. [request |-> q.id, generation |-> q.generation, id |-> requestIndex[q.id]] \in Grant
    BY <1>1, RequestFacts DEF AllocateReplay, Report, IsReplay, Known, TypeOK, Grant
  <2> QED
    BY <1>1, <2>1 DEF AllocateReplay, Report, TypeOK, memory
<1>2. ASSUME NEW now \in Instants, NEW authorised \in BOOLEAN,
             AllocateRefused(q, now, authorised)
      PROVE  TypeOK'
  BY <1>2, TypeFacts DEF AllocateRefused, TypeOK
<1>3. ASSUME NEW now \in Instants, AllocateAbandoned(q, now)
      PROVE  TypeOK'
  BY <1>3, PruneTerminal, PruneIndexType DEF AllocateAbandoned, TypeOK
<1>4. ASSUME NEW now \in Instants, NEW stands \in Outcome, AllocateCommit(q, now, stands)
      PROVE  TypeOK'
  <2> DEFINE t     == AfterPrune(reservations)
             index == IndexAfterPrune(requestIndex, reservations)
             n     == nextReservationId
  <2>1. t \in Table /\ index \in [RequestId -> Id \cup {0}]
    BY PruneTerminal, PruneIndexType DEF TypeOK
  <2>2. now \in Nat /\ n \in Id /\ q.id \in RequestId /\ Placements(q, now) # {}
    BY <1>4, TypeFacts, RequestFacts DEF AllocateCommit, Eligible
  <2>3. reservations' \in Table
    BY <1>4, <2>1, <2>2, CommittedTableType, PruneTerminal DEF AllocateCommit
  <2>4. requestIndex' \in [RequestId -> Id \cup {0}]
    <3>1. [index EXCEPT ![q.id] = n] \in [RequestId -> Id \cup {0}]
      BY <2>1, <2>2
    <3>2. CommittedIndex(q, now, t, index) \in [RequestId -> Id \cup {0}]
      BY <3>1, PruneIndexType DEF CommittedIndex
    <3> HIDE DEF t, index
    <3> QED
      BY <1>4, <2>1, <2>2, <3>2 DEF AllocateCommit, t, index
  <2>5. liveByDomain' \in [Domain -> SUBSET Id]
    <3>1. Unlisted(liveByDomain, Superseded(q, t, index)) \in [Domain -> SUBSET Id]
      BY DEF Unlisted, TypeOK
    <3>2. Listed(Unlisted(liveByDomain, Superseded(q, t, index)), n, NewReservation(q, now))
            \in [Domain -> SUBSET Id]
      BY <2>2, <3>1 DEF Listed
    <3> QED
      BY <1>4, <3>2 DEF AllocateCommit, TypeOK
  <2>6. nextReservationId' \in Nat \ {0} /\ lastActivityAt' \in Nat
    BY <1>4, <2>2 DEF AllocateCommit, TypeOK
  <2>7. disk' \in Image
    BY <1>4, <2>3, <2>6, PersistType DEF AllocateCommit
  <2>8. granted' \subseteq Grant
    BY <1>4, <2>2, RequestFacts DEF AllocateCommit, Report, Grant, TypeOK
  <2> QED
    BY <1>4, <2>3, <2>4, <2>5, <2>6, <2>7, <2>8 DEF AllocateCommit, TypeOK
<1> QED
  BY <1>1, <1>2, <1>3, <1>4

\* Replacing one record by a well-typed one keeps the state well typed.
LEMMA SettleType ==
  ASSUME TypeOK, NEW i \in Id, NEW r \in Reservation, NEW now \in Nat,
         NEW stands, Settle(i, r, now, stands)
  PROVE  TypeOK'
<1>1. reservations' \in Table
  BY DEF Settle, TypeOK, Table
<1>2. liveByDomain' \in [Domain -> SUBSET Id]
  BY DEF Settle, TypeOK, Unlisted
<1>3. disk' \in Image
  BY <1>1, PersistType DEF Settle, TypeOK
<1> QED
  BY <1>1, <1>2, <1>3 DEF Settle, TypeOK

\* A terminal record, an expired one and an absent one are not live.
LEMMA NotLive ==
  /\ \A s : IsTerminalState(s) => ~IsLiveState(s)
  /\ ~IsLiveState("None") /\ ~IsLiveState("Expired") /\ ~IsLiveState("Released")
  /\ ~IsLiveState("Reclaimed") /\ ~IsLiveState("Superseded")
  /\ IsLiveState("Reserved") /\ IsLiveState("Active")
BY DEF IsTerminalState, IsLiveState

\* renew, activate, deactivate and release replace one live record by another
\* that claims the same spectrum, and that owns it only if the first one did.
LEMMA OneReservationSettles ==
  ASSUME TypeOK, NEW i \in Id, OneReservation(i)
  PROVE  \E now \in Instants, stands \in Outcome, r \in Reservation :
           /\ Settle(i, r, now, stands)
           /\ IsLiveState(reservations[i].state)
           /\ r.domains = reservations[i].domains /\ r.guard = reservations[i].guard
           /\ r.low = reservations[i].low /\ r.high = reservations[i].high
           /\ r.request = reservations[i].request /\ r.state # "None"
           /\ r.requestGeneration = reservations[i].requestGeneration
           /\ r.updatedAt = now
           /\ LiveAt(r, now) => LiveAt(reservations[i], now)
           /\ IsLiveState(r.state) =>
                \/ r.expiresAt = reservations[i].expiresAt
                \/ r.expiresAt > reservations[i].expiresAt /\ LiveAt(reservations[i], now)
<1> PICK now \in Instants, stands \in Outcome :
      \/ \E extension \in Extension, cap \in RenewalCap : Renew(i, now, extension, cap, stands)
      \/ Activate(i, now, stands)
      \/ Deactivate(i, now, stands)
      \/ Release(i, now, stands)
  BY DEF OneReservation
<1> DEFINE r == reservations[i]
           Continues(s) ==
             /\ Settle(i, s, now, stands)
             /\ IsLiveState(r.state)
             /\ s.domains = r.domains /\ s.guard = r.guard
             /\ s.low = r.low /\ s.high = r.high
             /\ s.request = r.request /\ s.state # "None"
             /\ s.requestGeneration = r.requestGeneration
             /\ s.updatedAt = now
             /\ LiveAt(s, now) => LiveAt(r, now)
             /\ IsLiveState(s.state) => \/ s.expiresAt = r.expiresAt
                                        \/ s.expiresAt > r.expiresAt /\ LiveAt(r, now)
<1>1. now \in Nat /\ r \in Reservation
  BY TypeFacts
<1>2. ASSUME NEW extension \in Extension, NEW cap \in RenewalCap,
             Renew(i, now, extension, cap, stands)
      PROVE  \E s \in Reservation : Continues(s)
  <2> DEFINE renewed == [r EXCEPT !.expiresAt = @ + extension,
                                  !.renewalCount = @ + 1,
                                  !.maxRenewals = IF cap # 0 THEN cap ELSE @,
                                  !.generation = @ + 1,
                                  !.updatedAt = now]
  <2>1. extension \in Nat \ {0} /\ cap \in Nat
    BY ConstantsAssumption
  <2>2. renewed \in Reservation
    <3>1. /\ r.expiresAt \in Nat /\ r.renewalCount \in Nat
          /\ r.maxRenewals \in Nat /\ r.generation \in Nat
      BY <1>1 DEF Reservation
    <3>2. /\ r.expiresAt + extension \in Nat /\ r.renewalCount + 1 \in Nat
          /\ r.generation + 1 \in Nat
      BY <2>1, <3>1
    <3>3. (IF cap # 0 THEN cap ELSE r.maxRenewals) \in Nat
      BY <2>1, <3>1
    <3> HIDE DEF r
    <3> QED
      BY <1>1, <3>2, <3>3, RenewedType
  <2>3. Settle(i, renewed, now, stands) /\ IsLiveState(r.state) /\ r.expiresAt > now
    BY <1>2 DEF Renew, Renewable, IsLiveState
  <2>4. /\ renewed.domains = r.domains /\ renewed.guard = r.guard
        /\ renewed.low = r.low /\ renewed.high = r.high
        /\ renewed.request = r.request /\ renewed.state = r.state
        /\ renewed.requestGeneration = r.requestGeneration
        /\ renewed.expiresAt = r.expiresAt + extension /\ renewed.updatedAt = now
    BY <1>1 DEF Reservation
  <2>6. renewed.expiresAt > r.expiresAt
    <3>1. r.expiresAt \in Nat
      BY <1>1 DEF Reservation
    <3> HIDE DEF r, renewed
    <3> QED
      BY <2>1, <2>4, <3>1
  <2>5. LiveAt(r, now)
    BY <2>3 DEF LiveAt
  <2>7. r.state # "None"
    BY <2>3, NotLive
  <2> HIDE DEF renewed
  <2> QED
    BY <2>2, <2>3, <2>4, <2>5, <2>6, <2>7
<1>3. CASE Activate(i, now, stands)
  <2> DEFINE active == [r EXCEPT !.state = "Active", !.needsRevalidation = FALSE,
                                 !.updatedAt = now]
  <2>1. active \in Reservation
    BY <1>1 DEF Reservation, SettledState
  <2>2. Settle(i, active, now, stands) /\ IsLiveState(r.state) /\ r.expiresAt > now
    BY <1>3 DEF Activate, IsLiveState
  <2>3. /\ active.domains = r.domains /\ active.guard = r.guard
        /\ active.low = r.low /\ active.high = r.high
        /\ active.request = r.request /\ active.requestGeneration = r.requestGeneration
        /\ active.state = "Active" /\ active.expiresAt = r.expiresAt
        /\ active.updatedAt = now
    BY <1>1 DEF Reservation
  <2>4. LiveAt(r, now)
    BY <2>2 DEF LiveAt
  <2> HIDE DEF active
  <2> QED
    BY <2>1, <2>2, <2>3, <2>4
<1>4. CASE Deactivate(i, now, stands)
  <2> DEFINE idle == [r EXCEPT !.state = "Reserved", !.updatedAt = now]
  <2>1. idle \in Reservation
    BY <1>1, MovedType DEF SettledState
  <2>2. Settle(i, idle, now, stands) /\ IsLiveState(r.state)
    BY <1>4 DEF Deactivate, IsLiveState
  <2>3. /\ idle.domains = r.domains /\ idle.guard = r.guard
        /\ idle.low = r.low /\ idle.high = r.high
        /\ idle.request = r.request /\ idle.requestGeneration = r.requestGeneration
        /\ idle.state = "Reserved" /\ idle.expiresAt = r.expiresAt
        /\ idle.updatedAt = now
    BY <1>1 DEF Reservation
  <2>4. LiveAt(idle, now) => LiveAt(r, now)
    BY <2>2, <2>3 DEF LiveAt
  <2> HIDE DEF idle
  <2> QED
    BY <2>1, <2>2, <2>3, <2>4
<1>5. CASE Release(i, now, stands)
  <2> DEFINE given == [r EXCEPT !.state = "Released", !.updatedAt = now]
  <2>1. given \in Reservation
    BY <1>1, MovedType DEF SettledState
  <2>2. Settle(i, given, now, stands) /\ IsLiveState(r.state)
    BY <1>5 DEF Release
  <2>3. /\ given.domains = r.domains /\ given.guard = r.guard
        /\ given.low = r.low /\ given.high = r.high
        /\ given.request = r.request /\ given.requestGeneration = r.requestGeneration
        /\ given.state = "Released" /\ given.expiresAt = r.expiresAt
        /\ given.updatedAt = now
    BY <1>1 DEF Reservation
  <2>4. ~IsLiveState(given.state)
    BY <2>3 DEF IsLiveState
  <2> HIDE DEF given
  <2> QED
    BY <2>1, <2>2, <2>3, <2>4 DEF LiveAt
<1> QED
  BY <1>2, <1>3, <1>4, <1>5

\* renew, activate, deactivate and release keep the state well typed.
LEMMA OneReservationType ==
  ASSUME TypeOK, NEW i \in Id, OneReservation(i)
  PROVE  TypeOK'
<1>1. PICK now \in Instants, stands \in Outcome, r \in Reservation : Settle(i, r, now, stands)
  BY OneReservationSettles
<1>2. now \in Nat
  BY TypeFacts
<1> QED
  BY <1>1, <1>2, SettleType

\* Marking and reclaiming lapsed records keeps a table well typed.
LEMMA SweptTableType ==
  ASSUME NEW t \in Table, NEW now \in Nat
  PROVE  /\ MarkLapsed(t, now) \in Table
         /\ UnmarkLapsed(t, now) \in Table
         /\ Reclaimed(t, now) \in Table
<1>1. \A i \in Id : /\ [t[i] EXCEPT !.state = "Expired", !.updatedAt = now] \in Reservation
                    /\ [t[i] EXCEPT !.state = "Expired"] \in Reservation
                    /\ [t[i] EXCEPT !.state = "Reclaimed", !.updatedAt = now] \in Reservation
  <2>1. ASSUME NEW r \in Reservation
        PROVE  /\ [r EXCEPT !.state = "Expired", !.updatedAt = now] \in Reservation
               /\ [r EXCEPT !.state = "Expired"] \in Reservation
               /\ [r EXCEPT !.state = "Reclaimed", !.updatedAt = now] \in Reservation
    BY DEF Reservation, SettledState
  <2>2. \A i \in Id : t[i] \in Reservation
    BY DEF Table
  <2> QED
    BY <2>1, <2>2
<1>2. MarkLapsed(t, now) \in Table
  BY <1>1 DEF MarkLapsed, Table
<1>3. UnmarkLapsed(t, now) \in Table
  BY <1>1 DEF UnmarkLapsed, Table
<1>4. Reclaimed(t, now) \in Table
  BY <1>1 DEF Reclaimed, Table
<1> QED
  BY <1>2, <1>3, <1>4

\* expireLeases and reclaimExpired keep the state well typed.
LEMMA SweepsType ==
  ASSUME TypeOK, Sweeps
  PROVE  TypeOK'
<1> PICK now \in Instants, stands \in Outcome :
      ExpireLeases(now, stands) \/ ReclaimExpired(now, stands)
  BY DEF Sweeps
<1>1. PICK swept \in Table, rolledBack \in Table : Sweep(swept, rolledBack, now, stands)
  <2>1. now \in Nat /\ reservations \in Table
    BY TypeFacts DEF TypeOK
  <2>2. /\ MarkLapsed(reservations, now) \in Table
        /\ UnmarkLapsed(reservations, now) \in Table
        /\ Reclaimed(MarkLapsed(reservations, now), now) \in Table
    BY <2>1, SweptTableType
  <2> QED
    BY <2>2 DEF ExpireLeases, ReclaimExpired
<1>2. reservations' \in Table
  BY <1>1 DEF Sweep
<1>3. liveByDomain' \in [Domain -> SUBSET Id]
  BY <1>1 DEF Sweep, TypeOK, Unlisted
<1>4. lastActivityAt' \in Nat
  BY <1>1, TypeFacts DEF Sweep
<1>5. disk' \in Image
  BY <1>1, <1>2, <1>4, PersistType DEF Sweep, TypeOK
<1> QED
  BY <1>1, <1>2, <1>3, <1>4, <1>5 DEF Sweep, TypeOK

\* Starting from nothing gives a well-typed state.
LEMMA EmptiedType ==
  ASSUME TypeOK, Emptied, epoch' \in Nat
  PROVE  TypeOK'
<1>1. EmptyTable \in Table
  BY NoReservationType DEF EmptyTable, Table
<1> QED
  BY <1>1 DEF Emptied, TypeOK

\* Recovery gives a well-typed state.
LEMMA RecoverType ==
  ASSUME TypeOK, Recover
  PROVE  TypeOK'
<1>1. disk.reservations \in Table /\ disk.nextReservationId \in Nat \ {0}
      /\ disk.lastActivityAt \in Nat /\ disk.epoch \in Nat
  BY DEF TypeOK, Image
<1>2. ASSUME NEW i \in Id
      PROVE  Demoted(disk.reservations[i]) \in Reservation
  <2>1. disk.reservations[i] \in Reservation
    BY <1>1 DEF Table
  <2>2. disk.reservations[i].generation + 1 \in Nat /\ clock \in Nat
    <3>1. disk.reservations[i].generation \in Nat
      BY <2>1 DEF Reservation
    <3> QED
      BY <3>1 DEF TypeOK
  <2> QED
    BY <2>1, <2>2, DemotedType DEF Demoted
<1>3. reservations' \in Table
  BY <1>2 DEF Recover, Table
<1>4. liveByDomain' \in [Domain -> SUBSET Id]
  BY DEF Recover, LiveIndexOf
<1>5. requestIndex' \in [RequestId -> Id \cup {0}]
  BY <1>3, RequestIndexOfType DEF Recover
<1>6. enforced' \subseteq Exclusion
  BY DEF Recover, TypeOK
<1> QED
  BY <1>1, <1>3, <1>4, <1>5, <1>6 DEF Recover, TypeOK

\* The initial state is well typed.
LEMMA InitType == Init => TypeOK
<1>1. EmptyTable \in Table
  BY NoReservationType DEF EmptyTable, Table
<1>2. NoImage \in Image
  BY <1>1 DEF NoImage, Image
<1> QED
  BY <1>1, <1>2 DEF Init, TypeOK

\* Every step keeps the state well typed.
LEMMA NextType == TypeOK /\ [Next]_vars => TypeOK'
<1> SUFFICES ASSUME TypeOK, [Next]_vars
             PROVE  TypeOK'
  OBVIOUS
<1>1. CASE Allocate
  BY <1>1, AllocateType
<1>2. ASSUME NEW i \in Id, OneReservation(i)
      PROVE  TypeOK'
  BY <1>2, OneReservationType
<1>3. CASE Sweeps
  BY <1>3, SweepsType
<1>4. CASE Save
  BY <1>4 DEF Save, TypeOK, memory, ImageOf, Image
<1>5. CASE Recover
  BY <1>5, RecoverType
<1>6. CASE StartAfresh
  BY <1>6, EmptiedType DEF StartAfresh
<1>7. CASE Reset
  BY <1>7, EmptiedType DEF Reset, TypeOK
<1>8. CASE Tick
  BY <1>8 DEF Tick, TypeOK, memory
<1>9. CASE UNCHANGED vars
  BY <1>9 DEF vars, memory, TypeOK
<1> QED
  BY <1>1, <1>2, <1>3, <1>4, <1>5, <1>6, <1>7, <1>8, <1>9 DEF Next

\* TypeOK holds in every reachable state: the table never keeps a transient
\* state, and the indices never point outside the identities of the table.
THEOREM TypeCorrect == Spec => []TypeOK
BY InitType, NextType, PTL DEF Spec

-----------------------------------------------------------------------------
(* The index of live reservations                                          *)

\* Identities the counter has not reached yet have no record.
IdsFresh(t, next) == \A i \in Id : i >= next => t[i].state = "None"

\* The inductive invariant behind LiveIndexExact. Without IdsFresh a rollback,
\* which erases the record at the counter, could erase a live one.
IndexInv ==
  /\ TypeOK
  /\ IdsFresh(reservations, nextReservationId)
  /\ IdsFresh(disk.reservations, disk.nextReservationId)
  /\ LiveIndexExact

\* Dropping records from the index gives the index of the table in which
\* exactly these records are no longer live.
LEMMA LiveIndexWithout ==
  ASSUME NEW t, NEW u, NEW gone,
         \A i \in Id : IsLiveState(u[i].state) <=> IsLiveState(t[i].state) /\ i \notin gone,
         \A i \in Id : IsLiveState(u[i].state) => u[i].domains = t[i].domains
  PROVE  LiveIndexOf(u) = Unlisted(LiveIndexOf(t), gone)
BY DEF LiveIndexOf, Unlisted

\* The index does not change while the same records are live.
LEMMA LiveIndexSame ==
  ASSUME NEW t, NEW u,
         \A i \in Id : IsLiveState(u[i].state) <=> IsLiveState(t[i].state),
         \A i \in Id : IsLiveState(u[i].state) => u[i].domains = t[i].domains
  PROVE  LiveIndexOf(u) = LiveIndexOf(t)
BY DEF LiveIndexOf

\* Listing a new live record gives the index of the table that holds it.
LEMMA LiveIndexWith ==
  ASSUME NEW t, NEW u, NEW gone, NEW n \in Id, IsLiveState(u[n].state), n \notin gone,
         \A i \in Id \ {n} :
           IsLiveState(u[i].state) <=> IsLiveState(t[i].state) /\ i \notin gone,
         \A i \in Id \ {n} : IsLiveState(u[i].state) => u[i].domains = t[i].domains,
         ~IsLiveState(t[n].state)
  PROVE  LiveIndexOf(u) = Listed(Unlisted(LiveIndexOf(t), gone), n, u[n])
<1>1. ASSUME NEW d \in Domain
      PROVE  LiveIndexOf(u)[d] = Listed(Unlisted(LiveIndexOf(t), gone), n, u[n])[d]
  BY DEF LiveIndexOf, Listed, Unlisted
<1> QED
  BY <1>1 DEF LiveIndexOf, Listed

\* Pruning makes no record live and drops no live one.
LEMMA PruneKeepsLive ==
  ASSUME NEW t \in Table
  PROVE  \A i \in Id : /\ IsLiveState(AfterPrune(t)[i].state) <=> IsLiveState(t[i].state)
                       /\ IsLiveState(AfterPrune(t)[i].state) => AfterPrune(t)[i] = t[i]
                       /\ t[i].state = "None" => AfterPrune(t)[i].state = "None"
<1>1. NoReservation.state = "None"
  BY DEF NoReservation
<1> QED
  BY <1>1, PruneTerminal, NotLive

\* What a commit does to the records, the new one apart: the superseded record
\* is live no more, the other live ones are untouched, and no other appears.
LEMMA InsertedLive ==
  ASSUME TypeOK, IdsFresh(reservations, nextReservationId), nextReservationId \in Id,
         NEW q \in Request, NEW now \in Nat, NEW index, Placements(q, now) # {}
  PROVE  LET t    == AfterPrune(reservations)
             u    == AfterPrune(Inserted(q, now, t, index))
             back == RolledBack(q, now, t, index)
             n    == nextReservationId
             gone == Superseded(q, t, index)
         IN  /\ n \notin gone /\ t[n].state = "None"
             /\ u[n] = NewReservation(q, now) /\ back[n] = NoReservation
             /\ \A i \in Id \ {n} :
                  /\ IsLiveState(u[i].state) <=> IsLiveState(reservations[i].state) /\ i \notin gone
                  /\ IsLiveState(u[i].state) => u[i] = reservations[i]
                  /\ IsLiveState(back[i].state) <=> IsLiveState(reservations[i].state)
                  /\ IsLiveState(back[i].state) => back[i] = reservations[i]
                  /\ reservations[i].state = "None" => u[i].state = "None" /\ back[i].state = "None"
<1> DEFINE t    == AfterPrune(reservations)
           ins  == Inserted(q, now, t, index)
           u    == AfterPrune(ins)
           back == RolledBack(q, now, t, index)
           n    == nextReservationId
           gone == Superseded(q, t, index)
<1>1. t \in Table /\ ins \in Table
  BY PruneTerminal, CommittedTableType DEF TypeOK
<1>2. \A i \in Id : /\ IsLiveState(t[i].state) <=> IsLiveState(reservations[i].state)
                    /\ IsLiveState(t[i].state) => t[i] = reservations[i]
                    /\ reservations[i].state = "None" => t[i].state = "None"
  BY PruneKeepsLive DEF TypeOK
<1>3. reservations[n].state = "None" /\ t[n].state = "None" /\ n \notin gone
  <2>1. reservations[n].state = "None"
    BY DEF IdsFresh, Id
  <2> QED
    BY <2>1, <1>2, NotLive DEF Superseded
<1>4. ins[n] = NewReservation(q, now) /\ IsLiveState(ins[n].state)
  <2>1. ins[n] = NewReservation(q, now)
    BY DEF Inserted
  <2> QED
    BY <2>1, NotLive DEF NewReservation
<1>5. u[n] = NewReservation(q, now)
  BY <1>1, <1>4, PruneKeepsLive
<1>6. back[n] = NoReservation
  BY DEF RolledBack
<1>7. ASSUME NEW i \in Id \ {n}
      PROVE  /\ i \in gone => IsLiveState(t[i].state) /\ ins[i].state = "Superseded"
             /\ i \notin gone => ins[i] = t[i]
             /\ back[i] = IF i \in gone THEN t[i] ELSE u[i]
  <2>1. t[i] \in Reservation
    BY <1>1 DEF Table
  <2>2. [t[i] EXCEPT !.state = "Superseded", !.updatedAt = now].state = "Superseded"
    BY <2>1 DEF Reservation
  <2>3. ins[i] = IF i \in gone
                   THEN [t[i] EXCEPT !.state = "Superseded", !.updatedAt = now] ELSE t[i]
    BY DEF Inserted
  <2>4. back[i] = IF i \in gone THEN t[i] ELSE u[i]
    BY DEF RolledBack
  <2>5. i \in gone => IsLiveState(t[i].state)
    BY DEF Superseded
  <2> QED
    BY <2>2, <2>3, <2>4, <2>5
<1>8. ASSUME NEW i \in Id \ {n}
      PROVE  /\ IsLiveState(u[i].state) <=> IsLiveState(reservations[i].state) /\ i \notin gone
             /\ IsLiveState(u[i].state) => u[i] = reservations[i]
             /\ IsLiveState(back[i].state) <=> IsLiveState(reservations[i].state)
             /\ IsLiveState(back[i].state) => back[i] = reservations[i]
             /\ reservations[i].state = "None" => u[i].state = "None" /\ back[i].state = "None"
  <2>1. /\ IsLiveState(u[i].state) <=> IsLiveState(ins[i].state)
        /\ IsLiveState(u[i].state) => u[i] = ins[i]
        /\ ins[i].state = "None" => u[i].state = "None"
    BY <1>1, PruneKeepsLive
  <2> HIDE DEF t, ins, u, back, gone
  <2>2. CASE i \in gone
    BY <2>1, <2>2, <1>2, <1>7, NotLive
  <2>3. CASE i \notin gone
    BY <2>1, <2>3, <1>2, <1>7
  <2> QED
    BY <2>2, <2>3
<1> QED
  BY <1>3, <1>5, <1>6, <1>8

\* The image has fresh identities whenever the state it is taken from has.
LEMMA PersistFresh ==
  ASSUME IdsFresh(disk.reservations, disk.nextReservationId), NEW stands, Persist(stands),
         IdsFresh(reservations', nextReservationId')
  PROVE  IdsFresh(disk'.reservations, disk'.nextReservationId)
BY DEF Persist, ImageOf, IdsFresh

\* allocate keeps the index exact.
LEMMA AllocateIndex ==
  ASSUME IndexInv, Allocate
  PROVE  IndexInv'
<1> USE DEF IndexInv
<1>0. TypeOK'
  BY AllocateType
<1> PICK q \in Request :
      \/ AllocateReplay(q)
      \/ \E now \in Instants :
           \/ \E authorised \in BOOLEAN : AllocateRefused(q, now, authorised)
           \/ AllocateAbandoned(q, now)
           \/ \E stands \in Outcome : AllocateCommit(q, now, stands)
  BY DEF Allocate
<1>1. CASE AllocateReplay(q)
  BY <1>0, <1>1 DEF AllocateReplay, memory, IdsFresh, LiveIndexExact
<1>2. ASSUME NEW now \in Instants, NEW authorised \in BOOLEAN,
             AllocateRefused(q, now, authorised)
      PROVE  IndexInv'
  BY <1>0, <1>2 DEF AllocateRefused, IdsFresh, LiveIndexExact
<1>3. ASSUME NEW now \in Instants, AllocateAbandoned(q, now)
      PROVE  IndexInv'
  <2>1. /\ reservations' = AfterPrune(reservations)
        /\ UNCHANGED <<nextReservationId, liveByDomain, disk>>
    BY <1>3 DEF AllocateAbandoned
  <2>2. \A i \in Id :
          /\ IsLiveState(reservations'[i].state) <=> IsLiveState(reservations[i].state)
          /\ IsLiveState(reservations'[i].state) => reservations'[i] = reservations[i]
          /\ reservations[i].state = "None" => reservations'[i].state = "None"
    BY <2>1, PruneKeepsLive DEF TypeOK
  <2>3. LiveIndexExact'
    BY <2>1, <2>2, LiveIndexSame DEF LiveIndexExact
  <2> QED
    BY <1>0, <2>1, <2>2, <2>3 DEF IdsFresh
<1>4. ASSUME NEW now \in Instants, NEW stands \in Outcome, AllocateCommit(q, now, stands)
      PROVE  IndexInv'
  <2> DEFINE t     == AfterPrune(reservations)
             index == IndexAfterPrune(requestIndex, reservations)
             n     == nextReservationId
             gone  == Superseded(q, t, index)
             u     == AfterPrune(Inserted(q, now, t, index))
             back  == RolledBack(q, now, t, index)
  <2>1. now \in Nat /\ n \in Id /\ n \in Nat /\ Placements(q, now) # {}
    BY <1>4, TypeFacts DEF AllocateCommit, Eligible, TypeOK
  <2>2. /\ reservations' = IF stands THEN u ELSE back
        /\ liveByDomain' =
             IF stands THEN Listed(Unlisted(liveByDomain, gone), n, NewReservation(q, now))
                       ELSE liveByDomain
        /\ nextReservationId' = n + 1
        /\ Persist(stands)
    BY <1>4 DEF AllocateCommit
  <2>3. /\ n \notin gone /\ reservations[n].state = "None"
        /\ u[n] = NewReservation(q, now) /\ back[n] = NoReservation
        /\ \A i \in Id \ {n} :
             /\ IsLiveState(u[i].state) <=> IsLiveState(reservations[i].state) /\ i \notin gone
             /\ IsLiveState(u[i].state) => u[i] = reservations[i]
             /\ IsLiveState(back[i].state) <=> IsLiveState(reservations[i].state)
             /\ IsLiveState(back[i].state) => back[i] = reservations[i]
             /\ reservations[i].state = "None" => u[i].state = "None" /\ back[i].state = "None"
    BY <2>1, InsertedLive DEF IdsFresh, Id
  <2> HIDE DEF t, gone, u, back
  <2>4. IsLiveState(u[n].state) /\ ~IsLiveState(reservations[n].state)
        /\ ~IsLiveState(back[n].state)
    BY <2>3, NotLive DEF NewReservation, NoReservation
  <2>5. LiveIndexExact'
    <3>1. CASE stands
      <4>1. n \notin gone
        BY <2>3
      <4>2. /\ \A i \in Id \ {n} :
                 IsLiveState(u[i].state) <=> IsLiveState(reservations[i].state) /\ i \notin gone
            /\ \A i \in Id \ {n} : IsLiveState(u[i].state) => u[i].domains = reservations[i].domains
        BY <2>3
      <4>3. LiveIndexOf(u) = Listed(Unlisted(LiveIndexOf(reservations), gone), n, u[n])
        BY <2>1, <2>4, <4>1, <4>2, LiveIndexWith
      <4> QED
        BY <2>2, <2>3, <3>1, <4>3 DEF LiveIndexExact
    <3>2. CASE ~stands
      <4>1. LiveIndexOf(back) = LiveIndexOf(reservations)
        BY <2>1, <2>3, <2>4, LiveIndexSame
      <4> QED
        BY <2>2, <3>2, <4>1 DEF LiveIndexExact
    <3> QED
      BY <3>1, <3>2
  <2>6. IdsFresh(reservations, nextReservationId)'
    <3> SUFFICES ASSUME NEW i \in Id, i >= n + 1
                 PROVE  reservations'[i].state = "None"
      BY <2>2 DEF IdsFresh
    <3>1. i # n /\ i >= n
      BY <2>1 DEF Id
    <3>2. reservations[i].state = "None"
      BY <3>1 DEF IdsFresh
    <3> QED
      BY <2>2, <2>3, <3>1, <3>2
  <2>7. IdsFresh(disk.reservations, disk.nextReservationId)'
    BY <2>2, <2>6, PersistFresh
  <2> QED
    BY <1>0, <2>5, <2>6, <2>7
<1> QED
  BY <1>1, <1>2, <1>3, <1>4

\* An operation on one reservation keeps the index exact when its record was
\* live before and keeps its domains.
LEMMA SettleIndex ==
  ASSUME IndexInv, TypeOK', NEW i \in Id, NEW r \in Reservation, NEW now, NEW stands,
         Settle(i, r, now, stands), IsLiveState(reservations[i].state),
         r.domains = reservations[i].domains
  PROVE  IndexInv'
<1> USE DEF IndexInv
<1>1. reservations[i].state # "None" /\ reservations \in Table
  BY NotLive DEF TypeOK
<1>2. IdsFresh(reservations, nextReservationId)'
  BY <1>1 DEF Settle, IdsFresh, Table
<1>3. IdsFresh(disk.reservations, disk.nextReservationId)'
  BY <1>2, PersistFresh DEF Settle
<1>4. LiveIndexExact'
  <2>1. CASE ~stands
    BY <2>1 DEF Settle, LiveIndexExact
  <2>2. CASE stands /\ IsLiveState(r.state)
    <3>1. reservations' = [reservations EXCEPT ![i] = r] /\ liveByDomain' = liveByDomain
      BY <2>2 DEF Settle
    <3>2. \A j \in Id :
            /\ IsLiveState(reservations'[j].state) <=> IsLiveState(reservations[j].state)
            /\ reservations'[j].domains = reservations[j].domains
      BY <1>1, <2>2, <3>1 DEF Table
    <3>3. LiveIndexOf(reservations') = LiveIndexOf(reservations)
      BY <3>2, LiveIndexSame
    <3> QED
      BY <3>1, <3>3 DEF LiveIndexExact
  <2>3. CASE stands /\ ~IsLiveState(r.state)
    <3>1. /\ reservations' = [reservations EXCEPT ![i] = r]
          /\ liveByDomain' = Unlisted(liveByDomain, {i})
      BY <2>3 DEF Settle
    <3>2. \A j \in Id :
            /\ IsLiveState(reservations'[j].state)
                 <=> IsLiveState(reservations[j].state) /\ j \notin {i}
            /\ reservations'[j].domains = reservations[j].domains
      BY <1>1, <2>3, <3>1 DEF Table
    <3>3. LiveIndexOf(reservations') = Unlisted(LiveIndexOf(reservations), {i})
      BY <3>2, LiveIndexWithout
    <3> QED
      BY <3>1, <3>3 DEF LiveIndexExact
  <2> QED
    BY <2>1, <2>2, <2>3
<1> QED
  BY <1>2, <1>3, <1>4

\* renew, activate, deactivate and release keep the index exact.
LEMMA OneReservationIndex ==
  ASSUME IndexInv, NEW i \in Id, OneReservation(i)
  PROVE  IndexInv'
<1>1. PICK now \in Instants, stands \in Outcome, r \in Reservation :
        /\ Settle(i, r, now, stands)
        /\ IsLiveState(reservations[i].state)
        /\ r.domains = reservations[i].domains
  BY OneReservationSettles DEF IndexInv
<1>2. TypeOK'
  BY OneReservationType DEF IndexInv
<1> QED
  BY <1>1, <1>2, SettleIndex

\* A sweep, undone or not, ends the lapsed reservations and changes no other
\* live record.
LEMMA SweepsEffect ==
  ASSUME TypeOK, Sweeps
  PROVE  \E now \in Instants, stands \in Outcome :
           /\ liveByDomain' = Unlisted(liveByDomain, Lapsed(reservations, now))
           /\ UNCHANGED <<clock, nextReservationId>>
           /\ Persist(stands)
           /\ \A i \in Id :
                /\ IsLiveState(reservations'[i].state)
                     <=> IsLiveState(reservations[i].state) /\ i \notin Lapsed(reservations, now)
                /\ IsLiveState(reservations'[i].state) => reservations'[i] = reservations[i]
                /\ reservations[i].state = "None" => reservations'[i].state = "None"
<1> PICK now \in Instants, stands \in Outcome :
      ExpireLeases(now, stands) \/ ReclaimExpired(now, stands)
  BY DEF Sweeps
<1> DEFINE lapsed   == Lapsed(reservations, now)
           marked   == MarkLapsed(reservations, now)
           unmarked == UnmarkLapsed(reservations, now)
           back     == Reclaimed(marked, now)
           Ended(t) ==
             \A i \in Id :
               /\ IsLiveState(t[i].state) <=> IsLiveState(reservations[i].state) /\ i \notin lapsed
               /\ IsLiveState(t[i].state) => t[i] = reservations[i]
               /\ reservations[i].state = "None" => t[i].state = "None"
<1>1. now \in Nat /\ reservations \in Table /\ marked \in Table
  BY TypeFacts, SweptTableType DEF TypeOK
<1>2. \A i \in lapsed : IsLiveState(reservations[i].state) /\ reservations[i].state # "None"
  BY NotLive DEF Lapsed
<1>3. \A i \in Id : /\ i \in lapsed => marked[i].state = "Expired" /\ unmarked[i].state = "Expired"
                    /\ i \notin lapsed => marked[i] = reservations[i]
                                          /\ unmarked[i] = reservations[i]
  BY <1>1 DEF MarkLapsed, UnmarkLapsed, Table, Reservation
<1>4. Ended(marked) /\ Ended(unmarked)
  <2> HIDE DEF lapsed, marked, unmarked
  <2> QED
    BY <1>2, <1>3, NotLive
<1>5. \A i \in Id : /\ marked[i].state = "Expired" => back[i].state \in {"Expired", "Reclaimed"}
                    /\ marked[i].state # "Expired" => back[i] = marked[i]
  BY <1>1 DEF Reclaimed, Table, Reservation
<1>6. Ended(back)
  <2> HIDE DEF lapsed, marked, unmarked, back
  <2> QED
    BY <1>4, <1>5, NotLive
<1>7. \/ Sweep(marked, unmarked, now, stands)
      \/ Sweep(back, marked, now, stands)
  BY DEF ExpireLeases, ReclaimExpired
<1>8. /\ liveByDomain' = Unlisted(liveByDomain, lapsed)
      /\ UNCHANGED <<clock, nextReservationId>>
      /\ Persist(stands)
      /\ reservations' \in {marked, unmarked, back}
  <2> HIDE DEF marked, unmarked, back
  <2> QED
    BY <1>7 DEF Sweep
<1>9. Ended(reservations')
  <2> HIDE DEF Ended
  <2> QED
    BY <1>4, <1>6, <1>8
<1> QED
  BY <1>8, <1>9

\* expireLeases and reclaimExpired keep the index exact.
LEMMA SweepsIndex ==
  ASSUME IndexInv, Sweeps
  PROVE  IndexInv'
<1> USE DEF IndexInv
<1>1. PICK now \in Instants, stands \in Outcome :
        /\ liveByDomain' = Unlisted(liveByDomain, Lapsed(reservations, now))
        /\ UNCHANGED <<clock, nextReservationId>>
        /\ Persist(stands)
        /\ \A i \in Id :
             /\ IsLiveState(reservations'[i].state)
                  <=> IsLiveState(reservations[i].state) /\ i \notin Lapsed(reservations, now)
             /\ IsLiveState(reservations'[i].state) => reservations'[i] = reservations[i]
             /\ reservations[i].state = "None" => reservations'[i].state = "None"
  BY SweepsEffect
<1>2. TypeOK'
  BY SweepsType
<1>3. LiveIndexOf(reservations') = Unlisted(LiveIndexOf(reservations), Lapsed(reservations, now))
  BY <1>1, LiveIndexWithout
<1>4. IdsFresh(reservations, nextReservationId)'
  BY <1>1 DEF IdsFresh
<1>5. IdsFresh(disk.reservations, disk.nextReservationId)'
  BY <1>1, <1>4, PersistFresh
<1> QED
  BY <1>1, <1>2, <1>3, <1>4, <1>5 DEF LiveIndexExact

\* An empty table has an empty index.
LEMMA EmptyIndex ==
  /\ LiveIndexOf(EmptyTable) = [d \in Domain |-> {}]
  /\ IdsFresh(EmptyTable, 1)
<1>1. \A i \in Id : EmptyTable[i].state = "None"
  BY DEF EmptyTable, NoReservation
<1> QED
  BY <1>1, NotLive DEF LiveIndexOf, IdsFresh

\* The demotion of a record changes neither whether it is live nor what it
\* claims.
LEMMA DemotedClaim ==
  ASSUME NEW r \in Reservation
  PROVE  /\ IsLiveState(Demoted(r).state) <=> IsLiveState(r.state)
         /\ Demoted(r).domains = r.domains /\ Demoted(r).guard = r.guard
         /\ Demoted(r).low = r.low /\ Demoted(r).high = r.high
         /\ Demoted(r).expiresAt = r.expiresAt
         /\ r.state = "None" => Demoted(r).state = "None"
BY NotLive DEF Demoted, Reservation

\* Recovery rebuilds an exact index.
LEMMA RecoverIndex ==
  ASSUME IndexInv, Recover
  PROVE  IndexInv'
<1> USE DEF IndexInv
<1>1. \A i \in Id : disk.reservations[i] \in Reservation
  BY DEF TypeOK, Image, Table
<1>2. /\ reservations' = [i \in Id |-> Demoted(disk.reservations[i])]
      /\ nextReservationId' = disk.nextReservationId
      /\ liveByDomain' = LiveIndexOf(reservations')
      /\ disk' = disk
  BY DEF Recover
<1>3. TypeOK'
  BY RecoverType
<1>4. IdsFresh(reservations, nextReservationId)'
  BY <1>1, <1>2, DemotedClaim DEF IdsFresh
<1> QED
  BY <1>2, <1>3, <1>4 DEF LiveIndexExact, IdsFresh

\* The initial state and every step keep the index exact.
LEMMA InitIndex == Init => IndexInv
BY InitType, EmptyIndex DEF Init, IndexInv, LiveIndexExact, NoImage

\* An empty table has an empty index.
LEMMA EmptiedIndex ==
  ASSUME IndexInv, Emptied, epoch' \in Nat
  PROVE  IndexInv'
BY EmptiedType, EmptyIndex DEF IndexInv, Emptied, LiveIndexExact

\* Every step keeps the live index exact.
LEMMA NextIndex == IndexInv /\ [Next]_vars => IndexInv'
<1> SUFFICES ASSUME IndexInv, [Next]_vars
             PROVE  IndexInv'
  OBVIOUS
<1>0. TypeOK'
  BY NextType DEF IndexInv
<1>1. CASE Allocate
  BY <1>1, AllocateIndex
<1>2. ASSUME NEW i \in Id, OneReservation(i)
      PROVE  IndexInv'
  BY <1>2, OneReservationIndex
<1>3. CASE Sweeps
  BY <1>3, SweepsIndex
<1>4. CASE Save
  BY <1>0, <1>4 DEF Save, IndexInv, ImageOf, memory, LiveIndexExact, IdsFresh
<1>5. CASE Recover
  BY <1>5, RecoverIndex
<1>6. CASE StartAfresh
  BY <1>6, EmptiedIndex DEF StartAfresh
<1>7. CASE Reset
  BY <1>7, EmptiedIndex DEF Reset, IndexInv, TypeOK
<1>8. CASE Tick
  BY <1>0, <1>8 DEF Tick, IndexInv, memory, LiveIndexExact, IdsFresh
<1>9. CASE UNCHANGED vars
  BY <1>0, <1>9 DEF vars, memory, IndexInv, LiveIndexExact, IdsFresh
<1> QED
  BY <1>1, <1>2, <1>3, <1>4, <1>5, <1>6, <1>7, <1>8, <1>9 DEF Next

\* liveByDomain lists exactly the live records of every domain in every
\* reachable state, however commits, sweeps and recoveries are interleaved and
\* whichever of them fail.
THEOREM LiveIndexCorrect == Spec => []LiveIndexExact
<1>1. IndexInv => LiveIndexExact
  BY DEF IndexInv
<1> QED
  BY <1>1, InitIndex, NextIndex, PTL DEF Spec

-----------------------------------------------------------------------------
(* Exclusive ownership                                                     *)

\* The inductive invariant behind NoOverlap: a crash puts the image in the
\* place of memory, so the image must be free of overlap at the present too,
\* and a grant is decided on liveByDomain, so the index must be exact.
OwnershipInv ==
  /\ IndexInv
  /\ NoOverlapAt(reservations, clock)
  /\ NoOverlapAt(disk.reservations, clock)

\* Whether two claims clash does not depend on which one is looked at first.
LEMMA ClashSymmetric ==
  ASSUME NEW a, NEW b, a.guard \in Nat, b.guard \in Nat,
         a.low \in Nat, a.high \in Nat, b.low \in Nat, b.high \in Nat
  PROVE  Clash(a, b, 0) <=> Clash(b, a, 0)
<1>1. GuardBetween(a, b) = GuardBetween(b, a)
  BY DEF GuardBetween
<1> QED
  BY <1>1 DEF Clash, FrequencyConflict

\* Two claims that agree on range and guard clash with the same claims.
LEMMA ClashOfSame ==
  ASSUME NEW a, NEW b, NEW c, NEW d,
         a.low = c.low, a.high = c.high, a.guard = c.guard,
         b.low = d.low, b.high = d.high, b.guard = d.guard
  PROVE  Clash(a, b, 0) <=> Clash(c, d, 0)
BY DEF Clash, FrequencyConflict, GuardBetween

\* The record u claims what t claims, and owns it only when t does.
Within(u, t, now) ==
  LiveAt(u, now) => /\ LiveAt(t, now)
                    /\ u.domains = t.domains /\ u.guard = t.guard
                    /\ u.low = t.low /\ u.high = t.high

\* A table whose ownership lies within that of a table free of overlap is free
\* of overlap.
LEMMA WithinSafe ==
  ASSUME NEW t, NEW u, NEW now, NoOverlapAt(t, now),
         \A i \in Id : Within(u[i], t[i], now)
  PROVE  NoOverlapAt(u, now)
<1> SUFFICES ASSUME NEW i \in Id, NEW j \in Id, i # j, LiveAt(u[i], now), LiveAt(u[j], now),
                    ShareDomain(u[i], u[j])
             PROVE  ~Clash(u[i], u[j], 0)
  BY DEF NoOverlapAt
<1>1. /\ LiveAt(t[i], now) /\ LiveAt(t[j], now)
      /\ u[i].low = t[i].low /\ u[i].high = t[i].high /\ u[i].guard = t[i].guard
      /\ u[j].low = t[j].low /\ u[j].high = t[j].high /\ u[j].guard = t[j].guard
      /\ u[i].domains = t[i].domains /\ u[j].domains = t[j].domains
  BY DEF Within
<1>2. ShareDomain(t[i], t[j])
  BY <1>1 DEF ShareDomain
<1>3. ~Clash(t[i], t[j], 0)
  BY <1>1, <1>2 DEF NoOverlapAt
<1> QED
  BY <1>1, <1>3, ClashOfSame

\* The image stays free of overlap when it is written from such a table.
LEMMA PersistSafe ==
  ASSUME NEW stands, Persist(stands), NoOverlapAt(disk.reservations, clock),
         NoOverlapAt(reservations', clock)
  PROVE  NoOverlapAt(disk'.reservations, clock)
BY DEF Persist, ImageOf

\* Callers that agree with the clock present no other instant.
LEMMA PresentInstant ==
  ASSUME Lag = 0, TypeOK, NEW now \in Instants
  PROVE  now = clock
BY DEF TypeOK, Instants

\* The placement found for a request is clear of every live reservation on a
\* domain it shares.
LEMMA PlacedClear ==
  ASSUME IndexInv, NEW q \in Request, NEW now \in Nat, Placements(q, now) # {},
         NEW i \in Id, LiveAt(reservations[i], now),
         ShareDomain(NewReservation(q, now), reservations[i])
  PROVE  /\ ~Clash(NewReservation(q, now), reservations[i], 0)
         /\ ~Clash(reservations[i], NewReservation(q, now), 0)
<1> DEFINE r == NewReservation(q, now)
           c == Claim(q, FirstFit(q, now))
<1>1. Free(c, now)
  BY FirstFitPlaced DEF Placements
<1>2. r.domains = c.domains /\ r.low = c.low /\ r.high = c.high /\ r.guard = c.guard
  BY DEF NewReservation, Claim
<1>3. PICK d \in c.domains : d \in reservations[i].domains
  BY <1>2 DEF ShareDomain
<1>4. r \in Reservation /\ reservations[i] \in Reservation
  BY NewReservationType, TypeFacts DEF IndexInv
<1>5. d \in Domain /\ i \in liveByDomain[d]
  BY <1>3, <1>4 DEF IndexInv, LiveIndexExact, LiveIndexOf, LiveAt, Reservation
<1>6. ~Clash(c, reservations[i], 0)
  BY <1>1, <1>5 DEF Free
<1>7. ~Clash(r, reservations[i], 0)
  <2> HIDE DEF r, c
  <2> QED
    BY <1>2, <1>6, ClashOfSame
<1>8. ~Clash(reservations[i], r, 0)
  <2>1. /\ r.guard \in Nat /\ r.low \in Nat /\ r.high \in Nat
        /\ reservations[i].guard \in Nat /\ reservations[i].low \in Nat
        /\ reservations[i].high \in Nat
    BY <1>4 DEF Reservation
  <2> HIDE DEF r
  <2> QED
    BY <2>1, <1>7, ClashSymmetric
<1> QED
  BY <1>7, <1>8

\* allocate creates no overlap: a commit that stands adds one record clear of
\* the live ones, and every other outcome leaves ownership within what it was.
LEMMA AllocateSafe ==
  ASSUME Lag = 0, OwnershipInv, Allocate
  PROVE  NoOverlapAt(reservations', clock) /\ NoOverlapAt(disk'.reservations, clock)
<1> USE DEF OwnershipInv
<1> PICK q \in Request :
      \/ AllocateReplay(q)
      \/ \E now \in Instants :
           \/ \E authorised \in BOOLEAN : AllocateRefused(q, now, authorised)
           \/ AllocateAbandoned(q, now)
           \/ \E stands \in Outcome : AllocateCommit(q, now, stands)
  BY DEF Allocate
<1>1. CASE AllocateReplay(q)
  BY <1>1 DEF AllocateReplay, memory
<1>2. ASSUME NEW now \in Instants, NEW authorised \in BOOLEAN,
             AllocateRefused(q, now, authorised)
      PROVE  NoOverlapAt(reservations', clock) /\ NoOverlapAt(disk'.reservations, clock)
  BY <1>2 DEF AllocateRefused
<1>3. ASSUME NEW now \in Instants, AllocateAbandoned(q, now)
      PROVE  NoOverlapAt(reservations', clock) /\ NoOverlapAt(disk'.reservations, clock)
  <2>1. reservations' = AfterPrune(reservations) /\ disk' = disk
    BY <1>3 DEF AllocateAbandoned
  <2>2. \A i \in Id : Within(reservations'[i], reservations[i], clock)
    BY <2>1, PruneKeepsLive DEF IndexInv, TypeOK, Within, LiveAt
  <2> QED
    BY <2>1, <2>2, WithinSafe
<1>4. ASSUME NEW now \in Instants, NEW stands \in Outcome, AllocateCommit(q, now, stands)
      PROVE  NoOverlapAt(reservations', clock) /\ NoOverlapAt(disk'.reservations, clock)
  <2> DEFINE t     == AfterPrune(reservations)
             index == IndexAfterPrune(requestIndex, reservations)
             n     == nextReservationId
             gone  == Superseded(q, t, index)
             u     == AfterPrune(Inserted(q, now, t, index))
             back  == RolledBack(q, now, t, index)
  <2>1. now = clock /\ now \in Nat /\ n \in Id /\ Placements(q, now) # {}
    BY <1>4, PresentInstant, TypeFacts DEF AllocateCommit, Eligible, IndexInv
  <2>2. (reservations' = IF stands THEN u ELSE back) /\ Persist(stands)
    BY <1>4 DEF AllocateCommit
  <2>3. /\ reservations[n].state = "None"
        /\ u[n] = NewReservation(q, now) /\ back[n] = NoReservation
        /\ \A i \in Id \ {n} :
             /\ IsLiveState(u[i].state) => u[i] = reservations[i]
             /\ IsLiveState(back[i].state) => back[i] = reservations[i]
    BY <2>1, InsertedLive DEF IdsFresh, Id, IndexInv
  <2> HIDE DEF t, gone, u, back
  <2>4. NoOverlapAt(back, clock)
    <3>1. ~LiveAt(back[n], clock)
      BY <2>3, NotLive DEF NoReservation, LiveAt
    <3>2. \A i \in Id : Within(back[i], reservations[i], clock)
      BY <2>3, <3>1 DEF Within, LiveAt
    <3> QED
      BY <3>2, WithinSafe
  <2>5. NoOverlapAt(u, clock)
    <3> SUFFICES ASSUME NEW i \in Id, NEW j \in Id, i # j,
                        LiveAt(u[i], clock), LiveAt(u[j], clock), ShareDomain(u[i], u[j])
                 PROVE  ~Clash(u[i], u[j], 0)
      BY DEF NoOverlapAt
    <3>1. \A k \in Id \ {n} : LiveAt(u[k], clock) => u[k] = reservations[k]
      BY <2>3 DEF LiveAt
    <3>2. CASE i # n /\ j # n
      BY <3>1, <3>2 DEF NoOverlapAt
    <3>3. CASE i = n
      BY <2>1, <2>3, <3>1, <3>3, PlacedClear
    <3>4. CASE j = n
      <4>1. ShareDomain(u[j], u[i])
        BY DEF ShareDomain
      <4> QED
        BY <2>1, <2>3, <3>1, <3>4, <4>1, PlacedClear
    <3> QED
      BY <3>2, <3>3, <3>4
  <2> QED
    BY <2>2, <2>4, <2>5, PersistSafe
<1> QED
  BY <1>1, <1>2, <1>3, <1>4

\* renew, activate, deactivate and release create no overlap.
LEMMA OneReservationSafe ==
  ASSUME Lag = 0, OwnershipInv, NEW i \in Id, OneReservation(i)
  PROVE  NoOverlapAt(reservations', clock) /\ NoOverlapAt(disk'.reservations, clock)
<1>1. PICK now \in Instants, stands \in Outcome, r \in Reservation :
        /\ Settle(i, r, now, stands)
        /\ r.domains = reservations[i].domains /\ r.guard = reservations[i].guard
        /\ r.low = reservations[i].low /\ r.high = reservations[i].high
        /\ LiveAt(r, now) => LiveAt(reservations[i], now)
  BY OneReservationSettles DEF OwnershipInv, IndexInv
<1>2. now = clock /\ reservations \in Table
  BY PresentInstant DEF OwnershipInv, IndexInv, TypeOK
<1>3. \A j \in Id : Within(reservations'[j], reservations[j], clock)
  <2> TAKE j \in Id
  <2>1. reservations'[j] = IF stands /\ j = i THEN r ELSE reservations[j]
    BY <1>1, <1>2 DEF Settle, Table
  <2> QED
    BY <1>1, <1>2, <2>1 DEF Within
<1>4. NoOverlapAt(reservations', clock)
  BY <1>3, WithinSafe DEF OwnershipInv
<1> QED
  BY <1>1, <1>4, PersistSafe DEF Settle, OwnershipInv

\* A sweep creates no overlap.
LEMMA SweepsSafe ==
  ASSUME OwnershipInv, Sweeps
  PROVE  NoOverlapAt(reservations', clock) /\ NoOverlapAt(disk'.reservations, clock)
<1>1. PICK stands \in Outcome :
        /\ Persist(stands)
        /\ \A i \in Id : IsLiveState(reservations'[i].state)
                           => reservations'[i] = reservations[i]
  BY SweepsEffect DEF OwnershipInv, IndexInv
<1>2. \A i \in Id : Within(reservations'[i], reservations[i], clock)
  BY <1>1 DEF Within, LiveAt
<1>3. NoOverlapAt(reservations', clock)
  BY <1>2, WithinSafe DEF OwnershipInv
<1> QED
  BY <1>1, <1>3, PersistSafe DEF OwnershipInv

\* Recovery brings back a table within the image.
LEMMA RecoverSafe ==
  ASSUME OwnershipInv, Recover
  PROVE  NoOverlapAt(reservations', clock)
<1>1. \A i \in Id : disk.reservations[i] \in Reservation
  BY DEF OwnershipInv, IndexInv, TypeOK, Image, Table
<1>2. \A i \in Id : reservations'[i] = Demoted(disk.reservations[i])
  BY DEF Recover
<1>3. \A i \in Id : Within(reservations'[i], disk.reservations[i], clock)
  BY <1>1, <1>2, DemotedClaim DEF Within, LiveAt
<1> QED
  BY <1>3, WithinSafe DEF OwnershipInv

\* An empty table is free of overlap.
LEMMA EmptySafe == \A now : NoOverlapAt(EmptyTable, now)
<1>1. \A now : \A i \in Id : ~LiveAt(EmptyTable[i], now)
  BY NotLive DEF EmptyTable, NoReservation, LiveAt
<1> QED
  BY <1>1 DEF NoOverlapAt

\* Time only ends ownership.
LEMMA TickSafe ==
  ASSUME TypeOK, NEW t \in Table, NoOverlapAt(t, clock), clock' = clock + 1
  PROVE  NoOverlapAt(t, clock')
<1>1. \A i \in Id : LiveAt(t[i], clock') => LiveAt(t[i], clock)
  BY DEF LiveAt, TypeOK, Table, Reservation
<1> QED
  BY <1>1 DEF NoOverlapAt

\* A new runtime owns nothing.
LEMMA InitOwnership == Init => OwnershipInv
BY InitIndex, EmptySafe DEF Init, OwnershipInv, NoImage

\* Every step keeps ownership exclusive, in memory and in the image.
LEMMA NextOwnership ==
  ASSUME Lag = 0
  PROVE  OwnershipInv /\ [Next]_vars => OwnershipInv'
<1> SUFFICES ASSUME OwnershipInv, [Next]_vars
             PROVE  OwnershipInv'
  OBVIOUS
<1> USE DEF OwnershipInv
<1>0. IndexInv'
  BY NextIndex
<1>1. CASE Allocate
  <2>1. clock' = clock
    BY <1>1 DEF Allocate, AllocateReplay, AllocateRefused, AllocateAbandoned, AllocateCommit
  <2> QED
    BY <1>0, <1>1, <2>1, AllocateSafe
<1>2. ASSUME NEW i \in Id, OneReservation(i)
      PROVE  OwnershipInv'
  <2>1. clock' = clock
    BY <1>2, OneReservationSettles DEF IndexInv, Settle
  <2> QED
    BY <1>0, <1>2, <2>1, OneReservationSafe
<1>3. CASE Sweeps
  <2>1. clock' = clock
    BY <1>3, SweepsEffect DEF IndexInv
  <2> QED
    BY <1>0, <1>3, <2>1, SweepsSafe
<1>4. CASE Save
  BY <1>0, <1>4 DEF Save, ImageOf, memory
<1>5. CASE Recover
  BY <1>0, <1>5, RecoverSafe DEF Recover
<1>6. CASE StartAfresh
  BY <1>0, <1>6, EmptySafe DEF StartAfresh, Emptied
<1>7. CASE Reset
  BY <1>0, <1>7, EmptySafe DEF Reset, Emptied
<1>8. CASE Tick
  <2>1. reservations \in Table /\ disk.reservations \in Table
    BY DEF IndexInv, TypeOK, Image
  <2>2. clock' = clock + 1 /\ reservations' = reservations /\ disk' = disk
    BY <1>8 DEF Tick, memory
  <2> QED
    BY <1>0, <2>1, <2>2, TickSafe DEF IndexInv
<1>9. CASE UNCHANGED vars
  BY <1>0, <1>9 DEF vars, memory
<1> QED
  BY <1>1, <1>2, <1>3, <1>4, <1>5, <1>6, <1>7, <1>8, <1>9 DEF Next

\* Exclusive ownership: as long as callers present the present instant, no two
\* reservations ever own clashing spectrum of one domain, in memory or in the
\* image a crash falls back on.
THEOREM OwnershipCorrect ==
  ASSUME Lag = 0
  PROVE  Spec => []NoOverlap
<1>1. OwnershipInv => NoOverlap
  BY DEF OwnershipInv, NoOverlap
<1> QED
  BY <1>1, InitOwnership, NextOwnership, PTL DEF Spec

-----------------------------------------------------------------------------
(* Exclusion domains                                                       *)

\* The table t keeps the members of the exclusion domains e apart at now.
ApartAt(t, now, exclusions) ==
  \A i, j \in Id, e \in exclusions :
    i # j /\ LiveAt(t[i], now) /\ LiveAt(t[j], now) =>
      \A d \in t[i].domains \cap e.members, m \in t[j].domains \cap e.members :
        d # m => ~Clash(t[i], t[j], e.guard)

\* Whether claims clash under an extra guard does not depend on the order.
LEMMA ClashEitherWay ==
  ASSUME NEW a, NEW b, NEW extra \in Nat, a.guard \in Nat, b.guard \in Nat,
         a.low \in Nat, a.high \in Nat, b.low \in Nat, b.high \in Nat
  PROVE  Clash(a, b, extra) <=> Clash(b, a, extra)
<1>1. GuardBetween(a, b) = GuardBetween(b, a)
  BY DEF GuardBetween
<1> QED
  BY <1>1 DEF Clash, FrequencyConflict

\* Claims that agree on range and guard clash with the same claims.
LEMMA ClashAlike ==
  ASSUME NEW a, NEW b, NEW c, NEW d, NEW extra,
         a.low = c.low, a.high = c.high, a.guard = c.guard,
         b.low = d.low, b.high = d.high, b.guard = d.guard
  PROVE  Clash(a, b, extra) <=> Clash(c, d, extra)
BY DEF Clash, FrequencyConflict, GuardBetween

\* A table whose ownership lies within that of a table that keeps the members
\* apart keeps them apart too.
LEMMA WithinApart ==
  ASSUME NEW t, NEW u, NEW now, NEW exclusions, ApartAt(t, now, exclusions),
         \A i \in Id : Within(u[i], t[i], now)
  PROVE  ApartAt(u, now, exclusions)
<1> SUFFICES ASSUME NEW i \in Id, NEW j \in Id, NEW e \in exclusions, i # j,
                    LiveAt(u[i], now), LiveAt(u[j], now),
                    NEW d \in u[i].domains \cap e.members,
                    NEW m \in u[j].domains \cap e.members, d # m
             PROVE  ~Clash(u[i], u[j], e.guard)
  BY DEF ApartAt
<1>1. /\ LiveAt(t[i], now) /\ LiveAt(t[j], now)
      /\ u[i].low = t[i].low /\ u[i].high = t[i].high /\ u[i].guard = t[i].guard
      /\ u[j].low = t[j].low /\ u[j].high = t[j].high /\ u[j].guard = t[j].guard
      /\ u[i].domains = t[i].domains /\ u[j].domains = t[j].domains
  BY DEF Within
<1>2. ~Clash(t[i], t[j], e.guard)
  BY <1>1 DEF ApartAt
<1> QED
  BY <1>1, <1>2, ClashAlike

\* The placement found for a request is clear of every live reservation on
\* another member of an exclusion domain that is looked at.
LEMMA PlacedApart ==
  ASSUME IndexInv, NEW q \in Request, NEW now \in Nat, Placements(q, now) # {},
         NEW i \in Id, LiveAt(reservations[i], now), NEW e \in enforced,
         NEW d \in NewReservation(q, now).domains \cap e.members,
         NEW m \in reservations[i].domains \cap e.members, d # m
  PROVE  /\ ~Clash(NewReservation(q, now), reservations[i], e.guard)
         /\ ~Clash(reservations[i], NewReservation(q, now), e.guard)
<1> DEFINE r == NewReservation(q, now)
           c == Claim(q, FirstFit(q, now))
<1>1. Free(c, now)
  BY FirstFitPlaced DEF Placements
<1>2. r.domains = c.domains /\ r.low = c.low /\ r.high = c.high /\ r.guard = c.guard
  BY DEF NewReservation, Claim
<1>3. r \in Reservation /\ reservations[i] \in Reservation /\ e.guard \in Nat
  BY NewReservationType, TypeFacts, ConstantsAssumption DEF IndexInv, TypeOK
<1>4. d \in c.domains /\ m \in e.members \ {d} /\ m \in Domain
  BY <1>2, <1>3 DEF Reservation
<1>5. i \in liveByDomain[m]
  BY <1>4 DEF IndexInv, LiveIndexExact, LiveIndexOf, LiveAt
<1>6. ~Clash(c, reservations[i], e.guard)
  BY <1>1, <1>4, <1>5 DEF Free
<1>7. /\ r.guard \in Nat /\ r.low \in Nat /\ r.high \in Nat
      /\ reservations[i].guard \in Nat /\ reservations[i].low \in Nat
      /\ reservations[i].high \in Nat
  BY <1>3 DEF Reservation
<1> HIDE DEF r, c
<1>8. ~Clash(r, reservations[i], e.guard)
  BY <1>2, <1>6, ClashAlike
<1>9. ~Clash(reservations[i], r, e.guard)
  BY <1>3, <1>7, <1>8, ClashEitherWay
<1> QED
  BY <1>8, <1>9 DEF r

\* allocate puts no members of an exclusion domain against each other.
LEMMA AllocateApart ==
  ASSUME Lag = 0, IndexInv, ApartAt(reservations, clock, enforced), Allocate
  PROVE  ApartAt(reservations', clock, enforced)
<1> PICK q \in Request :
      \/ AllocateReplay(q)
      \/ \E now \in Instants :
           \/ \E authorised \in BOOLEAN : AllocateRefused(q, now, authorised)
           \/ AllocateAbandoned(q, now)
           \/ \E stands \in Outcome : AllocateCommit(q, now, stands)
  BY DEF Allocate
<1>1. CASE AllocateReplay(q)
  BY <1>1 DEF AllocateReplay, memory
<1>2. ASSUME NEW now \in Instants, NEW authorised \in BOOLEAN,
             AllocateRefused(q, now, authorised)
      PROVE  ApartAt(reservations', clock, enforced)
  BY <1>2 DEF AllocateRefused
<1>3. ASSUME NEW now \in Instants, AllocateAbandoned(q, now)
      PROVE  ApartAt(reservations', clock, enforced)
  <2>1. reservations' = AfterPrune(reservations)
    BY <1>3 DEF AllocateAbandoned
  <2>2. \A i \in Id : Within(reservations'[i], reservations[i], clock)
    BY <2>1, PruneKeepsLive DEF IndexInv, TypeOK, Within, LiveAt
  <2> QED
    BY <2>2, WithinApart
<1>4. ASSUME NEW now \in Instants, NEW stands \in Outcome, AllocateCommit(q, now, stands)
      PROVE  ApartAt(reservations', clock, enforced)
  <2> DEFINE t     == AfterPrune(reservations)
             index == IndexAfterPrune(requestIndex, reservations)
             n     == nextReservationId
             u     == AfterPrune(Inserted(q, now, t, index))
             back  == RolledBack(q, now, t, index)
  <2>1. now = clock /\ now \in Nat /\ n \in Id /\ Placements(q, now) # {}
    BY <1>4, PresentInstant, TypeFacts DEF AllocateCommit, Eligible, IndexInv
  <2>2. reservations' = IF stands THEN u ELSE back
    BY <1>4 DEF AllocateCommit
  <2>3. /\ u[n] = NewReservation(q, now) /\ back[n] = NoReservation
        /\ \A i \in Id \ {n} :
             /\ IsLiveState(u[i].state) => u[i] = reservations[i]
             /\ IsLiveState(back[i].state) => back[i] = reservations[i]
    BY <2>1, InsertedLive DEF IndexInv
  <2> HIDE DEF t, u, back
  <2>4. ApartAt(back, clock, enforced)
    <3>1. ~LiveAt(back[n], clock)
      BY <2>3, NotLive DEF NoReservation, LiveAt
    <3>2. \A i \in Id : Within(back[i], reservations[i], clock)
      BY <2>3, <3>1 DEF Within, LiveAt
    <3> QED
      BY <3>2, WithinApart
  <2>5. ApartAt(u, clock, enforced)
    <3> SUFFICES ASSUME NEW i \in Id, NEW j \in Id, NEW e \in enforced, i # j,
                        LiveAt(u[i], clock), LiveAt(u[j], clock),
                        NEW d \in u[i].domains \cap e.members,
                        NEW m \in u[j].domains \cap e.members, d # m
                 PROVE  ~Clash(u[i], u[j], e.guard)
      BY DEF ApartAt
    <3>1. \A k \in Id \ {n} : LiveAt(u[k], clock) => u[k] = reservations[k]
      BY <2>3 DEF LiveAt
    <3>2. CASE i # n /\ j # n
      BY <3>1, <3>2 DEF ApartAt
    <3>3. CASE i = n
      BY <2>1, <2>3, <3>1, <3>3, PlacedApart
    <3>4. CASE j = n
      BY <2>1, <2>3, <3>1, <3>4, PlacedApart
    <3> QED
      BY <3>2, <3>3, <3>4
  <2> QED
    BY <2>2, <2>4, <2>5
<1> QED
  BY <1>1, <1>2, <1>3, <1>4

\* No operation on one reservation does.
LEMMA OneReservationApart ==
  ASSUME Lag = 0, IndexInv, ApartAt(reservations, clock, enforced),
         NEW i \in Id, OneReservation(i)
  PROVE  /\ ApartAt(reservations', clock, enforced)
         /\ clock' = clock /\ enforced' = enforced
<1>1. PICK now \in Instants, stands \in Outcome, r \in Reservation :
        /\ Settle(i, r, now, stands)
        /\ r.domains = reservations[i].domains /\ r.guard = reservations[i].guard
        /\ r.low = reservations[i].low /\ r.high = reservations[i].high
        /\ LiveAt(r, now) => LiveAt(reservations[i], now)
  BY OneReservationSettles DEF IndexInv
<1>2. now = clock /\ reservations \in Table
  BY PresentInstant DEF IndexInv, TypeOK
<1>3. \A j \in Id : Within(reservations'[j], reservations[j], clock)
  <2> TAKE j \in Id
  <2>1. reservations'[j] = IF stands /\ j = i THEN r ELSE reservations[j]
    BY <1>1, <1>2 DEF Settle, Table
  <2> QED
    BY <1>1, <1>2, <2>1 DEF Within
<1> QED
  BY <1>1, <1>3, WithinApart DEF Settle

\* No sweep does.
LEMMA SweepsApart ==
  ASSUME IndexInv, ApartAt(reservations, clock, enforced), Sweeps
  PROVE  ApartAt(reservations', clock, enforced)
<1>1. \A i \in Id : IsLiveState(reservations'[i].state)
                      => reservations'[i] = reservations[i]
  BY SweepsEffect DEF IndexInv
<1>2. \A i \in Id : Within(reservations'[i], reservations[i], clock)
  BY <1>1 DEF Within, LiveAt
<1> QED
  BY <1>2, WithinApart

\* No step but a recovery does, the passing of time included.
LEMMA NextApart ==
  ASSUME Lag = 0, IndexInv, ApartAt(reservations, clock, enforced), ~Recover, Next
  PROVE  ApartAt(reservations', clock', enforced')
<1>1. CASE Allocate
  <2>1. clock' = clock /\ enforced' = enforced
    BY <1>1 DEF Allocate, AllocateReplay, AllocateRefused, AllocateAbandoned,
                AllocateCommit, memory
  <2> QED
    BY <1>1, <2>1, AllocateApart
<1>2. ASSUME NEW i \in Id, OneReservation(i)
      PROVE  ApartAt(reservations', clock', enforced')
  BY <1>2, OneReservationApart
<1>3. CASE Sweeps
  <2>1. clock' = clock /\ enforced' = enforced
    BY <1>3 DEF Sweeps, ExpireLeases, ReclaimExpired, Sweep
  <2> QED
    BY <1>3, <2>1, SweepsApart
<1>4. CASE Save
  BY <1>4 DEF Save, memory
<1>5. CASE StartAfresh \/ Reset
  <2>1. reservations' = EmptyTable
    BY <1>5 DEF StartAfresh, Reset, Emptied
  <2>2. \A i \in Id : ~LiveAt(EmptyTable[i], clock')
    BY NotLive DEF EmptyTable, NoReservation, LiveAt
  <2> QED
    BY <2>1, <2>2 DEF ApartAt
<1>6. CASE Tick
  <2>1. clock' = clock + 1 /\ reservations' = reservations /\ enforced' = enforced
    BY <1>6 DEF Tick, memory
  <2>2. reservations \in Table /\ clock \in Nat
    BY DEF IndexInv, TypeOK
  <2>3. \A i \in Id : LiveAt(reservations[i], clock') => LiveAt(reservations[i], clock)
    BY <2>1, <2>2 DEF LiveAt, Table, Reservation
  <2>4. ApartAt(reservations, clock', enforced)
    BY <2>3 DEF ApartAt
  <2> QED
    BY <2>1, <2>4
<1> QED
  BY <1>1, <1>2, <1>3, <1>4, <1>5, <1>6 DEF Next

\* With callers that agree on the time, members of an exclusion domain that
\* were apart stay apart through every call, sweep, rollback, restart from
\* nothing and passing of a lease: only the loading of an image, in which
\* decodeState looks at no exclusion domain, may put them against each other.
THEOREM EnforcedExclusionCorrect ==
  ASSUME Lag = 0
  PROVE  Spec => EnforcedExclusionKept
<1>1. ASSUME IndexInv, [Next]_vars
      PROVE  [Excluded(enforced) /\ ~Recover => Excluded(enforced)']_vars
  <2>1. Excluded(enforced) <=> ApartAt(reservations, clock, enforced)
    BY DEF Excluded, ApartAt
  <2>2. Excluded(enforced)' <=> ApartAt(reservations', clock', enforced')
    BY DEF Excluded, ApartAt
  <2>3. CASE Next
    BY <1>1, <2>1, <2>2, <2>3, NextApart
  <2>4. CASE UNCHANGED vars
    BY <2>4
  <2> QED
    BY <1>1, <2>3, <2>4
<1> QED
  BY <1>1, InitIndex, NextIndex, PTL DEF Spec, EnforcedExclusionKept

-----------------------------------------------------------------------------
(* Images that can be loaded                                               *)

\* Live records were last changed by now.
Past(t, now) ==
  \A i \in Id : IsLiveState(t[i].state) => t[i].updatedAt <= now

\* Records that clash took turns: the lease of one had ended when the other
\* was last changed.
TookTurns(t) ==
  \A i, j \in Id :
    /\ i # j /\ IsLiveState(t[i].state) /\ IsLiveState(t[j].state)
    /\ ShareDomain(t[i], t[j]) /\ Clash(t[i], t[j], 0)
    => \/ t[i].expiresAt <= t[j].updatedAt
       \/ t[j].expiresAt <= t[i].updatedAt

\* The inductive invariant behind ImageLoadable. NoOverlap is not enough: it
\* speaks of the present, and the loader of an earlier instant.
SuccessionInv ==
  /\ IndexInv
  /\ Past(reservations, clock) /\ TookTurns(reservations)
  /\ Past(disk.reservations, clock) /\ TookTurns(disk.reservations)

\* The record u is what became of the record t at now: the same claim, changed
\* by now or not at all, under the same lease unless that was running.
Goes(u, t, now) ==
  IsLiveState(u.state) =>
    /\ IsLiveState(t.state)
    /\ u.domains = t.domains /\ u.guard = t.guard
    /\ u.low = t.low /\ u.high = t.high
    /\ u.updatedAt \in {t.updatedAt, now}
    /\ u.expiresAt = t.expiresAt \/ t.expiresAt > now

\* A table that a table became has taken turns if that one had.
LEMMA GoesOn ==
  ASSUME NEW t \in Table, NEW u \in Table, NEW now \in Nat,
         Past(t, now), TookTurns(t), \A i \in Id : Goes(u[i], t[i], now)
  PROVE  Past(u, now) /\ TookTurns(u)
<1>1. Past(u, now)
  BY DEF Past, Goes
<1>2. ASSUME NEW i \in Id, NEW j \in Id, i # j,
             IsLiveState(u[i].state), IsLiveState(u[j].state),
             ShareDomain(u[i], u[j]), Clash(u[i], u[j], 0)
      PROVE  \/ u[i].expiresAt <= u[j].updatedAt
             \/ u[j].expiresAt <= u[i].updatedAt
  <2>1. /\ IsLiveState(t[i].state) /\ IsLiveState(t[j].state)
        /\ u[i].low = t[i].low /\ u[i].high = t[i].high /\ u[i].guard = t[i].guard
        /\ u[j].low = t[j].low /\ u[j].high = t[j].high /\ u[j].guard = t[j].guard
        /\ u[i].domains = t[i].domains /\ u[j].domains = t[j].domains
    BY <1>2 DEF Goes
  <2>2. ShareDomain(t[i], t[j]) /\ Clash(t[i], t[j], 0)
    BY <1>2, <2>1, ClashAlike DEF ShareDomain
  <2>3. \/ t[i].expiresAt <= t[j].updatedAt
        \/ t[j].expiresAt <= t[i].updatedAt
    BY <1>2, <2>1, <2>2 DEF TookTurns
  <2>4. \A k \in {i, j} : /\ u[k].updatedAt \in {t[k].updatedAt, now}
                          /\ u[k].expiresAt = t[k].expiresAt \/ t[k].expiresAt > now
                          /\ t[k].updatedAt <= now
    BY <1>2, <2>1 DEF Goes, Past
  <2>5. \A k \in {i, j} : /\ t[k].updatedAt \in Nat /\ t[k].expiresAt \in Nat
                          /\ u[k].expiresAt \in Nat
    BY DEF Table, Reservation
  <2> QED
    BY <2>3, <2>4, <2>5
<1> QED
  BY <1>1, <1>2 DEF TookTurns

\* What is not changed goes on.
LEMMA GoesUnchanged == \A r, now : Goes(r, r, now)
BY DEF Goes

\* The image has taken turns when the state it is taken from has.
LEMMA PersistTurns ==
  ASSUME NEW stands, Persist(stands), SuccessionInv,
         Past(reservations', clock), TookTurns(reservations')
  PROVE  Past(disk'.reservations, clock) /\ TookTurns(disk'.reservations)
BY DEF Persist, ImageOf, SuccessionInv

\* A new reservation takes over from those it clashes with.
LEMMA CommittedTurns ==
  ASSUME SuccessionInv, NEW q \in Request, Placements(q, clock) # {},
         NEW u \in Table, NEW n \in Id, u[n] = NewReservation(q, clock),
         \A i \in Id \ {n} : IsLiveState(u[i].state) => u[i] = reservations[i]
  PROVE  Past(u, clock) /\ TookTurns(u)
<1>1. u[n].updatedAt = clock /\ clock \in Nat /\ reservations \in Table
  BY DEF NewReservation, SuccessionInv, IndexInv, TypeOK
<1>2. Past(u, clock)
  BY <1>1 DEF Past, SuccessionInv
<1>3. ASSUME NEW j \in Id \ {n}, IsLiveState(u[j].state),
             ShareDomain(u[n], u[j]), Clash(u[n], u[j], 0) \/ Clash(u[j], u[n], 0)
      PROVE  u[j].expiresAt <= u[n].updatedAt
  <2>1. u[j] = reservations[j]
    BY <1>3
  <2>2. ~LiveAt(reservations[j], clock)
    BY <1>1, <1>3, <2>1, PlacedClear DEF SuccessionInv
  <2>3. reservations[j].expiresAt \in Nat
    BY <1>1 DEF Table, Reservation
  <2> QED
    BY <1>1, <1>3, <2>1, <2>2, <2>3 DEF LiveAt
<1>4. ASSUME NEW i \in Id, NEW j \in Id, i # j,
             IsLiveState(u[i].state), IsLiveState(u[j].state),
             ShareDomain(u[i], u[j]), Clash(u[i], u[j], 0)
      PROVE  \/ u[i].expiresAt <= u[j].updatedAt
             \/ u[j].expiresAt <= u[i].updatedAt
  <2>1. ShareDomain(u[j], u[i])
    BY <1>4 DEF ShareDomain
  <2>2. CASE i = n
    BY <1>3, <1>4, <2>2
  <2>3. CASE j = n
    BY <1>3, <1>4, <2>1, <2>3
  <2>4. CASE i # n /\ j # n
    BY <1>4, <2>4 DEF SuccessionInv, TookTurns
  <2> QED
    BY <2>2, <2>3, <2>4
<1> QED
  BY <1>2, <1>4 DEF TookTurns

\* allocate keeps the succession.
LEMMA AllocateTurns ==
  ASSUME Lag = 0, SuccessionInv, Allocate
  PROVE  /\ Past(reservations', clock) /\ TookTurns(reservations')
         /\ Past(disk'.reservations, clock) /\ TookTurns(disk'.reservations)
<1> DEFINE Goal == /\ Past(reservations', clock) /\ TookTurns(reservations')
                   /\ Past(disk'.reservations, clock) /\ TookTurns(disk'.reservations)
<1> PICK q \in Request :
      \/ AllocateReplay(q)
      \/ \E now \in Instants :
           \/ \E authorised \in BOOLEAN : AllocateRefused(q, now, authorised)
           \/ AllocateAbandoned(q, now)
           \/ \E stands \in Outcome : AllocateCommit(q, now, stands)
  BY DEF Allocate
<1>0. /\ reservations \in Table /\ clock \in Nat /\ TypeOK
      /\ Past(reservations, clock) /\ TookTurns(reservations)
  BY DEF SuccessionInv, IndexInv, TypeOK
<1>1. CASE AllocateReplay(q)
  BY <1>1 DEF AllocateReplay, memory, SuccessionInv
<1>2. ASSUME NEW now \in Instants, NEW authorised \in BOOLEAN,
             AllocateRefused(q, now, authorised)
      PROVE  Goal
  BY <1>2 DEF AllocateRefused, SuccessionInv
<1>3. ASSUME NEW now \in Instants, AllocateAbandoned(q, now)
      PROVE  Goal
  <2>1. reservations' = AfterPrune(reservations) /\ disk' = disk
    BY <1>3 DEF AllocateAbandoned
  <2>2. \A i \in Id : Goes(reservations'[i], reservations[i], clock)
    BY <1>0, <2>1, PruneKeepsLive DEF Goes
  <2>3. reservations' \in Table
    BY <1>0, <2>1, PruneTerminal
  <2>4. Past(reservations', clock) /\ TookTurns(reservations')
    BY <1>0, <2>2, <2>3, GoesOn
  <2> QED
    BY <2>1, <2>4 DEF SuccessionInv
<1>4. ASSUME NEW now \in Instants, NEW stands \in Outcome, AllocateCommit(q, now, stands)
      PROVE  Goal
  <2> DEFINE t     == AfterPrune(reservations)
             index == IndexAfterPrune(requestIndex, reservations)
             n     == nextReservationId
             u     == AfterPrune(Inserted(q, now, t, index))
             back  == RolledBack(q, now, t, index)
  <2>1. now = clock /\ now \in Nat /\ n \in Id /\ Placements(q, now) # {}
    BY <1>0, <1>4, PresentInstant, TypeFacts DEF AllocateCommit, Eligible
  <2>2. (reservations' = IF stands THEN u ELSE back) /\ Persist(stands)
    BY <1>4 DEF AllocateCommit
  <2>3. /\ u[n] = NewReservation(q, now) /\ back[n] = NoReservation
        /\ \A i \in Id \ {n} :
             /\ IsLiveState(u[i].state) => u[i] = reservations[i]
             /\ IsLiveState(back[i].state) => back[i] = reservations[i]
    BY <2>1, InsertedLive DEF SuccessionInv, IndexInv
  <2>4. u \in Table /\ back \in Table
    <3>1. t \in Table
      BY <1>0, PruneTerminal
    <3> HIDE DEF t, index
    <3> QED
      BY <2>1, <3>1, CommittedTableType, PruneTerminal
  <2> HIDE DEF t, u, back
  <2>5. Past(back, clock) /\ TookTurns(back)
    <3>1. \A i \in Id : Goes(back[i], reservations[i], clock)
      BY <2>3, NotLive DEF Goes, NoReservation
    <3> QED
      BY <1>0, <2>4, <3>1, GoesOn
  <2>6. Past(u, clock) /\ TookTurns(u)
    BY <2>1, <2>3, <2>4, CommittedTurns
  <2>7. Past(reservations', clock) /\ TookTurns(reservations')
    BY <2>2, <2>5, <2>6
  <2> QED
    BY <2>2, <2>7, PersistTurns
<1> QED
  BY <1>1, <1>2, <1>3, <1>4

\* An operation on one reservation keeps the succession: a lease is prolonged
\* only while it runs.
LEMMA OneReservationTurns ==
  ASSUME Lag = 0, SuccessionInv, NEW i \in Id, OneReservation(i)
  PROVE  /\ clock' = clock
         /\ Past(reservations', clock) /\ TookTurns(reservations')
         /\ Past(disk'.reservations, clock) /\ TookTurns(disk'.reservations)
<1>0. /\ reservations \in Table /\ clock \in Nat /\ TypeOK
      /\ Past(reservations, clock) /\ TookTurns(reservations)
  BY DEF SuccessionInv, IndexInv, TypeOK
<1>1. PICK now \in Instants, stands \in Outcome, r \in Reservation :
        /\ Settle(i, r, now, stands)
        /\ IsLiveState(reservations[i].state)
        /\ r.domains = reservations[i].domains /\ r.guard = reservations[i].guard
        /\ r.low = reservations[i].low /\ r.high = reservations[i].high
        /\ r.updatedAt = now
        /\ IsLiveState(r.state) =>
             \/ r.expiresAt = reservations[i].expiresAt
             \/ r.expiresAt > reservations[i].expiresAt /\ LiveAt(reservations[i], now)
  BY <1>0, OneReservationSettles
<1>2. now = clock
  BY <1>0, PresentInstant
<1>3. \A j \in Id : reservations'[j] = IF stands /\ j = i THEN r ELSE reservations[j]
  BY <1>0, <1>1 DEF Settle, Table
<1>4. \A j \in Id : Goes(reservations'[j], reservations[j], clock)
  BY <1>1, <1>2, <1>3 DEF Goes, LiveAt
<1>5. reservations' \in Table
  BY <1>0, <1>1 DEF Settle, Table
<1>6. Past(reservations', clock) /\ TookTurns(reservations')
  BY <1>0, <1>4, <1>5, GoesOn
<1>7. clock' = clock /\ Persist(stands)
  BY <1>1 DEF Settle
<1> QED
  BY <1>6, <1>7, PersistTurns

\* A sweep keeps the succession.
LEMMA SweepsTurns ==
  ASSUME SuccessionInv, Sweeps, TypeOK'
  PROVE  /\ clock' = clock
         /\ Past(reservations', clock) /\ TookTurns(reservations')
         /\ Past(disk'.reservations, clock) /\ TookTurns(disk'.reservations)
<1>0. /\ reservations \in Table /\ reservations' \in Table /\ clock \in Nat /\ TypeOK
      /\ Past(reservations, clock) /\ TookTurns(reservations)
  BY DEF SuccessionInv, IndexInv, TypeOK
<1>1. PICK stands \in Outcome :
        /\ Persist(stands) /\ clock' = clock
        /\ \A i \in Id : /\ IsLiveState(reservations'[i].state)
                              => IsLiveState(reservations[i].state)
                         /\ IsLiveState(reservations'[i].state)
                              => reservations'[i] = reservations[i]
  BY <1>0, SweepsEffect
<1>2. \A i \in Id : Goes(reservations'[i], reservations[i], clock)
  BY <1>1 DEF Goes
<1>3. Past(reservations', clock) /\ TookTurns(reservations')
  BY <1>0, <1>2, GoesOn
<1> QED
  BY <1>1, <1>3, PersistTurns

\* Recovery brings back records in the succession of the image.
LEMMA RecoverTurns ==
  ASSUME SuccessionInv, Recover, TypeOK'
  PROVE  Past(reservations', clock) /\ TookTurns(reservations')
<1>0. /\ disk.reservations \in Table /\ reservations' \in Table /\ clock \in Nat
      /\ Past(disk.reservations, clock) /\ TookTurns(disk.reservations)
  BY DEF SuccessionInv, IndexInv, TypeOK, Image
<1>1. \A i \in Id : /\ reservations'[i] = Demoted(disk.reservations[i])
                    /\ disk.reservations[i] \in Reservation
  BY <1>0 DEF Recover, Table
<1>2. \A r \in Reservation : Demoted(r).updatedAt \in {r.updatedAt, clock}
  BY DEF Demoted, Reservation
<1>3. \A i \in Id : Goes(reservations'[i], disk.reservations[i], clock)
  BY <1>1, <1>2, DemotedClaim DEF Goes
<1> QED
  BY <1>0, <1>3, GoesOn

\* An empty table is in succession.
LEMMA EmptyTurns == \A now : Past(EmptyTable, now) /\ TookTurns(EmptyTable)
<1>1. \A i \in Id : ~IsLiveState(EmptyTable[i].state)
  BY NotLive DEF EmptyTable, NoReservation
<1> QED
  BY <1>1 DEF Past, TookTurns

\* A new runtime is in succession.
LEMMA InitSuccession == Init => SuccessionInv
BY InitIndex, EmptyTurns DEF Init, SuccessionInv, NoImage

\* Every step keeps the succession, in memory and in the image.
LEMMA NextSuccession ==
  ASSUME Lag = 0
  PROVE  SuccessionInv /\ [Next]_vars => SuccessionInv'
<1> SUFFICES ASSUME SuccessionInv, [Next]_vars
             PROVE  SuccessionInv'
  OBVIOUS
<1> USE DEF SuccessionInv
<1>0. IndexInv' /\ TypeOK'
  BY NextIndex DEF IndexInv
<1>1. CASE Allocate
  <2>1. clock' = clock
    BY <1>1 DEF Allocate, AllocateReplay, AllocateRefused, AllocateAbandoned, AllocateCommit
  <2> QED
    BY <1>0, <1>1, <2>1, AllocateTurns
<1>2. ASSUME NEW i \in Id, OneReservation(i)
      PROVE  SuccessionInv'
  BY <1>0, <1>2, OneReservationTurns
<1>3. CASE Sweeps
  BY <1>0, <1>3, SweepsTurns
<1>4. CASE Save
  BY <1>0, <1>4 DEF Save, ImageOf, memory
<1>5. CASE Recover
  BY <1>0, <1>5, RecoverTurns DEF Recover
<1>6. CASE StartAfresh \/ Reset
  BY <1>0, <1>6, EmptyTurns DEF StartAfresh, Reset, Emptied
<1>7. CASE Tick
  <2>1. clock' = clock + 1 /\ reservations' = reservations /\ disk' = disk
    BY <1>7 DEF Tick, memory
  <2>2. \A t \in Table : Past(t, clock) => Past(t, clock')
    BY <2>1 DEF Past, IndexInv, TypeOK, Table, Reservation
  <2>3. reservations \in Table /\ disk.reservations \in Table
    BY DEF IndexInv, TypeOK, Image
  <2> QED
    BY <1>0, <2>1, <2>2, <2>3
<1>8. CASE UNCHANGED vars
  BY <1>0, <1>8 DEF vars, memory
<1> QED
  BY <1>1, <1>2, <1>3, <1>4, <1>5, <1>6, <1>7, <1>8 DEF Next

-----------------------------------------------------------------------------
(* The check of the loader                                                 *)

\* Two claims the loader refuses are two the allocator refuses.
LEMMA ConflictClashes ==
  ASSUME NEW a \in Reservation, NEW b \in Reservation, ReservationsConflict(a, b)
  PROVE  ShareDomain(a, b) /\ Clash(a, b, 0)
BY DEF ReservationsConflict, Clash, FrequencyConflict, GuardBetween, Reservation

\* The changes of a table have a last one.
LEMMA ChangesBounded ==
  ASSUME NEW t \in Table
  PROVE  \E b \in Nat : \A i \in Id : t[i].updatedAt <= b
<1> DEFINE Bound(k, b) == \A i \in 1..k : t[i].updatedAt <= b
           Unbound     == {k \in 0..MaxId : ~\E b \in Nat : Bound(k, b)}
<1> SUFFICES ASSUME ~\E b \in Nat : Bound(MaxId, b)
             PROVE  FALSE
  BY DEF Id
<1>1. MaxId \in Unbound
  <2>1. MaxId \in 0..MaxId
    BY ConstantsAssumption
  <2> QED
    BY <2>1
<1>2. PICK k \in Unbound : \A other \in Unbound : k <= other
  <2>1. Unbound \subseteq Nat /\ Unbound # {}
    BY <1>1
  <2> HIDE DEF Unbound
  <2> QED
    BY <2>1, LeastElement
<1>3. k \in 1..MaxId
  <2>1. 0 \in Nat /\ Bound(0, 0)
    OBVIOUS
  <2>2. 0 \notin Unbound
    BY <2>1
  <2>3. k \in 0..MaxId /\ k # 0
    BY <1>2, <2>2
  <2> QED
    BY <2>3, ConstantsAssumption
<1>4. k - 1 \in 0..MaxId /\ k - 1 \notin Unbound
  <2>1. MaxId \in Nat /\ k \in Nat /\ ~(k <= k - 1)
    BY <1>3, ConstantsAssumption
  <2>2. k - 1 \in 0..MaxId
    BY <1>3, <2>1
  <2> HIDE DEF Unbound
  <2> QED
    BY <1>2, <2>1, <2>2
<1>5. PICK b \in Nat : Bound(k - 1, b)
  BY <1>4
<1>6. t[k].updatedAt \in Nat
  BY <1>3 DEF Id, Table, Reservation
<1>7. \A i \in 1..k : i = k \/ i \in 1..(k - 1)
  BY <1>3
<1>8. CASE t[k].updatedAt <= b
  <2>1. Bound(k, b)
    BY <1>5, <1>7, <1>8
  <2> QED
    BY <1>2, <1>5, <2>1
<1>9. CASE b < t[k].updatedAt
  <2>1. \A i \in 1..(k - 1) : t[i].updatedAt \in Nat /\ t[i].updatedAt <= b
    <3>1. \A i \in 1..(k - 1) : i \in Id
      BY <1>3, ConstantsAssumption DEF Id
    <3>2. \A i \in Id : t[i].updatedAt \in Nat
      BY DEF Table, Reservation
    <3> QED
      BY <1>5, <3>1, <3>2
  <2>2. ASSUME NEW i \in 1..k PROVE t[i].updatedAt <= t[k].updatedAt
    <3>1. CASE i = k
      BY <1>6, <3>1
    <3>2. CASE i \in 1..(k - 1)
      BY <1>6, <1>9, <2>1, <3>2
    <3> QED
      BY <1>7, <3>1, <3>2
  <2> QED
    BY <1>2, <1>6, <2>2
<1> QED
  BY <1>6, <1>8, <1>9

\* The instant of the check is no earlier than the last change of any record.
LEMMA CheckAtLatest ==
  ASSUME NEW image \in Image
  PROVE  /\ CheckAt(image) \in Nat
         /\ \A i \in Id : image.reservations[i].updatedAt <= CheckAt(image)
<1> DEFINE S == {image.lastActivityAt} \cup {image.reservations[i].updatedAt : i \in Id}
<1>1. image.lastActivityAt \in Nat /\ image.reservations \in Table
  BY DEF Image
<1>2. S \subseteq Nat /\ S # {}
  BY <1>1 DEF Table, Reservation
<1>3. PICK b \in Nat : \A i \in Id : image.reservations[i].updatedAt <= b
  BY <1>1, ChangesBounded
<1>4. PICK c \in Nat : \A n \in S : n <= c
  <2>1. CASE image.lastActivityAt <= b
    BY <1>3, <2>1
  <2>2. CASE b < image.lastActivityAt
    <3>1. \A i \in Id : image.reservations[i].updatedAt \in Nat
      BY <1>1 DEF Table, Reservation
    <3>2. \A n \in S : n <= image.lastActivityAt
      BY <1>1, <1>3, <2>2, <3>1
    <3> QED
      BY <1>1, <3>2
  <2> QED
    BY <1>1, <2>1, <2>2
<1>5. \E m \in S : \A n \in S : n <= m
  <2> HIDE DEF S
  <2> QED
    BY <1>2, <1>4, GreatestElement
<1>6. CheckAt(image) \in S /\ \A n \in S : n <= CheckAt(image)
  BY <1>5 DEF CheckAt
<1> QED
  BY <1>2, <1>6

\* A well-typed image with fresh identities whose records took turns loads.
LEMMA TurnsLoad ==
  ASSUME NEW image \in Image, TookTurns(image.reservations),
         IdsFresh(image.reservations, image.nextReservationId)
  PROVE  Loadable(image)
<1> DEFINE t     == image.reservations
           check == CheckAt(image)
<1>1. /\ \A i \in Id : t[i] \in Reservation
      /\ image.nextReservationId \in Nat
  BY DEF Image, Table
<1>2. check \in Nat /\ \A i \in Id : t[i].updatedAt <= check
  BY CheckAtLatest
<1> HIDE DEF t, check
<1>3. \A i \in Id : t[i].state # "None" => i < image.nextReservationId
  BY <1>1 DEF IdsFresh, Id, t
<1>4. ASSUME NEW i \in Id, NEW j \in Id, i # j,
             LiveAt(t[i], check), LiveAt(t[j], check)
      PROVE  ~ReservationsConflict(t[i], t[j])
  <2> SUFFICES ASSUME ReservationsConflict(t[i], t[j])
               PROVE  FALSE
    OBVIOUS
  <2>1. ShareDomain(t[i], t[j]) /\ Clash(t[i], t[j], 0)
    BY <1>1, ConflictClashes
  <2>2. t[i].expiresAt <= t[j].updatedAt \/ t[j].expiresAt <= t[i].updatedAt
    BY <1>4, <2>1 DEF TookTurns, LiveAt, t
  <2>3. /\ t[i].expiresAt \in Nat /\ t[i].updatedAt \in Nat /\ t[i].expiresAt > check
        /\ t[j].expiresAt \in Nat /\ t[j].updatedAt \in Nat /\ t[j].expiresAt > check
    BY <1>1, <1>4 DEF LiveAt, Reservation
  <2> QED
    BY <1>2, <2>2, <2>3
<1> QED
  BY <1>3, <1>4 DEF Loadable, t, check

\* With callers that agree on the time, decodeState never refuses an image the
\* runtime saved, whenever it was saved and whatever lapsed, was swept or was
\* granted between the changes the image holds.
THEOREM ImageLoadableCorrect ==
  ASSUME Lag = 0
  PROVE  Spec => []ImageLoadable
<1>1. SuccessionInv => ImageLoadable
  BY TurnsLoad DEF SuccessionInv, IndexInv, TypeOK, ImageLoadable
<1> QED
  BY <1>1, InitSuccession, NextSuccession, PTL DEF Spec
=============================================================================
